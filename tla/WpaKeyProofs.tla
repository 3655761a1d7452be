------------------------------ MODULE WpaKeyProofs ------------------------------
(***************************************************************************)
(* The two ends of a 4-way handshake agree on the pairwise key, for every  *)
(* number of stations, of retries and of frames under way: the supplicant  *)
(* has the key that the authenticator has accepted (SamePairwiseKey), and  *)
(* it never installs a key that was zeroed after its use (NoClearedKey).   *)
(*                                                                         *)
(* The invariant speaks of one station at a time: its records at both      *)
(* ends and the frames between them.  InOrder: the frames to a supplicant  *)
(* are ordered by ANonce and replay counter.  Links, at the supplicant: a  *)
(* key that was used will not be made again, because the SNonce is renewed *)
(* after message 3/4, and no message 1/4 comes between two messages 3/4 of *)
(* one key.  Recent: nothing under way is newer than the authenticator.    *)
(* Tied, at the authenticator: a message 2/4 is accepted only where no     *)
(* frame of another key is ahead of it, with the counters and the SNonce   *)
(* of the SNonce workaround too, so a message 4/4 with a valid counter is  *)
(* of the authenticator's own key and was sent by a supplicant that holds  *)
(* it.                                                                     *)
(*                                                                         *)
(* The lemmas go from the records to the code: first what a change of a    *)
(* record does to the agreement, then each function of the supplicant,     *)
(* each entry function of the authenticator, each event and each action.   *)
(***************************************************************************)
EXTENDS WpaTimerProofs

-----------------------------------------------------------------------------
(* Frames under way.  A frame belongs to the handshake of an ANonce (An);  *)
(* what it carries of the group key is left out.                           *)
An(f) == IF f.msg = "1/4" THEN f.nonce ELSE f.mic[2]
Core(f) == [msg |-> f.msg, rc |-> f.rc, mic |-> f.mic, nonce |-> f.nonce]
Downward(q) == {Core(f) : f \in {g \in Elements(q) : g.msg # "deauth"}}
Upward(q) == {f \in Elements(q) : f.msg \in {"2/4", "4/4"}}

(* g is later than a frame of the ANonce a with the counter c.             *)
Past(a, c, g) == a < An(g) \/ (a = An(g) /\ c < g.rc)
Before(f, g) == Past(An(f), f.rc, g)
InOrder(q) ==
  \A i, j \in DOMAIN q :
    i < j /\ q[i].msg # "deauth" /\ q[j].msg # "deauth" => Before(q[i], q[j])

(* Types of keys and frames.  A pairwise key is made of two nonces that    *)
(* were used before r.                                                     *)
IsKey(k, r) ==
  k = <<k[1], k[2], k[3]>> /\ k[2] \in Nat /\ k[3] \in Nat
  /\ 0 < k[2] /\ k[2] < r /\ 0 < k[3] /\ k[3] < r
DownTyped(f, r) ==
  /\ f.msg \in {"1/4", "3/4", "1/2"} /\ f.rc \in Nat
  /\ An(f) \in Nat /\ 0 < An(f) /\ An(f) < r
  /\ f.msg # "1/4" => IsKey(f.mic, r)
UpTyped(f, r) ==
  /\ f.msg \in {"2/4", "4/4"} /\ f.rc \in Nat /\ IsKey(f.mic, r)
  /\ f.msg = "2/4" => f.mic[3] = f.nonce

(* The supplicant will not make the key k again.                           *)
Spent(k, p) == p.tptk # k /\ (p.renew_snonce = TRUE \/ p.snonce # k[3])

-----------------------------------------------------------------------------
(* The supplicant p and the frames: D to it, U from it; r: the next nonce. *)
Typed(D, U, r) ==
  (\A f \in D : DownTyped(f, r)) /\ (\A f \in U : UpTyped(f, r))
(* The supplicant's own record: the key in the driver is its PTK, and once *)
(* it has one tk_to_set is set only while another one is negotiated.       *)
SuppKeys(p, r) ==
  /\ p.assoc \in BOOLEAN /\ p.renew_snonce \in BOOLEAN /\ p.tk_to_set \in BOOLEAN
  /\ p.rx_replay_counter \in Nat /\ p.snonce \in Nat /\ p.snonce < r
  /\ p.renew_snonce = FALSE => p.snonce > 0
  /\ p.key = p.ptk
  /\ p.ptk # NoKey => p.assoc = TRUE /\ IsKey(p.ptk, r)
  /\ p.tptk # NoKey => p.tk_to_set = TRUE /\ IsKey(p.tptk, r)
  /\ p.ptk # NoKey /\ p.tk_to_set = TRUE => p.tptk # NoKey
(* Every message 2/4 answers a frame sent before those still under way.    *)
SecondsFirst(D, U) == \A e \in U, g \in D : e.msg = "2/4" => Before(e, g)
(* The frames to the supplicant are later than the last one it took with   *)
(* its key, and the messages 2/4 made with that key are not.               *)
KeyFirst(p, D) ==
  p.ptk # NoKey => \A g \in D : Past(p.ptk[2], p.rx_replay_counter, g)
KeyAnswered(p, U) ==
  p.ptk # NoKey => \A e \in U : e.msg = "2/4" /\ e.mic = p.ptk => e.rc <= p.rx_replay_counter
(* A key that was used, or confirmed by a 4/4 or 1/2, is not made again.   *)
SpentKeys(p, D, U) ==
  /\ p.ptk # NoKey => Spent(p.ptk, p)
  /\ \A f \in U : f.msg = "4/4" => Spent(f.mic, p)
  /\ \A g \in D : g.msg = "1/2" => Spent(g.mic, p)
(* While a new key is negotiated no 3/4 of the old one is on its way.      *)
NotAgain(p, D) ==
  p.ptk # NoKey /\ p.tptk # NoKey => \A g \in D : g.msg = "3/4" => g.mic # p.ptk
(* A 3/4 after a 1/4 of the same ANonce is of a key that is new then.      *)
Renewed(p, D) ==
  \A h, g \in D : h.msg = "1/4" /\ g.msg = "3/4" /\ An(h) = An(g) /\ Before(h, g) =>
    /\ g.mic # p.ptk
    /\ \A e \in D : e.msg = "3/4" /\ e.mic = g.mic => ~Before(e, h)
(* All that ties the supplicant to the frames under way.                   *)
Links(p, D, U, r) ==
  /\ Typed(D, U, r) /\ SuppKeys(p, r) /\ SecondsFirst(D, U) /\ KeyFirst(p, D)
  /\ KeyAnswered(p, U) /\ SpentKeys(p, D, U) /\ NotAgain(p, D) /\ Renewed(p, D)

(* The frames and the counter are those the authenticator has used.        *)
Used(a, c, m) ==
  /\ m.ANonce > 0 => a <= m.ANonce
  /\ a = m.ANonce /\ "ReAuthentication" \notin m.requests => c <= m.ctr
Recent(m, p, D, U) ==
  /\ \A f \in D : Used(An(f), f.rc, m)
  /\ \A f \in U : Used(An(f), f.rc, m)
  /\ p.ptk # NoKey => Used(p.ptk[2], p.rx_replay_counter, m)

-----------------------------------------------------------------------------
(* The authenticator's record.  Armed: its key may be used for             *)
(* message 3/4.  Candidate: one is about to be derived.  Accepted: message *)
(* 4/4 was received.                                                       *)
Negotiating == {"PTKCALCNEGOTIATING", "PTKCALCNEGOTIATING2", "PTKINITNEGOTIATING"}
Armed(m) == m.PTK_valid = TRUE /\ m.ptk \in Negotiating
Candidate(m) == m.rx = "pairwise" /\ (m.ptk = "PTKSTART" \/ m.update_snonce = TRUE)
Accepted(m) ==
  /\ m.PTK_valid = TRUE
  /\ \/ m.ptk = "PTKINITDONE"
     \/ m.ptk = "PTKINITNEGOTIATING" /\ m.rx = "pairwise" /\ m.update_snonce = FALSE
(* Which keys the authenticator may still send in a message 3/4.           *)
IsNew(k, m) == Candidate(m) /\ k = m.last_mic /\ k = Ptk(PSK, m.ANonce, m.SNonce)
HasAlt(m) == m.alt_SNonce # NoNonce
Uses(k, m) ==
  IsNew(k, m) \/ (Armed(m) /\ (k = m.PTK \/ (HasAlt(m) /\ k = AltKey(m))))

(* The supplicant has the key k, and no 1/4 is on its way to it.           *)
Held(k, p, D) ==
  p.assoc = TRUE => p.ptk = k /\ p.tptk = NoKey /\ \A g \in D : g.msg # "1/4"

(* Such a key is not held back by a 1/4 the supplicant has yet to answer.  *)
Pending(m, p, D) ==
  \A k : Uses(k, m) =>
    /\ p.ptk = k => p.tptk = NoKey
    /\ \A h \in D : h.msg = "1/4" /\ An(h) = m.ANonce =>
         /\ p.ptk # k
         /\ \A g \in D : g.msg = "3/4" /\ g.mic = k => ~Before(g, h)
(* No frame but of the key k reached beyond the counter c.                 *)
Ahead(c, a, p, D, k) ==
  /\ \A g \in D : g.msg # "1/4" /\ An(g) = a => g.mic = k \/ g.rc < c
  /\ p.ptk # NoKey /\ p.ptk[2] = a => p.ptk = k \/ p.rx_replay_counter < c
(* The counters that are valid for a 2/4 are those of a handshake in which *)
(* nothing went further (Answerable), and the ones the SNonce workaround   *)
(* keeps of an earlier 1/4 (Renewable) are overtaken only by the key in    *)
(* use.                                                                    *)
Second(f) == f.msg \in {"1/4", "2/4"}
Answerable(m, p, D, U) ==
  "ReAuthentication" \notin m.requests =>
    \A f \in D \cup U : Second(f) /\ An(f) = m.ANonce /\ f.rc \in m.valid =>
      m.ptk \notin Negotiating \cup {"PTKINITDONE"} /\ Ahead(f.rc, m.ANonce, p, D, NoKey)
Renewable(m, p, D, U) ==
  Armed(m) \/ Candidate(m) =>
    \A f \in D \cup U : Second(f) /\ An(f) = m.ANonce /\ f.rc \in m.prev =>
      Ahead(f.rc, m.ANonce, p, D,
            IF Armed(m) /\ m.update_snonce = FALSE THEN m.PTK ELSE NoKey)
(* A 3/4 or 4/4 with a valid counter is of the authenticator's key, and    *)
(* the supplicant that sent the 4/4 holds it; the same of the alternative  *)
(* SNonce.                                                                 *)
Confirming(m, p, D, U) ==
  Armed(m) => \A f \in D \cup U : f.msg \in {"3/4", "4/4"} /\ An(f) = m.ANonce =>
    /\ f.rc \in m.valid => f.mic = m.PTK /\ (f.msg = "4/4" => Held(f.mic, p, D))
    /\ HasAlt(m) /\ f.rc = m.alt_rc =>
         f.mic = AltKey(m) /\ (f.msg = "4/4" => Held(f.mic, p, D))
(* After message 4/4 both ends have the key.                               *)
Confirmed(m, p, D) ==
  Accepted(m) =>
    /\ Held(m.PTK, p, D) /\ Spent(m.PTK, p)
    /\ m.ptk = "PTKINITDONE" => m.key = m.PTK
(* The authenticator's record: its PTK is made of its ANonce and its       *)
(* SNonce, unless a Request took the place of the latter, and is valid in  *)
(* the states that use it.                                                 *)
ApKeys(m, r) ==
  /\ m.PTK_valid = TRUE =>
       /\ IsKey(m.PTK, r) /\ m.PTK[1] = PSK /\ m.PTK[2] = m.ANonce
       /\ m.ptk \in Negotiating \cup {"PTKSTART", "PTKINITDONE"}
       /\ m.requests \subseteq {"Disconnect"}
  /\ m.requests = {} /\ ( \/ m.ptk \in {"PTKCALCNEGOTIATING2", "PTKINITNEGOTIATING", "PTKINITDONE"}
                          \/ m.ptk = "PTKCALCNEGOTIATING" /\ m.MICVerified = TRUE )
       => m.PTK_valid = TRUE
  /\ Armed(m) /\ m.rx # "pairwise" /\ (m.ptk = "PTKCALCNEGOTIATING" => m.MICVerified = TRUE)
       => m.SNonce \in {m.PTK[3], NoNonce}
  /\ m.ptk = "PTKSTART" => m.alt_SNonce = NoNonce
  /\ Armed(m) /\ m.ptk = "PTKINITNEGOTIATING" /\ m.rx # "pairwise" => m.ctr \in m.valid
  /\ Armed(m) /\ HasAlt(m) => m.alt_rc <= m.ctr /\ m.alt_rc \in Nat
  /\ m.alt_SNonce \in Nat /\ m.alt_SNonce < r
(* A 2/4 that is being handled brings the SNonce its key is made of.       *)
ToDerive(m, r) ==
  Candidate(m) =>
    /\ IsKey(m.last_mic, r) /\ m.last_mic[3] = m.SNonce
    /\ m.MICVerified = TRUE => m.PTK_valid = TRUE /\ m.last_mic = m.PTK
    /\ m.ptk = "PTKSTART" /\ m.PTK_valid = TRUE => m.MICVerified = TRUE
(* All that ties the authenticator to the supplicant and to the frames.    *)
Tied(m, p, D, U, r) ==
  /\ Pending(m, p, D) /\ Answerable(m, p, D, U) /\ Renewable(m, p, D, U)
  /\ Confirming(m, p, D, U) /\ Confirmed(m, p, D) /\ ApKeys(m, r) /\ ToDerive(m, r)

(* The two ends of a station and the frames between them agree.            *)
Agreed(m, p, D, U, r) == Links(p, D, U, r) /\ Recent(m, p, D, U) /\ Tied(m, p, D, U, r)

-----------------------------------------------------------------------------
(* What holds of frames and nonces holds of fewer frames and later on.     *)

(* Fewer frames under way.                                                 *)
LEMMA LinksShrink ==
  ASSUME NEW p, NEW D, NEW U, NEW r, Links(p, D, U, r), NEW E, E \subseteq D, NEW V, V \subseteq U
  PROVE  Links(p, E, V, r)
<1>1. Typed(E, V, r) /\ SecondsFirst(E, V)  BY DEF Links, Typed, SecondsFirst
<1>2. KeyFirst(p, E) /\ KeyAnswered(p, V) /\ SpentKeys(p, E, V)
  BY DEF Links, KeyFirst, KeyAnswered, SpentKeys
<1>3. NotAgain(p, E) /\ Renewed(p, E)  BY DEF Links, NotAgain, Renewed
<1> QED BY <1>1, <1>2, <1>3 DEF Links

(* Ahead and Held for fewer frames.                                        *)
LEMMA AheadShrink ==
  ASSUME NEW D, NEW E, E \subseteq D, NEW p
  PROVE  /\ \A c, a, k : Ahead(c, a, p, D, k) => Ahead(c, a, p, E, k)
         /\ \A k : Held(k, p, D) => Held(k, p, E)
BY DEF Ahead, Held

(* The same for the authenticator's part.                                  *)
LEMMA TiedShrink ==
  ASSUME NEW m, NEW p, NEW D, NEW U, NEW r, Tied(m, p, D, U, r),
         NEW E, E \subseteq D, NEW V, V \subseteq U
  PROVE  Tied(m, p, E, V, r)
<1>1. Pending(m, p, E)  BY DEF Tied, Pending
<1>2. Answerable(m, p, E, V)  BY AheadShrink DEF Tied, Answerable
<1>3. Renewable(m, p, E, V)  BY AheadShrink DEF Tied, Renewable
<1>4. Confirming(m, p, E, V)  BY AheadShrink DEF Tied, Confirming
<1>5. Confirmed(m, p, E)  BY AheadShrink DEF Tied, Confirmed
<1> QED BY <1>1, <1>2, <1>3, <1>4, <1>5 DEF Tied

(* Both parts together, for fewer frames.                                  *)
LEMMA AgreedShrink ==
  ASSUME NEW m, NEW p, NEW D, NEW U, NEW r, Agreed(m, p, D, U, r),
         NEW E, E \subseteq D, NEW V, V \subseteq U
  PROVE  Agreed(m, p, E, V, r)
<1>1. Recent(m, p, E, V)  BY DEF Agreed, Recent
<1> QED BY <1>1, LinksShrink, TiedShrink DEF Agreed

(* More nonces are in use.                                                 *)
LEMMA LinksLater ==
  ASSUME NEW p, NEW D, NEW U, NEW r \in Nat, Links(p, D, U, r), NEW q \in Nat, r <= q
  PROVE  Links(p, D, U, q)
<1>1. \A k : IsKey(k, r) => IsKey(k, q)  BY DEF IsKey
<1>2. Typed(D, U, q)  BY <1>1 DEF Links, Typed, DownTyped, UpTyped
<1>3. SuppKeys(p, q)  BY <1>1 DEF Links, SuppKeys
<1> QED BY <1>2, <1>3 DEF Links

(* The same for the record of the authenticator.                           *)
LEMMA AgreedLater ==
  ASSUME NEW m, NEW p, NEW D, NEW U, NEW r \in Nat, Agreed(m, p, D, U, r),
         NEW q \in Nat, r <= q
  PROVE  Agreed(m, p, D, U, q)
<1>1. \A k : IsKey(k, r) => IsKey(k, q)  BY DEF IsKey
<1>2. ApKeys(m, q) /\ ToDerive(m, q)  BY <1>1 DEF Agreed, Tied, ApKeys, ToDerive
<1> QED BY <1>2, LinksLater DEF Agreed, Tied

-----------------------------------------------------------------------------
(* The supplicant's part.  E are the frames to it that remain when the     *)
(* first one, f, is taken.                                                 *)

(* A key the authenticator uses is one of its present ANonce.              *)
LEMMA UsesKey ==
  ASSUME NEW m, NEW r, ApKeys(m, r), ToDerive(m, r), NEW k, Uses(k, m)
  PROVE  IsKey(k, r) /\ k[2] = m.ANonce /\ m.ANonce \in Nat /\ m.ANonce > 0 /\ k # NoKey
<1>1. CASE IsNew(k, m)
  BY <1>1 DEF IsNew, ToDerive, IsKey, Ptk, NoKey
<1>2. CASE Armed(m) /\ k = m.PTK
  BY <1>2 DEF Armed, Negotiating, ApKeys, IsKey, NoKey
<1>3. CASE Armed(m) /\ HasAlt(m) /\ k = AltKey(m)
  BY <1>3 DEF Armed, Negotiating, ApKeys, IsKey, NoKey, HasAlt, AltKey, Ptk, NoNonce
<1> QED BY <1>1, <1>2, <1>3 DEF Uses

(* A key is not the absence of one.                                        *)
LEMMA KeyNotEmpty ==
  ASSUME NEW k, NEW r, IsKey(k, r)
  PROVE  k # NoKey
BY DEF IsKey, NoKey

(* The supplicant has lost its keys, and is not associated, or the         *)
(* authenticator has given up its own.                                     *)
Forgot(p, q) ==
  /\ q.ptk = NoKey /\ q.tptk = NoKey /\ q.key = NoKey
  /\ q.snonce = p.snonce /\ q.renew_snonce \in {p.renew_snonce, TRUE}
  /\ q.rx_replay_counter \in Nat /\ q.tk_to_set \in BOOLEAN /\ q.assoc \in BOOLEAN

(* A supplicant that forgets its keys agrees with everything, unless it is *)
(* associated and the authenticator counts on them.                        *)
LEMMA ForgotAgreed ==
  ASSUME NEW m, NEW p, NEW D, NEW U, NEW r, Agreed(m, p, D, U, r), NEW q, Forgot(p, q),
         q.assoc = FALSE \/ (~Armed(m) /\ ~Accepted(m))
  PROVE  Agreed(m, q, D, U, r)
<1>1. \A k : IsKey(k, r) /\ Spent(k, p) => Spent(k, q)
  BY KeyNotEmpty DEF Forgot, Spent
<1>2. Links(q, D, U, r)
  <2>1. Typed(D, U, r) /\ SecondsFirst(D, U)  BY DEF Agreed, Links
  <2>2. SuppKeys(q, r)  BY DEF Agreed, Links, SuppKeys, Forgot
  <2>3. SpentKeys(q, D, U)
    BY <1>1 DEF Agreed, Links, SpentKeys, Forgot, Typed, DownTyped, UpTyped
  <2>4. KeyFirst(q, D) /\ KeyAnswered(q, U) /\ NotAgain(q, D)
    BY DEF KeyFirst, KeyAnswered, NotAgain, Forgot
  <2>5. Renewed(q, D)
    BY KeyNotEmpty DEF Agreed, Links, Renewed, Forgot, Typed, DownTyped
  <2> QED BY <2>1, <2>2, <2>3, <2>4, <2>5 DEF Links
<1>3. Recent(m, q, D, U)  BY DEF Agreed, Recent, Forgot
<1>4. Tied(m, q, D, U, r)
  <2>1. \A k : Uses(k, m) => k # NoKey  BY UsesKey DEF Agreed, Tied
  <2>2. Pending(m, q, D)  BY <2>1 DEF Agreed, Tied, Pending, Forgot
  <2>3. \A c, a, k : Ahead(c, a, p, D, k) => Ahead(c, a, q, D, k)  BY DEF Ahead, Forgot
  <2>4. Answerable(m, q, D, U) /\ Renewable(m, q, D, U)
    BY <2>3 DEF Agreed, Tied, Answerable, Renewable
  <2>5. q.assoc = FALSE => \A k : Held(k, q, D)  BY DEF Held
  <2>6. Confirming(m, q, D, U)  BY <2>5 DEF Agreed, Tied, Confirming
  <2>7. Confirmed(m, q, D)
    <3>1. Accepted(m) => IsKey(m.PTK, r)  BY DEF Accepted, Agreed, Tied, ApKeys
    <3> QED BY <1>1, <2>5, <3>1 DEF Agreed, Tied, Confirmed
  <2> QED BY <2>2, <2>4, <2>6, <2>7 DEF Agreed, Tied
<1> QED BY <1>2, <1>3, <1>4 DEF Agreed

(* Message 1/4, f, is answered with message 2/4, e.                        *)
Began(p, f, q, e, s) ==
  /\ q.ptk = p.ptk /\ q.key = p.key /\ q.assoc = p.assoc
  /\ q.rx_replay_counter = p.rx_replay_counter
  /\ q.snonce = s /\ q.renew_snonce = FALSE /\ q.tk_to_set = TRUE
  /\ q.tptk = e.mic \/ (q.tptk = p.tptk /\ p.tptk # NoKey)
  /\ e.msg = "2/4" /\ e.rc = f.rc /\ e.nonce = s /\ e.mic = <<p.pmk, f.nonce, s>>
(* The SNonce of a 2/4: a new one, or the last one while it is not to be   *)
(* renewed; t is the next unused nonce.                                    *)
FreshNonce(p, r, s, t) ==
  (s = r /\ t = r + 1) \/ (s = p.snonce /\ p.renew_snonce = FALSE /\ t = r)

(* A 1/4 that is answered by the 2/4, e, leaves the two ends in agreement. *)
LEMMA BeganAgreed ==
  ASSUME NEW m, NEW p, NEW D, NEW U, NEW r \in Nat, r > 0, Agreed(m, p, D, U, r), m.ANonce \in Nat,
         NEW f \in D, f.msg = "1/4", NEW E, E \subseteq D, \A g \in E : Before(f, g),
         p.assoc = TRUE, NEW q, NEW e, NEW s, NEW t, Began(p, f, q, e, s), FreshNonce(p, r, s, t)
  PROVE  Agreed(m, q, E, U \cup {e}, t)
<1>1. t \in Nat /\ r <= t /\ s \in Nat /\ 0 < s /\ s < t
  BY DEF FreshNonce, Agreed, Links, SuppKeys
<1>2. An(f) = f.nonce /\ f.rc \in Nat /\ An(f) \in Nat /\ 0 < An(f) /\ An(f) < r
  BY DEF An, Agreed, Links, Typed, DownTyped
<1>3. IsKey(e.mic, t) /\ e.mic[2] = An(f) /\ e.mic[3] = s /\ An(e) = An(f)
  BY <1>1, <1>2 DEF IsKey, Began, An
<1>4. \A k : IsKey(k, r) /\ Spent(k, p) => k[3] # s
  BY DEF FreshNonce, Spent, IsKey
<1>5. \A k : IsKey(k, r) /\ Spent(k, p) => k # e.mic /\ Spent(k, q)
  BY <1>3, <1>4 DEF Spent, Began
<1>6. Agreed(m, p, D, U, t)  BY <1>1, AgreedLater
<1>7. Links(p, E, U, t) /\ Links(p, D, U, r)  BY <1>6, LinksShrink DEF Agreed
<1>8. Links(q, E, U \cup {e}, t)
  <2>1. Typed(E, U \cup {e}, t)
    <3>1. UpTyped(e, t)  BY <1>2, <1>3 DEF UpTyped, Began
    <3> QED BY <1>7, <3>1 DEF Links, Typed
  <2>2. SuppKeys(q, t)
    BY <1>1, <1>3, <1>7, KeyNotEmpty DEF Links, SuppKeys, Began
  <2>3. SecondsFirst(E, U \cup {e})
    <3>1. \A g \in E : Before(e, g)  BY <1>3 DEF Before, Began
    <3> QED BY <1>7, <3>1 DEF Links, SecondsFirst
  <2>4. p.ptk # NoKey => IsKey(p.ptk, r) /\ Spent(p.ptk, p)
    BY <1>7 DEF Links, SuppKeys, SpentKeys
  <2>5. KeyFirst(q, E) /\ KeyAnswered(q, U \cup {e})
    BY <1>5, <1>7, <2>4 DEF Links, KeyFirst, KeyAnswered, Began
  <2>6. SpentKeys(q, E, U \cup {e})
    <3>1. q.ptk # NoKey => Spent(q.ptk, q)  BY <1>5, <2>4 DEF Began
    <3>2. \A g \in U : g.msg = "4/4" => Spent(g.mic, q)
      BY <1>5, <1>7 DEF Links, Typed, UpTyped, SpentKeys
    <3>3. \A g \in E : g.msg = "1/2" => Spent(g.mic, q)
      BY <1>5, <1>7 DEF Links, Typed, DownTyped, SpentKeys
    <3> QED BY <3>1, <3>2, <3>3 DEF SpentKeys, Began
  <2>7. p.ptk # NoKey => \A g \in E : g.msg = "3/4" => g.mic # p.ptk
    <3> SUFFICES ASSUME p.ptk # NoKey, NEW g \in E, g.msg = "3/4", g.mic = p.ptk
                 PROVE  FALSE
      OBVIOUS
    <3>1. Past(p.ptk[2], p.rx_replay_counter, f)  BY <1>7 DEF Links, KeyFirst
    <3>2. Before(f, g) /\ An(g) = p.ptk[2] /\ An(g) \in Nat /\ g \in D
      BY <1>7 DEF An, Links, Typed, DownTyped
    <3>3. An(f) = An(g)  BY <1>2, <3>1, <3>2 DEF Before, Past
    <3> QED BY <1>7, <3>2, <3>3 DEF Links, Renewed
  <2>8. NotAgain(q, E) /\ Renewed(q, E)
    BY <1>7, <2>7 DEF Links, NotAgain, Renewed, Began
  <2> QED BY <2>1, <2>2, <2>3, <2>5, <2>6, <2>8 DEF Links
<1>9. Recent(m, q, E, U \cup {e})
  <2>1. Used(An(e), e.rc, m)  BY <1>3 DEF Agreed, Recent, Began
  <2> QED BY <2>1 DEF Agreed, Recent, Began
<1>10. Tied(m, p, D, U, t) /\ Tied(m, p, E, U, t)  BY <1>6, TiedShrink DEF Agreed
<1>11. \A k : Uses(k, m) => p.ptk # k
  <2> SUFFICES ASSUME NEW k, Uses(k, m), p.ptk = k PROVE FALSE  OBVIOUS
  <2>1. IsKey(k, t) /\ k[2] = m.ANonce /\ m.ANonce > 0 /\ k # NoKey
    BY <1>10, UsesKey DEF Tied
  <2>2. CASE An(f) = m.ANonce  BY <1>10, <2>2 DEF Tied, Pending
  <2>3. CASE An(f) # m.ANonce
    <3>1. An(f) < m.ANonce  BY <1>2, <2>1, <2>3 DEF Agreed, Recent, Used
    <3>2. Past(p.ptk[2], p.rx_replay_counter, f)  BY <1>7, <2>1 DEF Links, KeyFirst
    <3> QED BY <1>2, <2>1, <3>1, <3>2 DEF Past
  <2> QED BY <2>2, <2>3
<1>12. \A k : ~Held(k, p, D)  BY DEF Held
<1>13. Pending(m, q, E)  BY <1>10, <1>11 DEF Tied, Pending, Began
<1>14. \A c, a, k : Ahead(c, a, p, D, k) => Ahead(c, a, q, E, k)
  BY DEF Ahead, Began
<1>15. Second(f) /\ An(e) = An(f) /\ e.rc = f.rc  BY <1>3 DEF Second, Began
<1>16. Answerable(m, q, E, U \cup {e})
  BY <1>10, <1>14, <1>15 DEF Tied, Answerable
<1>17. Renewable(m, q, E, U \cup {e})
  BY <1>10, <1>14, <1>15 DEF Tied, Renewable
<1>18. Confirming(m, q, E, U \cup {e})
  BY <1>10, <1>12 DEF Tied, Confirming, Began
<1>19. ~Accepted(m)  BY <1>10, <1>12 DEF Tied, Confirmed
<1> QED BY <1>8, <1>9, <1>10, <1>13, <1>16, <1>17, <1>18, <1>19 DEF Agreed, Tied, Confirmed

(* Message 3/4, f, is answered with message 4/4, e.                        *)
Completed(p, f, q, e) ==
  /\ f.mic \in {p.tptk, p.ptk}
  /\ q.ptk = f.mic /\ q.key = f.mic /\ q.tptk = NoKey /\ q.assoc = TRUE
  /\ q.rx_replay_counter = f.rc /\ q.snonce = p.snonce
  /\ q.renew_snonce = TRUE /\ q.tk_to_set = FALSE
  /\ e.msg = "4/4" /\ e.rc = f.rc /\ e.mic = f.mic

(* So does a 3/4 that is answered by the 4/4, e.                           *)
LEMMA CompletedAgreed ==
  ASSUME NEW m, NEW p, NEW D, NEW U, NEW r \in Nat, Agreed(m, p, D, U, r), m.ANonce \in Nat,
         NEW f \in D, f.msg = "3/4", NEW E, E \subseteq D, \A g \in E : Before(f, g),
         p.assoc = TRUE, NEW q, NEW e, Completed(p, f, q, e)
  PROVE  Agreed(m, q, E, U \cup {e}, r)
<1>1. /\ IsKey(f.mic, r) /\ f.mic # NoKey /\ An(f) = f.mic[2] /\ An(e) = An(f)
      /\ f.rc \in Nat /\ An(f) \in Nat
  BY KeyNotEmpty DEF Agreed, Links, Typed, DownTyped, An, Completed
<1>2. Links(p, E, U, r) /\ Links(p, D, U, r)  BY LinksShrink DEF Agreed
<1>3. \A h \in E : ~Before(h, f)
  BY <1>1, <1>2 DEF Before, Past, Links, Typed, DownTyped
<1>4. Links(q, E, U \cup {e}, r)
  <2>1. Typed(E, U \cup {e}, r)
    <3>1. UpTyped(e, r)  BY <1>1 DEF UpTyped, Completed
    <3> QED BY <1>2, <3>1 DEF Links, Typed
  <2>2. SuppKeys(q, r)  BY <1>1, <1>2 DEF Links, SuppKeys, Completed
  <2>3. SecondsFirst(E, U \cup {e})  BY <1>2 DEF Links, SecondsFirst, Completed
  <2>4. KeyFirst(q, E)  BY <1>1 DEF KeyFirst, Before, Completed
  <2>5. KeyAnswered(q, U \cup {e})
    <3> SUFFICES ASSUME NEW g \in U, g.msg = "2/4", g.mic = f.mic PROVE g.rc <= f.rc
      BY DEF KeyAnswered, Completed
    <3>1. Before(g, f) /\ g.rc \in Nat  BY <1>2 DEF Links, SecondsFirst, Typed, UpTyped
    <3>2. An(g) = An(f)  BY <1>1 DEF An
    <3> QED BY <1>1, <3>1, <3>2 DEF Before, Past
  <2>6. \A k : IsKey(k, r) => Spent(k, q)  BY KeyNotEmpty DEF Spent, Completed
  <2>7. SpentKeys(q, E, U \cup {e})
    BY <2>1, <2>2, <2>6 DEF SpentKeys, Typed, DownTyped, UpTyped, SuppKeys
  <2>8. NotAgain(q, E)  BY DEF NotAgain, Completed
  <2>9. Renewed(q, E)
    <3> SUFFICES ASSUME NEW h \in E, NEW g \in E, h.msg = "1/4", g.msg = "3/4",
                        An(h) = An(g), Before(h, g)
                 PROVE  g.mic # f.mic
      BY <1>2 DEF Links, Renewed, Completed
    <3> QED BY <1>2 DEF Links, Renewed
  <2> QED BY <2>1, <2>2, <2>3, <2>4, <2>5, <2>7, <2>8, <2>9 DEF Links
<1>5. Used(An(f), f.rc, m)  BY DEF Agreed, Recent
<1>6. Recent(m, q, E, U \cup {e})
  BY <1>1, <1>5 DEF Agreed, Recent, Completed
<1>7. Tied(m, p, D, U, r) /\ Tied(m, p, E, U, r)  BY TiedShrink DEF Agreed
<1>8. Uses(f.mic, m) => \A h \in E : h.msg # "1/4"
  <2> SUFFICES ASSUME Uses(f.mic, m), NEW h \in E, h.msg = "1/4" PROVE FALSE  OBVIOUS
  <2>1. An(f) = m.ANonce /\ m.ANonce > 0  BY <1>1, <1>7, UsesKey DEF Tied
  <2>2. Before(f, h) /\ An(h) \in Nat  BY <1>2 DEF Links, Typed, DownTyped
  <2>3. Used(An(h), h.rc, m)  BY DEF Agreed, Recent
  <2>4. An(h) = m.ANonce  BY <2>1, <2>2, <2>3 DEF Used, Before, Past
  <2> QED BY <1>7, <2>2, <2>4 DEF Tied, Pending
<1>9. Pending(m, q, E)
  BY <1>7, <1>8 DEF Tied, Pending, Completed
<1>10. \A c, a, k : Ahead(c, a, p, D, k) => Ahead(c, a, q, E, k)
  BY <1>1 DEF Ahead, Completed
<1>11. ~Second(e)  BY DEF Second, Completed
<1>12. Answerable(m, q, E, U \cup {e}) /\ Renewable(m, q, E, U \cup {e})
  BY <1>7, <1>10, <1>11 DEF Tied, Answerable, Renewable
<1>13. \A k : Held(k, p, D) => Held(k, q, E)
  BY <1>1 DEF Held, Completed
<1>14. Uses(f.mic, m) => Held(f.mic, q, E)
  BY <1>8 DEF Held, Completed
<1>15. Confirming(m, q, E, U \cup {e})
  <2> SUFFICES ASSUME Armed(m), NEW g \in E \cup U \cup {e}, g.msg \in {"3/4", "4/4"},
                      An(g) = m.ANonce
               PROVE  /\ g.rc \in m.valid =>
                           g.mic = m.PTK /\ (g.msg = "4/4" => Held(g.mic, q, E))
                      /\ HasAlt(m) /\ g.rc = m.alt_rc =>
                           g.mic = AltKey(m) /\ (g.msg = "4/4" => Held(g.mic, q, E))
    BY DEF Confirming
  <2>1. CASE g \in E \cup U  BY <1>7, <1>13, <2>1 DEF Tied, Confirming
  <2>2. CASE g = e
    <3>1. /\ f.rc \in m.valid => f.mic = m.PTK
          /\ HasAlt(m) /\ f.rc = m.alt_rc => f.mic = AltKey(m)
      BY <1>1, <1>7, <2>2 DEF Tied, Confirming
    <3>2. /\ f.mic = m.PTK => Uses(f.mic, m)
          /\ HasAlt(m) /\ f.mic = AltKey(m) => Uses(f.mic, m)
      BY DEF Uses
    <3> QED BY <1>14, <2>2, <3>1, <3>2 DEF Completed
  <2> QED BY <2>1, <2>2
<1>16. Confirmed(m, q, E)
  <2>1. Accepted(m) => IsKey(m.PTK, r)  BY <1>7 DEF Accepted, Tied, ApKeys
  <2>2. \A k : IsKey(k, r) => Spent(k, q)  BY KeyNotEmpty DEF Spent, Completed
  <2> QED BY <1>7, <1>13, <2>1, <2>2 DEF Tied, Confirmed
<1> QED BY <1>4, <1>6, <1>7, <1>9, <1>12, <1>15, <1>16 DEF Agreed, Tied

(* A frame made with the key is taken: only the replay counter moves on.   *)
Counted(p, f, q) ==
  /\ q.ptk = p.ptk /\ q.key = p.key /\ q.tptk = p.tptk /\ q.assoc = p.assoc
  /\ q.snonce = p.snonce /\ q.renew_snonce = p.renew_snonce /\ q.tk_to_set = p.tk_to_set
  /\ q.rx_replay_counter = f.rc

(* So does a 1/2, of which the supplicant keeps the counter.               *)
LEMMA CountedAgreed ==
  ASSUME NEW m, NEW p, NEW D, NEW U, NEW r \in Nat, Agreed(m, p, D, U, r),
         NEW f \in D, f.msg = "1/2", NEW E, E \subseteq D, \A g \in E : Before(f, g),
         f.mic = p.ptk, p.rx_replay_counter <= f.rc, NEW q, Counted(p, f, q)
  PROVE  Agreed(m, q, E, U, r)
<1>1. f.mic # NoKey /\ An(f) = f.mic[2] /\ f.rc \in Nat
  BY KeyNotEmpty DEF Agreed, Links, Typed, DownTyped, An
<1>2. Links(p, E, U, r)  BY LinksShrink DEF Agreed
<1>3. Links(q, E, U, r)
  <2>1. SuppKeys(q, r)  BY <1>1, <1>2 DEF Links, SuppKeys, Counted
  <2>2. KeyFirst(q, E)  BY <1>1 DEF KeyFirst, Before, Counted
  <2>3. KeyAnswered(q, U)
    BY <1>1, <1>2 DEF Links, KeyAnswered, Counted, SuppKeys, Typed, UpTyped
  <2>4. \A k : Spent(k, p) => Spent(k, q)  BY DEF Spent, Counted
  <2>5. SpentKeys(q, E, U)  BY <1>2, <2>4 DEF Links, SpentKeys, Counted
  <2>6. NotAgain(q, E) /\ Renewed(q, E)  BY <1>2 DEF Links, NotAgain, Renewed, Counted
  <2> QED BY <1>2, <2>1, <2>2, <2>3, <2>5, <2>6 DEF Links
<1>4. Recent(m, q, E, U)  BY <1>1 DEF Agreed, Recent, Counted
<1>5. Tied(m, p, D, U, r) /\ Tied(m, p, E, U, r)  BY TiedShrink DEF Agreed
<1>6. Pending(m, q, E)  BY <1>5 DEF Tied, Pending, Counted
<1>7. \A c, a, k : Ahead(c, a, p, D, k) => Ahead(c, a, q, E, k)
  BY <1>1 DEF Ahead, Counted
<1>8. Answerable(m, q, E, U) /\ Renewable(m, q, E, U)
  BY <1>5, <1>7 DEF Tied, Answerable, Renewable
<1>9. /\ \A k : Held(k, p, E) => Held(k, q, E)
      /\ \A k : Spent(k, p) => Spent(k, q)
  BY DEF Held, Spent, Counted
<1>10. Confirming(m, q, E, U) /\ Confirmed(m, q, E)
  BY <1>5, <1>9 DEF Tied, Confirming, Confirmed
<1> QED BY <1>3, <1>4, <1>5, <1>6, <1>8, <1>10 DEF Agreed, Tied

-----------------------------------------------------------------------------
(* The authenticator's part.                                               *)

(* A new frame is later than all others.                                   *)
Newest(g, p, D, U) ==
  /\ \A f \in D : Before(f, g)
  /\ \A f \in U : Before(f, g)
  /\ p.ptk # NoKey => Past(p.ptk[2], p.rx_replay_counter, g)

(* The supplicant agrees with one more frame if it is the newest.          *)
LEMMA LinksMore ==
  ASSUME NEW p, NEW D, NEW U, NEW r, Links(p, D, U, r), NEW g, DownTyped(g, r), Newest(g, p, D, U),
         g.msg = "1/2" => Spent(g.mic, p),
         g.msg = "3/4" =>
           /\ p.ptk = g.mic => p.tptk = NoKey
           /\ \A h \in D : h.msg = "1/4" /\ An(h) = An(g) =>
                /\ p.ptk # g.mic
                /\ \A e \in D : e.msg = "3/4" /\ e.mic = g.mic => ~Before(e, h)
  PROVE  Links(p, D \cup {g}, U, r)
<1>1. \A f \in D : ~Before(g, f)
  BY DEF Newest, Before, Past, Links, Typed, DownTyped
<1>2. ~Before(g, g)  BY DEF Before, Past, DownTyped
<1>3. Typed(D \cup {g}, U, r) /\ SecondsFirst(D \cup {g}, U) /\ KeyFirst(p, D \cup {g})
  BY DEF Links, Typed, SecondsFirst, KeyFirst, Newest
<1>4. SpentKeys(p, D \cup {g}, U)  BY DEF Links, SpentKeys
<1>5. NotAgain(p, D \cup {g})  BY DEF Links, NotAgain
<1>6. Renewed(p, D \cup {g})
  <2> SUFFICES ASSUME NEW h \in D \cup {g}, NEW i \in D \cup {g},
                      h.msg = "1/4", i.msg = "3/4", An(h) = An(i), Before(h, i)
               PROVE  /\ i.mic # p.ptk
                      /\ \A e \in D \cup {g} : e.msg = "3/4" /\ e.mic = i.mic => ~Before(e, h)
    BY DEF Renewed
  <2>1. h \in D  BY <1>1, <1>2
  <2>2. \A e \in D \cup {g} : e.mic = i.mic /\ e = g => ~Before(e, h)  BY <1>1, <2>1
  <2>3. CASE i \in D  BY <2>1, <2>2, <2>3 DEF Links, Renewed
  <2>4. CASE i = g  BY <2>1, <2>2, <2>4
  <2> QED BY <2>3, <2>4
<1> QED BY <1>3, <1>4, <1>5, <1>6 DEF Links

(* A frame with the next counter is the newest.                            *)
LEMMA NextNewest ==
  ASSUME NEW m, NEW p, NEW D, NEW U, NEW r, Links(p, D, U, r), Recent(m, p, D, U),
         m.ANonce \in Nat, m.ANonce > 0, m.ctr \in Nat, "ReAuthentication" \notin m.requests,
         NEW g, An(g) = m.ANonce, g.rc = m.ctr + 1
  PROVE  Newest(g, p, D, U)
<1>1. \A f \in D : An(f) \in Nat /\ f.rc \in Nat  BY DEF Links, Typed, DownTyped
<1>2. \A f \in U : An(f) \in Nat /\ f.rc \in Nat
  BY DEF Links, Typed, UpTyped, An, IsKey
<1>3. p.ptk # NoKey => p.ptk[2] \in Nat /\ p.rx_replay_counter \in Nat
  BY DEF Links, SuppKeys, IsKey
<1>4. \A a \in Nat, c \in Nat : Used(a, c, m) => Past(a, c, g)
  BY DEF Used, Past
<1> QED BY <1>1, <1>2, <1>3, <1>4 DEF Newest, Before, Recent

(* What was used by the record m was used by n.                            *)
Keeps(m, n, r) == \A a \in Nat, c \in Nat : 0 < a /\ a < r /\ Used(a, c, m) => Used(a, c, n)

(* An authenticator that keeps its place keeps the frames recent.          *)
LEMMA RecentKept ==
  ASSUME NEW m, NEW n, NEW p, NEW D, NEW U, NEW r, Links(p, D, U, r), Recent(m, p, D, U),
         Keeps(m, n, r)
  PROVE  Recent(n, p, D, U)
<1>1. \A f \in D : An(f) \in Nat /\ f.rc \in Nat /\ 0 < An(f) /\ An(f) < r
  BY DEF Links, Typed, DownTyped
<1>2. \A f \in U : An(f) \in Nat /\ f.rc \in Nat /\ 0 < An(f) /\ An(f) < r
  BY DEF Links, Typed, UpTyped, An, IsKey
<1>3. p.ptk # NoKey => /\ p.ptk[2] \in Nat /\ p.rx_replay_counter \in Nat
                       /\ 0 < p.ptk[2] /\ p.ptk[2] < r
  BY DEF Links, SuppKeys, IsKey
<1> QED BY <1>1, <1>2, <1>3 DEF Recent, Keeps

(* The key is given up, or none is in use yet.                             *)
Keyless(n) == ~Armed(n) /\ ~Candidate(n) /\ ~Accepted(n)

(* Nothing else is asked of an authenticator that uses no key.             *)
LEMMA KeylessTied ==
  ASSUME NEW n, NEW p, NEW D, NEW U, NEW r, Keyless(n), ApKeys(n, r), Answerable(n, p, D, U)
  PROVE  Tied(n, p, D, U, r)
<1>1. \A k : ~Uses(k, n)  BY DEF Keyless, Uses, IsNew
<1> QED BY <1>1 DEF Keyless, Tied, Pending, Renewable, Confirming, Confirmed, ToDerive

(* Which frames may be answered: none new ones.                            *)
Closes(m, n, r) ==
  \/ n.ANonce = 0 \/ n.ANonce >= r \/ n.valid = {}
  \/ /\ n.ANonce = m.ANonce /\ n.valid \subseteq m.valid
     /\ "ReAuthentication" \notin n.requests => "ReAuthentication" \notin m.requests
     /\ n.ptk \in Negotiating \cup {"PTKINITDONE"} => n.ptk = m.ptk

(* Frames that could be answered before can be answered still.             *)
LEMMA ClosesAnswerable ==
  ASSUME NEW m, NEW n, NEW p, NEW D, NEW U, NEW r \in Nat, Typed(D, U, r), Answerable(m, p, D, U),
         Closes(m, n, r), n.ANonce \in Nat
  PROVE  Answerable(n, p, D, U)
<1>1. \A f \in D \cup U : An(f) \in Nat /\ 0 < An(f) /\ An(f) < r
  BY DEF Typed, DownTyped, UpTyped, An, IsKey
<1>2. CASE n.ANonce = 0 \/ n.ANonce >= r \/ n.valid = {}
  BY <1>1, <1>2 DEF Answerable
<1>3. CASE /\ n.ANonce = m.ANonce /\ n.valid \subseteq m.valid
           /\ "ReAuthentication" \notin n.requests => "ReAuthentication" \notin m.requests
           /\ n.ptk \in Negotiating \cup {"PTKINITDONE"} => n.ptk = m.ptk
  BY <1>3 DEF Answerable
<1> QED BY <1>2, <1>3 DEF Closes

(* An authenticator that gives its key up stays in agreement.              *)
LEMMA KeylessAgreed ==
  ASSUME NEW m, NEW p, NEW D, NEW U, NEW r \in Nat, Agreed(m, p, D, U, r),
         NEW n, NEW q \in Nat, r <= q, Keyless(n), ApKeys(n, q), Closes(m, n, r), Keeps(m, n, r),
         n.ANonce \in Nat
  PROVE  Agreed(n, p, D, U, q)
<1>1. Links(p, D, U, q)  BY LinksLater DEF Agreed
<1>2. Recent(n, p, D, U)  BY RecentKept DEF Agreed
<1>3. Answerable(n, p, D, U)  BY ClosesAnswerable DEF Agreed, Links, Tied
<1> QED BY <1>1, <1>2, <1>3, KeylessTied DEF Agreed

(* Message 1/4, g, is sent.                                                *)
Opened(m, n) ==
  /\ n.ANonce = m.ANonce /\ n.ctr = m.ctr + 1 /\ n.valid \subseteq m.valid \cup {m.ctr + 1}
  /\ n.ptk = "PTKSTART"

(* Sending message 1/4 keeps the agreement.                                *)
LEMMA OpenedAgreed ==
  ASSUME NEW m, NEW p, NEW D, NEW U, NEW r \in Nat, Agreed(m, p, D, U, r),
         m.ANonce \in Nat, 0 < m.ANonce, m.ANonce < r, m.ctr \in Nat, m.valid \subseteq Nat,
         "ReAuthentication" \notin m.requests,
         NEW n, Opened(m, n), Keyless(n), ApKeys(n, r),
         NEW g, g.msg = "1/4", g.nonce = m.ANonce, g.rc = m.ctr + 1
  PROVE  Agreed(n, p, D \cup {g}, U, r)
<1>1. An(g) = m.ANonce  BY DEF An
<1>2. Newest(g, p, D, U)  BY <1>1, NextNewest DEF Agreed
<1>3. DownTyped(g, r)  BY <1>1 DEF DownTyped
<1>4. Links(p, D \cup {g}, U, r)  BY <1>2, <1>3, LinksMore DEF Agreed
<1>5. Keeps(m, n, r)  BY DEF Keeps, Used, Opened
<1>6. Recent(n, p, D \cup {g}, U)
  <2>1. Recent(n, p, D, U)  BY <1>5, RecentKept DEF Agreed
  <2>2. Used(An(g), g.rc, n)  BY <1>1 DEF Used, Opened
  <2> QED BY <2>1, <2>2 DEF Recent
<1>7. Answerable(n, p, D \cup {g}, U)
  <2>1. n.ptk \notin Negotiating \cup {"PTKINITDONE"}  BY DEF Negotiating, Opened
  <2>2. Ahead(g.rc, m.ANonce, p, D, NoKey)
    <3>1. \A h \in D : Used(An(h), h.rc, m) /\ h.rc \in Nat
      BY DEF Agreed, Recent, Links, Typed, DownTyped
    <3>2. p.ptk # NoKey => Used(p.ptk[2], p.rx_replay_counter, m) /\ p.rx_replay_counter \in Nat
      BY DEF Agreed, Recent, Links, SuppKeys
    <3> QED BY <3>1, <3>2 DEF Ahead, Used
  <2>3. \A f \in D \cup U : An(f) = m.ANonce => f.rc # m.ctr + 1
    <3>1. \A f \in D \cup U : Used(An(f), f.rc, m) /\ f.rc \in Nat
      BY DEF Agreed, Recent, Links, Typed, DownTyped, UpTyped
    <3> QED BY <3>1 DEF Used
  <2>4. \A c, a : Ahead(c, a, p, D, NoKey) => Ahead(c, a, p, D \cup {g}, NoKey)
    BY DEF Ahead
  <2>5. \A f \in D \cup U : Second(f) /\ An(f) = n.ANonce /\ f.rc \in n.valid =>
          Ahead(f.rc, n.ANonce, p, D, NoKey)
    BY <2>3 DEF Agreed, Tied, Answerable, Opened
  <2>6. Ahead(g.rc, n.ANonce, p, D, NoKey)  BY <2>2 DEF Opened
  <2> QED BY <2>1, <2>4, <2>5, <2>6 DEF Answerable
<1> QED BY <1>4, <1>6, <1>7, KeylessTied DEF Agreed

(* The counters used so far are kept, as is the ANonce.                    *)
LEMMA KeepsSame ==
  ASSUME NEW m, NEW n, NEW r, n.ANonce = m.ANonce, m.ctr \in Nat, n.ctr \in Nat, m.ctr <= n.ctr,
         "ReAuthentication" \notin n.requests => "ReAuthentication" \notin m.requests
  PROVE  Keeps(m, n, r)
BY DEF Keeps, Used

(* Nothing changes that the frames depend on; nor does what is known of    *)
(* the last frame.                                                         *)
SameSecrets(m, n) ==
  /\ n.ANonce = m.ANonce /\ n.PTK = m.PTK /\ n.PTK_valid = m.PTK_valid /\ n.key = m.key
  /\ n.alt_SNonce = m.alt_SNonce /\ n.alt_rc = m.alt_rc /\ n.prev = m.prev
Memory(m, n) == SameSecrets(m, n) /\ n.SNonce = m.SNonce /\ n.last_mic = m.last_mic
(* The record n uses no more keys, and asks for no more, than m.           *)
Alike(m, n) ==
  /\ SameSecrets(m, n) /\ n.ctr = m.ctr /\ n.valid = m.valid
  /\ "ReAuthentication" \notin n.requests => "ReAuthentication" \notin m.requests
  /\ Armed(n) => Armed(m) /\ (n.update_snonce = m.update_snonce \/ m.update_snonce = TRUE)
  /\ Candidate(n) => Candidate(m) /\ Memory(m, n)
  /\ Accepted(n) => Accepted(m)
  /\ n.ptk \in Negotiating \cup {"PTKINITDONE"} => m.ptk \in Negotiating \cup {"PTKINITDONE"}
  /\ n.ptk = "PTKINITDONE" => m.ptk = "PTKINITDONE"

(* Such a step keeps the agreement.                                        *)
LEMMA AlikeAgreed ==
  ASSUME NEW m, NEW p, NEW D, NEW U, NEW r, Agreed(m, p, D, U, r), m.ctr \in Nat,
         NEW n, Alike(m, n), ApKeys(n, r), ToDerive(n, r)
  PROVE  Agreed(n, p, D, U, r)
<1>1. Recent(n, p, D, U)
  <2>1. Keeps(m, n, r)  BY KeepsSame DEF Alike, Memory, SameSecrets
  <2> QED BY <2>1, RecentKept DEF Agreed
<1>2. \A k : Uses(k, n) => Uses(k, m)
  BY DEF Uses, IsNew, HasAlt, AltKey, Alike, Memory, SameSecrets
<1>3. Pending(n, p, D)  BY <1>2 DEF Agreed, Tied, Pending, Alike, Memory, SameSecrets
<1>4. Answerable(n, p, D, U)  BY DEF Agreed, Tied, Answerable, Alike, Memory, SameSecrets
<1>6. Renewable(n, p, D, U)
  <2> SUFFICES ASSUME Armed(n) \/ Candidate(n), NEW f \in D \cup U, Second(f), An(f) = n.ANonce,
                      f.rc \in n.prev
               PROVE  Ahead(f.rc, n.ANonce, p, D,
                            IF Armed(n) /\ n.update_snonce = FALSE THEN n.PTK ELSE NoKey)
    BY DEF Renewable
  <2>1. Ahead(f.rc, n.ANonce, p, D,
              IF Armed(m) /\ m.update_snonce = FALSE THEN m.PTK ELSE NoKey)
    BY DEF Agreed, Tied, Renewable, Alike, Memory, SameSecrets
  <2>2. CASE Armed(n)
    <3>1. \A c, a, k : Ahead(c, a, p, D, NoKey) => Ahead(c, a, p, D, k)
      BY KeyNotEmpty DEF Ahead, Agreed, Links, Typed, DownTyped
    <3>2. Armed(m) /\ n.PTK = m.PTK /\ (n.update_snonce = m.update_snonce \/ m.update_snonce = TRUE)
      BY <2>2 DEF Alike, SameSecrets
    <3> QED BY <2>1, <2>2, <3>1, <3>2
  <2>3. CASE ~Armed(n) /\ ~(Armed(m) /\ m.update_snonce = FALSE)  BY <2>1, <2>3
  <2>4. CASE ~Armed(n) /\ Armed(m) /\ m.update_snonce = FALSE
    BY <2>4 DEF Alike, Candidate, Armed, Negotiating
  <2> QED BY <2>2, <2>3, <2>4
<1>7. Confirming(n, p, D, U)
  BY DEF Agreed, Tied, Confirming, Alike, Memory, SameSecrets, HasAlt, AltKey
<1>8. Confirmed(n, p, D)  BY DEF Agreed, Tied, Confirmed, Alike, Memory, SameSecrets
<1> QED BY <1>1, <1>3, <1>4, <1>6, <1>7, <1>8 DEF Agreed, Tied

(* PTKCALCNEGOTIATING: the key explains the MIC.                           *)
Derived(m, n) ==
  /\ n.ANonce = m.ANonce /\ n.alt_SNonce = m.alt_SNonce /\ n.alt_rc = m.alt_rc
  /\ n.prev = m.prev /\ n.ctr = m.ctr /\ n.valid = {} /\ n.requests = m.requests
  /\ n.PTK = m.last_mic /\ m.last_mic = Ptk(PSK, m.ANonce, m.SNonce)
  /\ Candidate(m) /\ ~Candidate(n) /\ ~Accepted(n)
  /\ Armed(m) => m.update_snonce = TRUE
  /\ HasAlt(m) => Armed(m)

(* Deriving the PTK from the SNonce keeps the agreement.                   *)
LEMMA DerivedAgreed ==
  ASSUME NEW m, NEW p, NEW D, NEW U, NEW r, Agreed(m, p, D, U, r), m.ctr \in Nat,
         NEW n, Derived(m, n), ApKeys(n, r)
  PROVE  Agreed(n, p, D, U, r)
<1>1. Recent(n, p, D, U)
  <2>1. Keeps(m, n, r)  BY KeepsSame DEF Derived
  <2> QED BY <2>1, RecentKept DEF Agreed
<1>2. \A k : Uses(k, n) => Uses(k, m)
  BY DEF Uses, IsNew, HasAlt, AltKey, Derived
<1>3. Pending(n, p, D)  BY <1>2 DEF Agreed, Tied, Pending, Derived
<1>4. Answerable(n, p, D, U)  BY DEF Answerable, Derived
<1>5. \A c, a : Ahead(c, a, p, D, NoKey) => \A k : Ahead(c, a, p, D, k)
  <2>1. \A g \in D : g.msg # "1/4" => g.mic # NoKey
    BY KeyNotEmpty DEF Agreed, Links, Typed, DownTyped
  <2> QED BY <2>1 DEF Ahead
<1>6. Renewable(n, p, D, U)
  <2> SUFFICES ASSUME NEW f \in D \cup U, Second(f), An(f) = n.ANonce, f.rc \in n.prev
               PROVE  \A k : Ahead(f.rc, n.ANonce, p, D, k)
    BY DEF Renewable
  <2> QED BY <1>5 DEF Agreed, Tied, Renewable, Derived
<1>7. Confirming(n, p, D, U)
  BY DEF Agreed, Tied, Confirming, Derived, HasAlt, AltKey
<1>8. Confirmed(n, p, D) /\ ToDerive(n, r)  BY DEF Confirmed, ToDerive, Derived
<1> QED BY <1>1, <1>3, <1>4, <1>6, <1>7, <1>8 DEF Agreed, Tied

(* PTKINITNEGOTIATING: message 3/4, g, is sent.                            *)
Initiated(m, n) ==
  /\ n.ANonce = m.ANonce /\ n.alt_SNonce = m.alt_SNonce /\ n.alt_rc = m.alt_rc
  /\ n.prev = m.prev /\ n.PTK = m.PTK /\ n.requests = m.requests
  /\ n.ctr = m.ctr + 1 /\ n.valid \subseteq m.valid \cup {m.ctr + 1}
  /\ m.ptk \in Negotiating /\ Armed(m) /\ Armed(n) /\ ~Candidate(n) /\ ~Accepted(n)
  /\ m.update_snonce = FALSE /\ n.update_snonce = FALSE

(* Sending message 3/4 keeps the agreement.                                *)
LEMMA InitiatedAgreed ==
  ASSUME NEW m, NEW p, NEW D, NEW U, NEW r \in Nat, Agreed(m, p, D, U, r),
         m.ctr \in Nat, m.valid \subseteq Nat, "ReAuthentication" \notin m.requests,
         NEW n, Initiated(m, n), ApKeys(n, r),
         NEW g, g.msg = "3/4", g.mic = m.PTK, g.rc = m.ctr + 1
  PROVE  Agreed(n, p, D \cup {g}, U, r)
<1>1. /\ IsKey(m.PTK, r) /\ m.PTK[2] = m.ANonce /\ An(g) = m.ANonce
      /\ m.ANonce \in Nat /\ 0 < m.ANonce /\ m.ANonce < r
  BY DEF An, Initiated, Armed, Negotiating, Agreed, Tied, ApKeys, IsKey
<1>2. Newest(g, p, D, U)  BY <1>1, NextNewest DEF Agreed
<1>3. DownTyped(g, r)  BY <1>1 DEF DownTyped
<1>4. Uses(m.PTK, m)  BY DEF Uses, Initiated
<1>5. Links(p, D \cup {g}, U, r)
  <2>1. /\ p.ptk = g.mic => p.tptk = NoKey
        /\ \A h \in D : h.msg = "1/4" /\ An(h) = An(g) =>
             /\ p.ptk # g.mic
             /\ \A e \in D : e.msg = "3/4" /\ e.mic = g.mic => ~Before(e, h)
    BY <1>1, <1>4 DEF Agreed, Tied, Pending
  <2> QED BY <1>2, <1>3, <2>1, LinksMore DEF Agreed
<1>6. Recent(n, p, D \cup {g}, U)
  <2>1. Keeps(m, n, r)  BY KeepsSame DEF Initiated
  <2>2. Recent(n, p, D, U)  BY <2>1, RecentKept DEF Agreed
  <2>3. Used(An(g), g.rc, n)  BY <1>1 DEF Used, Initiated
  <2> QED BY <2>2, <2>3 DEF Recent
<1>7. \A f \in D \cup U : An(f) = m.ANonce => f.rc \in Nat /\ f.rc <= m.ctr
  <2>1. \A f \in D \cup U : Used(An(f), f.rc, m) /\ f.rc \in Nat
    BY DEF Agreed, Recent, Links, Typed, DownTyped, UpTyped
  <2> QED BY <2>1 DEF Used
<1>8. \A k : Uses(k, n) => Uses(k, m)
  BY DEF Uses, IsNew, HasAlt, AltKey, Initiated
<1>9. Pending(n, p, D \cup {g})
  <2>1. \A h \in D : ~Before(g, h)
    BY <1>2, <1>3 DEF Newest, Before, Past, Agreed, Links, Typed, DownTyped
  <2> QED BY <1>8, <2>1 DEF Agreed, Tied, Pending, Initiated
<1>10. \A f \in D \cup U : Second(f) /\ An(f) = m.ANonce => f.rc \notin n.valid
  <2>1. \A f \in D \cup U : Second(f) /\ An(f) = m.ANonce => f.rc \notin m.valid
    BY DEF Agreed, Tied, Answerable, Initiated
  <2> QED BY <1>7, <2>1 DEF Initiated
<1>11. ~Second(g)  BY DEF Second
<1>12. Answerable(n, p, D \cup {g}, U)  BY <1>10, <1>11 DEF Answerable, Initiated
<1>13. \A c, a : Ahead(c, a, p, D, m.PTK) => Ahead(c, a, p, D \cup {g}, m.PTK)
  BY DEF Ahead
<1>14. Renewable(n, p, D \cup {g}, U)
  BY <1>11, <1>13 DEF Agreed, Tied, Renewable, Initiated
<1>15. \A k : Held(k, p, D) => Held(k, p, D \cup {g})  BY DEF Held
<1>16. Confirming(n, p, D \cup {g}, U)
  <2> SUFFICES ASSUME NEW f \in D \cup {g} \cup U, f.msg \in {"3/4", "4/4"}, An(f) = m.ANonce
               PROVE  /\ f.rc \in n.valid =>
                           f.mic = m.PTK /\ (f.msg = "4/4" => Held(f.mic, p, D \cup {g}))
                      /\ HasAlt(m) /\ f.rc = m.alt_rc =>
                           f.mic = AltKey(m) /\ (f.msg = "4/4" => Held(f.mic, p, D \cup {g}))
    BY DEF Confirming, Initiated, HasAlt, AltKey
  <2>1. CASE f \in D \cup U
    <3>1. f.rc \in n.valid => f.rc \in m.valid  BY <1>7, <2>1 DEF Initiated
    <3> QED BY <1>15, <2>1, <3>1 DEF Agreed, Tied, Confirming, Initiated
  <2>2. CASE f = g
    <3>1. HasAlt(m) => m.alt_rc \in Nat /\ m.alt_rc <= m.ctr
      BY DEF Agreed, Tied, ApKeys, Initiated
    <3> QED BY <2>2, <3>1
  <2> QED BY <2>1, <2>2
<1>17. Confirmed(n, p, D \cup {g}) /\ ToDerive(n, r)  BY DEF Confirmed, ToDerive, Initiated
<1> QED BY <1>5, <1>6, <1>9, <1>12, <1>14, <1>16, <1>17 DEF Agreed, Tied

(* Message 4/4 was accepted: PTKINITDONE, or an answer of the group key    *)
(* handshake.                                                              *)
Done(m, n) ==
  /\ n.ANonce = m.ANonce /\ n.ctr = m.ctr /\ n.valid = {} /\ n.requests = m.requests
  /\ n.ptk = "PTKINITDONE" /\ ~Candidate(n)
  /\ n.PTK = m.PTK /\ n.key = n.PTK /\ Accepted(m)

(* Installing the key after message 4/4 keeps the agreement.               *)
LEMMA DoneAgreed ==
  ASSUME NEW m, NEW p, NEW D, NEW U, NEW r, Agreed(m, p, D, U, r), m.ctr \in Nat,
         NEW n, Done(m, n), ApKeys(n, r)
  PROVE  Agreed(n, p, D, U, r)
<1>1. Recent(n, p, D, U)
  <2>1. Keeps(m, n, r)  BY KeepsSame DEF Done
  <2> QED BY <2>1, RecentKept DEF Agreed
<1>2. ~Armed(n)  BY DEF Armed, Negotiating, Done
<1>3. \A k : ~Uses(k, n)  BY <1>2 DEF Uses, IsNew, Done
<1>4. Pending(n, p, D) /\ Answerable(n, p, D, U) /\ Renewable(n, p, D, U)
      /\ Confirming(n, p, D, U) /\ ToDerive(n, r)
  BY <1>2, <1>3 DEF Pending, Answerable, Renewable, Confirming, ToDerive, Done
<1>5. Confirmed(n, p, D)  BY DEF Agreed, Tied, Confirmed, Done
<1> QED BY <1>1, <1>4, <1>5 DEF Agreed, Tied

(* REKEYNEGOTIATING: a counter is used, and with a valid key message 1/2,  *)
(* g, is sent.                                                             *)
CountsOn(m, n) ==
  /\ Memory(m, n) /\ n.ptk = m.ptk /\ n.requests = m.requests
  /\ n.ctr = m.ctr + 1 /\ n.valid \subseteq m.valid \cup {m.ctr + 1}
  /\ ~Armed(n) /\ ~Candidate(n)

(* No frame of the current ANonce is newer than the counter.               *)
LEMMA NoneOpen ==
  ASSUME NEW m, NEW p, NEW D, NEW U, NEW r, Agreed(m, p, D, U, r), m.ctr \in Nat,
         m.valid \subseteq Nat, "ReAuthentication" \notin m.requests,
         NEW f \in D \cup U, An(f) = m.ANonce
  PROVE  f.rc \in Nat /\ f.rc <= m.ctr
<1>1. Used(An(f), f.rc, m) /\ f.rc \in Nat
  BY DEF Agreed, Recent, Links, Typed, DownTyped, UpTyped
<1> QED BY <1>1 DEF Used

(* Without a key only the counter is used.                                 *)
LEMMA UnsentAgreed ==
  ASSUME NEW m, NEW p, NEW D, NEW U, NEW r \in Nat, Agreed(m, p, D, U, r),
         m.ctr \in Nat, m.valid \subseteq Nat, m.PTK_valid = FALSE,
         NEW n, CountsOn(m, n), ApKeys(n, r)
  PROVE  Agreed(n, p, D, U, r)
<1>1. Recent(n, p, D, U)
  <2>1. Keeps(m, n, r)  BY KeepsSame DEF CountsOn, Memory, SameSecrets
  <2> QED BY <2>1, RecentKept DEF Agreed
<1>2. Answerable(n, p, D, U)
  BY NoneOpen DEF Agreed, Tied, Answerable, CountsOn, Memory, SameSecrets
<1>3. Keyless(n)  BY DEF Keyless, Accepted, CountsOn, Memory, SameSecrets
<1> QED BY <1>1, <1>2, <1>3, KeylessTied DEF Agreed

(* Sending message 1/2 keeps the agreement.                                *)
LEMMA GroupSentAgreed ==
  ASSUME NEW m, NEW p, NEW D, NEW U, NEW r \in Nat, Agreed(m, p, D, U, r),
         m.ctr \in Nat, m.valid \subseteq Nat, "ReAuthentication" \notin m.requests,
         m.PTK_valid = TRUE, m.ptk = "PTKINITDONE",
         NEW n, CountsOn(m, n), ApKeys(n, r),
         NEW g, g.msg = "1/2", g.mic = m.PTK, g.rc = m.ctr + 1
  PROVE  Agreed(n, p, D \cup {g}, U, r)
<1>1. /\ IsKey(m.PTK, r) /\ m.PTK[2] = m.ANonce /\ An(g) = m.ANonce
      /\ m.ANonce \in Nat /\ 0 < m.ANonce /\ m.ANonce < r
  BY DEF An, Agreed, Tied, ApKeys, IsKey
<1>2. Newest(g, p, D, U)  BY <1>1, NextNewest DEF Agreed
<1>3. DownTyped(g, r)  BY <1>1 DEF DownTyped
<1>4. Accepted(m)  BY DEF Accepted
<1>5. Spent(m.PTK, p) /\ Held(m.PTK, p, D) /\ m.key = m.PTK
  BY <1>4 DEF Agreed, Tied, Confirmed
<1>6. Links(p, D \cup {g}, U, r)  BY <1>2, <1>3, <1>5, LinksMore DEF Agreed
<1>7. Recent(n, p, D \cup {g}, U)
  <2>1. Keeps(m, n, r)  BY KeepsSame DEF CountsOn, Memory, SameSecrets
  <2>2. Recent(n, p, D, U)  BY <2>1, RecentKept DEF Agreed
  <2>3. Used(An(g), g.rc, n)  BY <1>1 DEF Used, CountsOn, Memory, SameSecrets
  <2> QED BY <2>2, <2>3 DEF Recent
<1>8. Answerable(n, p, D \cup {g}, U)
  <2>1. \A f \in D \cup U : Second(f) /\ An(f) = m.ANonce => f.rc \notin m.valid
    BY DEF Agreed, Tied, Answerable
  <2>2. \A f \in D \cup U : Second(f) /\ An(f) = m.ANonce => f.rc \notin n.valid
    BY <2>1, NoneOpen DEF CountsOn
  <2>3. ~Second(g)  BY DEF Second
  <2> QED BY <2>2, <2>3 DEF Answerable, CountsOn, Memory, SameSecrets
<1>9. \A k : ~Uses(k, n)  BY DEF Uses, IsNew, CountsOn
<1>10. Confirmed(n, p, D \cup {g})
  <2>1. Held(m.PTK, p, D \cup {g})  BY <1>5 DEF Held
  <2> QED BY <1>5, <2>1 DEF Confirmed, CountsOn, Memory, SameSecrets
<1>11. Tied(n, p, D \cup {g}, U, r)
  BY <1>8, <1>9, <1>10 DEF Tied, Pending, Renewable, Confirming, ToDerive, CountsOn
<1> QED BY <1>6, <1>7, <1>11 DEF Agreed

-----------------------------------------------------------------------------
(* Frames that the authenticator accepts.                                  *)

(* Message 2/4, f, answers message 1/4.                                    *)
Answered(m, f, n) ==
  /\ n.ANonce = m.ANonce /\ n.ctr = m.ctr /\ n.valid = {} /\ n.requests = m.requests
  /\ n.ptk = "PTKSTART" /\ m.ptk = "PTKSTART"
  /\ n.SNonce = f.nonce /\ n.last_mic = f.mic /\ n.prev \subseteq m.valid
  /\ n.MICVerified = TRUE => n.PTK_valid = TRUE /\ f.mic = n.PTK
  /\ n.PTK_valid = TRUE => n.MICVerified = TRUE

(* Accepting a 2/4 keeps the agreement.                                    *)
LEMMA AnsweredAgreed ==
  ASSUME NEW m, NEW p, NEW D, NEW U, NEW r \in Nat, Agreed(m, p, D, U, r), m.ctr \in Nat,
         m.ANonce \in Nat, "ReAuthentication" \notin m.requests,
         NEW f \in U, f.msg = "2/4", f.rc \in m.valid, NEW n, Answered(m, f, n), ApKeys(n, r)
  PROVE  Agreed(n, p, D, U, r)
<1>1. Recent(n, p, D, U)
  <2>1. Keeps(m, n, r)  BY KeepsSame DEF Answered
  <2> QED BY <2>1, RecentKept DEF Agreed
<1>2. ~Armed(n) /\ ~Accepted(n)  BY DEF Armed, Negotiating, Accepted, Answered
<1>3. f.rc \in Nat /\ IsKey(f.mic, r) /\ f.mic[3] = f.nonce /\ An(f) = f.mic[2] /\ Second(f)
  BY DEF Agreed, Links, Typed, UpTyped, An, Second
<1>4. Pending(n, p, D)
  <2> SUFFICES ASSUME NEW k, Uses(k, n)
               PROVE  /\ p.ptk # k
                      /\ \A g \in D : g.msg = "3/4" => g.mic # k
    BY DEF Pending
  <2>1. k = f.mic /\ An(f) = m.ANonce
    BY <1>2, <1>3 DEF Uses, IsNew, Ptk, Answered
  <2>2. Ahead(f.rc, m.ANonce, p, D, NoKey)  BY <1>3, <2>1 DEF Agreed, Tied, Answerable
  <2>3. p.ptk # k
    <3> SUFFICES ASSUME p.ptk = k PROVE FALSE  OBVIOUS
    <3>1. k # NoKey  BY <1>3, <2>1, KeyNotEmpty
    <3>2. f.rc <= p.rx_replay_counter  BY <2>1, <3>1 DEF Agreed, Links, KeyAnswered
    <3>3. p.rx_replay_counter < f.rc  BY <1>3, <2>1, <2>2, <3>1 DEF Ahead
    <3>4. p.rx_replay_counter \in Nat  BY DEF Agreed, Links, SuppKeys
    <3> QED BY <1>3, <3>2, <3>3, <3>4
  <2>4. ASSUME NEW g \in D, g.msg = "3/4", g.mic = k PROVE FALSE
    <3>1. Before(f, g) /\ g.rc \in Nat
      BY <2>4 DEF Agreed, Links, SecondsFirst, Typed, DownTyped
    <3>2. An(g) = An(f) /\ g.mic # NoKey  BY <1>3, <2>1, <2>4, KeyNotEmpty DEF An
    <3>3. g.rc < f.rc  BY <2>1, <2>2, <2>4, <3>2 DEF Ahead
    <3> QED BY <1>3, <2>1, <3>1, <3>2, <3>3 DEF Before, Past
  <2> QED BY <2>3, <2>4
<1>5. Answerable(n, p, D, U)  BY DEF Answerable, Answered
<1>6. Renewable(n, p, D, U)
  BY <1>2 DEF Agreed, Tied, Answerable, Renewable, Answered
<1>7. Confirming(n, p, D, U) /\ Confirmed(n, p, D)  BY <1>2 DEF Confirming, Confirmed
<1>8. ToDerive(n, r)  BY <1>3 DEF ToDerive, Answered
<1> QED BY <1>1, <1>4, <1>5, <1>6, <1>7, <1>8 DEF Agreed, Tied

(* Message 2/4, f, with another SNonce while message 3/4 is on its way.    *)
Updated(m, f, n) ==
  /\ n.ANonce = m.ANonce /\ n.ctr = m.ctr /\ n.valid = {} /\ n.requests = m.requests
  /\ n.ptk = "PTKINITNEGOTIATING" /\ m.ptk = "PTKINITNEGOTIATING" /\ Armed(m)
  /\ m.rx # "pairwise" /\ m.update_snonce = FALSE /\ n.update_snonce = TRUE
  /\ n.PTK = m.PTK /\ n.PTK_valid = m.PTK_valid
  /\ m.SNonce # f.nonce /\ n.SNonce = f.nonce /\ n.last_mic = f.mic /\ n.MICVerified = FALSE
  /\ n.prev \subseteq m.valid /\ n.alt_SNonce = m.SNonce /\ n.alt_rc = m.ctr

(* So does a 2/4 with another SNonce (the SNonce workaround).              *)
LEMMA UpdatedAgreed ==
  ASSUME NEW m, NEW p, NEW D, NEW U, NEW r \in Nat, Agreed(m, p, D, U, r), m.ctr \in Nat,
         m.ANonce \in Nat, "ReAuthentication" \notin m.requests,
         NEW f \in U, f.msg = "2/4", f.rc \in m.prev, NEW n, Updated(m, f, n), ApKeys(n, r)
  PROVE  Agreed(n, p, D, U, r)
<1>1. Recent(n, p, D, U)
  <2>1. Keeps(m, n, r)  BY KeepsSame DEF Updated
  <2> QED BY <2>1, RecentKept DEF Agreed
<1>2. f.rc \in Nat /\ IsKey(f.mic, r) /\ f.mic[3] = f.nonce /\ An(f) = f.mic[2] /\ Second(f)
  BY DEF Agreed, Links, Typed, UpTyped, An, Second
<1>3. /\ IsKey(m.PTK, r) /\ m.PTK[1] = PSK /\ m.PTK[2] = m.ANonce
      /\ m.SNonce \in {m.PTK[3], NoNonce} /\ m.ctr \in m.valid /\ ~Accepted(n)
  BY DEF Agreed, Tied, ApKeys, Updated, Armed, Negotiating, Accepted
<1>4. HasAlt(n) => AltKey(n) = m.PTK  BY <1>3 DEF HasAlt, AltKey, Ptk, Updated, IsKey
<1>5. Pending(n, p, D)
  <2>1. ASSUME NEW k, Uses(k, n), k = m.PTK
        PROVE  /\ p.ptk = k => p.tptk = NoKey
               /\ \A h \in D : h.msg = "1/4" /\ An(h) = n.ANonce =>
                    /\ p.ptk # k
                    /\ \A g \in D : g.msg = "3/4" /\ g.mic = k => ~Before(g, h)
    BY <2>1 DEF Uses, Agreed, Tied, Pending, Updated
  <2>2. ASSUME NEW k, Uses(k, n), k # m.PTK
        PROVE  /\ p.ptk # k
               /\ \A g \in D : g.msg = "3/4" => g.mic # k
    <3>1. k = f.mic /\ An(f) = m.ANonce
      BY <1>2, <1>4, <2>2 DEF Uses, IsNew, Ptk, Updated
    <3>2. Ahead(f.rc, m.ANonce, p, D, m.PTK)
      BY <1>2, <3>1 DEF Agreed, Tied, Renewable, Updated
    <3>3. p.ptk # k
      <4> SUFFICES ASSUME p.ptk = k PROVE FALSE  OBVIOUS
      <4>1. k # NoKey  BY <1>2, <3>1, KeyNotEmpty
      <4>2. f.rc <= p.rx_replay_counter  BY <3>1, <4>1 DEF Agreed, Links, KeyAnswered
      <4>3. p.rx_replay_counter < f.rc  BY <1>2, <2>2, <3>1, <3>2, <4>1 DEF Ahead
      <4>4. p.rx_replay_counter \in Nat  BY DEF Agreed, Links, SuppKeys
      <4> QED BY <1>2, <4>2, <4>3, <4>4
    <3>4. ASSUME NEW g \in D, g.msg = "3/4", g.mic = k PROVE FALSE
      <4>1. Before(f, g) /\ g.rc \in Nat
        BY <3>4 DEF Agreed, Links, SecondsFirst, Typed, DownTyped
      <4>2. An(g) = An(f)  BY <1>2, <3>1, <3>4 DEF An
      <4>3. g.rc < f.rc  BY <2>2, <3>1, <3>2, <3>4, <4>2 DEF Ahead
      <4> QED BY <1>2, <3>1, <4>1, <4>2, <4>3 DEF Before, Past
    <3> QED BY <3>3, <3>4
  <2> QED BY <2>1, <2>2 DEF Pending
<1>6. Answerable(n, p, D, U)  BY DEF Answerable, Updated
<1>7. Renewable(n, p, D, U)
  <2>1. \A g \in D \cup U : Second(g) /\ An(g) = m.ANonce => g.rc \notin m.valid
    BY DEF Agreed, Tied, Answerable, Updated, Negotiating
  <2> QED BY <2>1 DEF Renewable, Updated
<1>8. Confirming(n, p, D, U)
  BY <1>3, <1>4 DEF Agreed, Tied, Confirming, Updated
<1>9. Confirmed(n, p, D) /\ ToDerive(n, r)  BY <1>2, <1>3 DEF Confirmed, ToDerive, Updated
<1> QED BY <1>1, <1>5, <1>6, <1>7, <1>8, <1>9 DEF Agreed, Tied

(* Message 4/4, f, perhaps of the earlier SNonce.                          *)
Finished(m, f, n) ==
  /\ n.ANonce = m.ANonce /\ n.ctr = m.ctr /\ n.valid = {} /\ n.prev = {}
  /\ n.requests = m.requests /\ n.ptk = "PTKINITNEGOTIATING" /\ Armed(m)
  /\ ~Candidate(n) /\ n.PTK = f.mic /\ n.alt_rc = m.alt_rc
  /\ \/ n.PTK = m.PTK /\ n.alt_SNonce = m.alt_SNonce
     \/ HasAlt(m) /\ n.PTK = AltKey(m) /\ n.alt_SNonce = NoNonce
  /\ f.rc \in m.valid \/ (HasAlt(m) /\ f.rc = m.alt_rc)

(* So does accepting a 4/4.                                                *)
LEMMA FinishedAgreed ==
  ASSUME NEW m, NEW p, NEW D, NEW U, NEW r \in Nat, Agreed(m, p, D, U, r), m.ctr \in Nat,
         NEW f \in U, f.msg = "4/4", NEW n, Finished(m, f, n), ApKeys(n, r)
  PROVE  Agreed(n, p, D, U, r)
<1>1. Recent(n, p, D, U)
  <2>1. Keeps(m, n, r)  BY KeepsSame DEF Finished
  <2> QED BY <2>1, RecentKept DEF Agreed
<1>2. Uses(f.mic, m)  BY DEF Uses, Finished
<1>3. \A k : Uses(k, n) => Uses(k, m)
  BY DEF Uses, IsNew, HasAlt, AltKey, Finished
<1>4. An(f) = m.ANonce
  BY <1>2, UsesKey DEF Agreed, Tied, An
<1>5. Held(f.mic, p, D) /\ Spent(f.mic, p)
  BY <1>4 DEF Agreed, Tied, Confirming, Links, SpentKeys, Finished
<1>6. Pending(n, p, D)  BY <1>3 DEF Agreed, Tied, Pending, Finished
<1>7. Answerable(n, p, D, U) /\ Renewable(n, p, D, U) /\ ToDerive(n, r)
  BY DEF Answerable, Renewable, ToDerive, Finished
<1>8. Confirming(n, p, D, U)
  BY DEF Agreed, Tied, Confirming, Finished, HasAlt, AltKey
<1>9. Confirmed(n, p, D)  BY <1>5 DEF Confirmed, Finished
<1> QED BY <1>1, <1>6, <1>7, <1>8, <1>9 DEF Agreed, Tied

-----------------------------------------------------------------------------
(* Queues of frames.                                                       *)

(* The order depends on the cores of the frames only.                      *)
LEMMA CoreOrder ==
  ASSUME NEW f, NEW g
  PROVE  /\ An(Core(f)) = An(f) /\ Core(f).msg = f.msg /\ Core(f).rc = f.rc
         /\ Core(f).mic = f.mic /\ Core(f).nonce = f.nonce
         /\ Before(Core(f), Core(g)) <=> Before(f, g)
<1>1. An(Core(f)) = An(f) /\ An(Core(g)) = An(g) /\ Core(f).rc = f.rc /\ Core(g).rc = g.rc
      /\ Core(f).msg = f.msg /\ Core(f).mic = f.mic /\ Core(f).nonce = f.nonce
  BY DEF An, Core
<1> QED BY <1>1 DEF Before, Past

(* A frame is put at the end.                                              *)
LEMMA AppendFrames ==
  ASSUME NEW S, NEW q \in Seq(S), NEW f
  PROVE  /\ f.msg = "deauth" => Downward(Append(q, f)) = Downward(q)
         /\ f.msg # "deauth" => Downward(Append(q, f)) = Downward(q) \cup {Core(f)}
         /\ InOrder(q) /\ (f.msg # "deauth" => \A g \in Downward(q) : Before(g, Core(f)))
              => InOrder(Append(q, f))
<1>1. PICK a : a = Append(q, f)  OBVIOUS
<1>2. /\ Len(q) \in Nat /\ DOMAIN q = 1 .. Len(q) /\ DOMAIN a = 1 .. Len(q) + 1
      /\ \A i \in 1 .. Len(q) : a[i] = q[i]
      /\ a[Len(q) + 1] = f
  BY <1>1
<1>3. Elements(a) = Elements(q) \cup {f}
  <2>1. Elements(a) \subseteq Elements(q) \cup {f}
    <3> SUFFICES ASSUME NEW i \in DOMAIN a PROVE a[i] \in Elements(q) \cup {f}
      BY DEF Elements
    <3>1. i \in 1 .. Len(q) \/ i = Len(q) + 1  BY <1>2
    <3> QED BY <1>2, <3>1 DEF Elements
  <2>2. Elements(q) \cup {f} \subseteq Elements(a)
    <3>1. Len(q) + 1 \in DOMAIN a /\ \A i \in DOMAIN q : i \in DOMAIN a /\ a[i] = q[i]
      BY <1>2
    <3> QED BY <1>2, <3>1 DEF Elements
  <2> QED BY <2>1, <2>2
<1>4. f.msg = "deauth" => Downward(a) = Downward(q)  BY <1>3 DEF Downward
<1>5. f.msg # "deauth" => Downward(a) = Downward(q) \cup {Core(f)}  BY <1>3 DEF Downward
<1>6. ASSUME InOrder(q), f.msg # "deauth" => \A g \in Downward(q) : Before(g, Core(f))
      PROVE  InOrder(a)
  <2> SUFFICES ASSUME NEW i \in DOMAIN a, NEW j \in DOMAIN a, i < j,
                      a[i].msg # "deauth", a[j].msg # "deauth"
               PROVE  Before(a[i], a[j])
    BY DEF InOrder
  <2>1. i \in 1 .. Len(q) /\ a[i] = q[i] /\ (j \in 1 .. Len(q) \/ j = Len(q) + 1)  BY <1>2
  <2>2. CASE j \in 1 .. Len(q)
    <3>1. a[j] = q[j]  BY <1>2, <2>2
    <3> QED BY <1>2, <1>6, <2>1, <2>2, <3>1 DEF InOrder
  <2>3. CASE j = Len(q) + 1
    <3>1. a[j] = f  BY <1>2, <2>3
    <3>2. Core(q[i]) \in Downward(q)  BY <1>2, <2>1 DEF Downward, Elements
    <3> QED BY <1>6, <2>1, <3>1, <3>2, CoreOrder
  <2> QED BY <2>1, <2>2, <2>3
<1> QED BY <1>1, <1>4, <1>5, <1>6

(* The first frames of a queue.                                            *)
LEMMA PrefixFrames ==
  ASSUME NEW S, NEW a \in Seq(S), NEW n \in 0 .. Len(a), NEW b, b = SubSeq(a, 1, n)
  PROVE  /\ Elements(b) \subseteq Elements(a) /\ Downward(b) \subseteq Downward(a)
         /\ Upward(b) \subseteq Upward(a) /\ (InOrder(a) => InOrder(b))
<1>1. /\ Len(a) \in Nat /\ DOMAIN a = 1 .. Len(a) /\ DOMAIN b = 1 .. n
      /\ \A i \in 1 .. n : b[i] = a[i] /\ i \in DOMAIN a
  OBVIOUS
<1>2. Elements(b) \subseteq Elements(a)  BY <1>1 DEF Elements
<1>3. Downward(b) \subseteq Downward(a) /\ Upward(b) \subseteq Upward(a)
  BY <1>2 DEF Downward, Upward
<1>4. InOrder(a) => InOrder(b)  BY <1>1 DEF InOrder
<1> QED BY <1>2, <1>3, <1>4

(* What a link holds when frames are sent.                                 *)
LEMMA PutFrames ==
  ASSUME NEW S, NEW q \in Seq(S), NEW o \in Seq(S)
  PROVE  /\ Downward(Put(q, o)) \subseteq Downward(q \o o)
         /\ Upward(Put(q, o)) \subseteq Upward(q \o o)
         /\ InOrder(q \o o) => InOrder(Put(q, o))
<1>1. PICK a : a = q \o o  OBVIOUS
<1>2. a \in Seq(S) /\ Len(a) \in Nat  BY <1>1
<1>3. PICK n : n = IF Len(a) < CAP THEN Len(a) ELSE CAP  OBVIOUS
<1>4. n \in 0 .. Len(a)  BY <1>2, <1>3, HandshakeAssumption
<1>5. Put(q, o) = SubSeq(a, 1, n)  BY <1>1, <1>3 DEF Put
<1> QED BY <1>1, <1>2, <1>4, <1>5, PrefixFrames

(* The frames from the supplicant in a longer queue.                       *)
LEMMA ConcatUpward ==
  ASSUME NEW S, NEW q \in Seq(S), NEW o \in Seq(S)
  PROVE  Upward(q \o o) \subseteq Upward(q) \cup Upward(o)
<1>1. PICK a : a = q \o o  OBVIOUS
<1>2. /\ Len(q) \in Nat /\ Len(o) \in Nat /\ DOMAIN q = 1 .. Len(q) /\ DOMAIN o = 1 .. Len(o)
      /\ DOMAIN a = 1 .. Len(q) + Len(o)
      /\ \A i \in 1 .. Len(q) + Len(o) : a[i] = IF i <= Len(q) THEN q[i] ELSE o[i - Len(q)]
  BY <1>1
<1>3. \A i \in DOMAIN a : a[i] \in Elements(q) \cup Elements(o)
  <2> SUFFICES ASSUME NEW i \in DOMAIN a PROVE a[i] \in Elements(q) \cup Elements(o)
    OBVIOUS
  <2>1. CASE i <= Len(q)
    <3>1. i \in DOMAIN q /\ a[i] = q[i]  BY <1>2, <2>1
    <3> QED BY <3>1 DEF Elements
  <2>2. CASE ~(i <= Len(q))
    <3>1. i - Len(q) \in DOMAIN o /\ a[i] = o[i - Len(q)]  BY <1>2, <2>2
    <3> QED BY <3>1 DEF Elements
  <2> QED BY <2>1, <2>2
<1>4. Elements(a) \subseteq Elements(q) \cup Elements(o)  BY <1>3 DEF Elements
<1> QED BY <1>1, <1>4 DEF Upward

(* The first frame is taken.                                               *)
LEMMA TailFrames ==
  ASSUME NEW S, NEW q \in Seq(S), q # <<>>
  PROVE  /\ Downward(Tail(q)) \subseteq Downward(q) /\ Upward(Tail(q)) \subseteq Upward(q)
         /\ Head(q).msg # "deauth" => Core(Head(q)) \in Downward(q)
         /\ Head(q).msg \in {"2/4", "4/4"} => Head(q) \in Upward(q)
         /\ InOrder(q) => /\ InOrder(Tail(q))
                          /\ Head(q).msg # "deauth" =>
                               \A g \in Downward(Tail(q)) : Before(Core(Head(q)), g)
<1>1. PICK t, h : t = Tail(q) /\ h = Head(q)  OBVIOUS
<1>2. /\ Len(q) \in Nat /\ Len(q) > 0 /\ DOMAIN q = 1 .. Len(q) /\ DOMAIN t = 1 .. Len(q) - 1
      /\ \A i \in 1 .. Len(q) - 1 : t[i] = q[i + 1]
      /\ h = q[1]
  BY <1>1
<1>3. \A i \in DOMAIN t : i + 1 \in DOMAIN q /\ 1 < i + 1 /\ t[i] = q[i + 1] /\ i \in Nat
  BY <1>2
<1>4. 1 \in DOMAIN q /\ h \in Elements(q)  BY <1>2 DEF Elements
<1>5. Elements(t) \subseteq Elements(q)  BY <1>3 DEF Elements
<1>6. /\ Downward(t) \subseteq Downward(q) /\ Upward(t) \subseteq Upward(q)
      /\ h.msg # "deauth" => Core(h) \in Downward(q)
      /\ h.msg \in {"2/4", "4/4"} => h \in Upward(q)
  BY <1>4, <1>5 DEF Downward, Upward
<1>7. InOrder(q) => InOrder(t)
  <2> SUFFICES ASSUME InOrder(q), NEW i \in DOMAIN t, NEW j \in DOMAIN t, i < j,
                      t[i].msg # "deauth", t[j].msg # "deauth"
               PROVE  Before(t[i], t[j])
    BY DEF InOrder
  <2>1. i + 1 < j + 1  BY <1>3
  <2> QED BY <1>3, <2>1 DEF InOrder
<1>8. ASSUME InOrder(q), h.msg # "deauth", NEW g \in Downward(t)
      PROVE  Before(Core(h), g)
  <2>1. PICK i \in DOMAIN t : t[i].msg # "deauth" /\ g = Core(t[i])
    BY DEF Downward, Elements
  <2>2. Before(q[1], q[i + 1])  BY <1>2, <1>3, <1>4, <1>8, <2>1 DEF InOrder
  <2> QED BY <1>2, <1>3, <2>1, <2>2, CoreOrder
<1> QED BY <1>1, <1>6, <1>7, <1>8

(* New labels of the group keys that frames carry.                         *)
LEMMA RelabelledFrames ==
  ASSUME NEW q, NEW t, DOMAIN t = DOMAIN q,
         \A i \in DOMAIN q : Core(t[i]) = Core(q[i])
  PROVE  Downward(t) = Downward(q) /\ (InOrder(q) => InOrder(t))
<1>1. \A i \in DOMAIN q : t[i].msg = q[i].msg  BY CoreOrder
<1>2. \A i, j \in DOMAIN q : Before(t[i], t[j]) <=> Before(q[i], q[j])  BY CoreOrder
<1>3. InOrder(q) => InOrder(t)  BY <1>1, <1>2 DEF InOrder
<1>4. Downward(t) \subseteq Downward(q)  BY <1>1 DEF Downward, Elements
<1>5. Downward(q) \subseteq Downward(t)  BY <1>1 DEF Downward, Elements
<1> QED BY <1>3, <1>4, <1>5

-----------------------------------------------------------------------------
(* The states of WPA_PTK that are entered: what is sent goes to the link   *)
(* d, behind the frames that are under way.                                *)
Keyed(x, p, d, U) ==
  InOrder(d \o x.out) /\ Agreed(x.sm, p, Downward(d \o x.out), U, x.rand)

(* The types of a queue that is sent.                                      *)
Queued(d, x) == \E S : d \in Seq(S) /\ x.out \in Seq(S)

(* A frame is put in the queue: a deauthentication, or the newest one.     *)
LEMMA SentKeyed ==
  ASSUME NEW x, NEW y, NEW p, NEW d, NEW U, Queued(d, x), Keyed(x, p, d, U),
         NEW f, y.out = Append(x.out, f),
         NEW D, D = Downward(d \o x.out),
         \/ f.msg = "deauth" /\ Agreed(y.sm, p, D, U, y.rand)
         \/ /\ f.msg # "deauth" /\ Newest(Core(f), p, D, U)
            /\ Agreed(y.sm, p, D \cup {Core(f)}, U, y.rand)
  PROVE  Keyed(y, p, d, U)
<1>1. PICK S : d \in Seq(S) /\ x.out \in Seq(S)  BY DEF Queued
<1>2. PICK q : q = d \o x.out  OBVIOUS
<1>3. q \in Seq(S) /\ Seq(S) \subseteq Seq(S \cup {f}) /\ d \o y.out = Append(q, f)
  <2>1. q \in Seq(S)  BY <1>1, <1>2
  <2>2. PICK o : o = x.out  OBVIOUS
  <2>3. d \o Append(o, f) = Append(d \o o, f)
    <3>1. PICK T : T = S \cup {f}  OBVIOUS
    <3>2. d \in Seq(T) /\ o \in Seq(T) /\ f \in T  BY <1>1, <2>2, <3>1
    <3> QED BY <3>2
  <2> QED BY <1>2, <2>1, <2>2, <2>3
<1>4. InOrder(Append(q, f))
  BY <1>2, <1>3, AppendFrames DEF Keyed, Newest
<1>5. /\ f.msg = "deauth" => Downward(Append(q, f)) = D
      /\ f.msg # "deauth" => Downward(Append(q, f)) = D \cup {Core(f)}
  BY <1>2, <1>3, AppendFrames
<1> QED BY <1>3, <1>4, <1>5 DEF Keyed

(* The key is given up.                                                    *)
GivenUp(m, n) ==
  /\ n.PTK_valid = FALSE /\ n.ANonce = m.ANonce /\ n.alt_SNonce = m.alt_SNonce
  /\ n.valid \subseteq m.valid /\ n.ctr \in Nat /\ n.rx # "pairwise"
  /\ n.ctr = m.ctr \/ "ReAuthentication" \in n.requests
  /\ "ReAuthentication" \notin n.requests => "ReAuthentication" \notin m.requests
  /\ n.ptk = m.ptk \/ n.ptk \notin Negotiating \cup {"PTKSTART", "PTKINITDONE"}
  /\ n.requests # {} \/ n.ptk \notin Negotiating \cup {"PTKINITDONE"}

(* Giving the key up keeps the agreement.                                  *)
LEMMA GivenUpAgreed ==
  ASSUME NEW m, NEW p, NEW D, NEW U, NEW r \in Nat, Agreed(m, p, D, U, r), SmTyped(m),
         NEW n, GivenUp(m, n)
  PROVE  Agreed(n, p, D, U, r)
<1>1. m.ctr \in Nat /\ m.ANonce \in Nat /\ n.ANonce \in Nat
  BY DEF SmTyped, SmCounters, GivenUp
<1>2. Keyless(n)  BY DEF Keyless, Armed, Negotiating, Candidate, Accepted, GivenUp
<1>3. ApKeys(n, r)
  BY <1>2 DEF Keyless, GivenUp, Agreed, Tied, ApKeys, Negotiating
<1>4. Closes(m, n, r)  BY DEF Closes, GivenUp
<1>5. Keeps(m, n, r)  BY <1>1 DEF Keeps, Used, GivenUp
<1>6. r <= r  OBVIOUS
<1> QED BY <1>1, <1>2, <1>3, <1>4, <1>5, <1>6, KeylessAgreed

(* What is given to the functions.                                         *)
LEMMA GivenFacts ==
  ASSUME NEW x, NEW c, Given(x, c), NEW p, NEW d, NEW U, Keyed(x, p, d, U),
         NEW m, m = x.sm, NEW D, D = Downward(d \o x.out)
  PROVE  /\ SmOK(m) /\ SmShape(m) /\ Station(m, c, x.rand) /\ SmTyped(m) /\ x.rand \in Nat
         /\ XShape(x) /\ Agreed(m, p, D, U, x.rand) /\ ApKeys(m, x.rand) /\ KeyOK(m, x.rand)
         /\ m.ctr \in Nat /\ m.ANonce \in Nat /\ m.ANonce < x.rand /\ m.valid \subseteq Nat
  BY DEF Given, XOK, SmOK, Station, SmTyped, SmCounters, SmWindow, KeyOK, Keyed, Agreed, Tied

(* INITIALIZE.                                                             *)
LEMMA InitializeKeyed ==
  ASSUME NEW x, NEW c, Given(x, c), PtkTarget(x.sm) = "INITIALIZE", NEW y, y = INITIALIZE(x),
         NEW p, NEW d, NEW U, Queued(d, x), Keyed(x, p, d, U)
  PROVE  Keyed(y, p, d, U)
<1>1. PICK m, n, D : m = x.sm /\ n = y.sm /\ D = Downward(d \o x.out)  OBVIOUS
<1>2. SmOK(m) /\ SmShape(m) /\ Station(m, c, x.rand) /\ SmTyped(m) /\ x.rand \in Nat
      /\ XShape(x) /\ Agreed(m, p, D, U, x.rand) /\ m.ctr \in Nat
  BY <1>1, GivenFacts
<1>3. m.requests = {} /\ m.ptk = "DISCONNECTED" /\ m.rx # "pairwise"
  BY <1>1, <1>2, PtkTargets, PtkMoves DEF None
<1>4. /\ n = [[[m EXCEPT !.GUpdateStationKeys = FALSE]
                 EXCEPT !.PTK_valid = FALSE, !.PTK = NoKey, !.key = NoKey, !.rekey = FALSE]
                 EXCEPT !.ptk = "INITIALIZE", !.TimeoutCtr = 0]
      /\ y.rand = x.rand /\ y.out = x.out
  <2>1. PICK z : z = Discount(x)  OBVIOUS
  <2>2. XShape(z) /\ z.rand = x.rand /\ z.out = x.out
        /\ z.sm = [m EXCEPT !.GUpdateStationKeys = FALSE]
    BY <1>1, <1>2, <2>1 DEF XShape, Discount
  <2>3. PICK k : k = z.sm  OBVIOUS
  <2>4. y.sm = [[k EXCEPT !.PTK_valid = FALSE, !.PTK = NoKey, !.key = NoKey, !.rekey = FALSE]
                  EXCEPT !.ptk = "INITIALIZE", !.TimeoutCtr = 0]
        /\ y.rand = z.rand /\ y.out = z.out
    BY <2>1, <2>2, <2>3 DEF XShape, INITIALIZE, wpa_remove_ptk
  <2> QED BY <1>1, <2>2, <2>3, <2>4
<1>5. /\ n.PTK_valid = FALSE /\ n.ANonce = m.ANonce /\ n.alt_SNonce = m.alt_SNonce
      /\ n.valid = m.valid /\ n.ctr = m.ctr /\ n.rx = m.rx /\ n.requests = m.requests
      /\ n.ptk = "INITIALIZE"
  BY <1>2, <1>4 DEF SmShape
<1>6. GivenUp(m, n)  BY <1>2, <1>3, <1>5 DEF GivenUp, Negotiating
<1> QED BY <1>1, <1>2, <1>4, <1>6, GivenUpAgreed DEF Keyed

(* wpa_sta_disconnect.                                                     *)
LEMMA StaDisconnectKeyed ==
  ASSUME NEW x, XOK(x), x.rand \in Nat, NEW y, y = wpa_sta_disconnect(x),
         NEW m, SmTyped(m), m.rx # "pairwise" \/ x.sm.rx = "none",
         x.sm.rx \in {m.rx, "none"}, x.sm.requests \subseteq m.requests,
         x.sm.ANonce = m.ANonce, x.sm.alt_SNonce = m.alt_SNonce, x.sm.valid = m.valid,
         x.sm.ctr = m.ctr,
         "ReAuthentication" \in m.requests => "ReAuthentication" \in x.sm.requests,
         x.sm.ptk = m.ptk \/ x.sm.ptk = "DISCONNECT" \/ (x.sm.ptk = "PTKINITDONE" /\ m.valid = {}),
         NEW p, NEW d, NEW U, Queued(d, x), NEW D, D = Downward(d \o x.out), InOrder(d \o x.out),
         Agreed(m, p, D, U, x.rand)
  PROVE  Keyed(y, p, d, U)
<1>1. PICK k, n : k = x.sm /\ n = y.sm  OBVIOUS
<1>2. /\ n = [[k EXCEPT !.PTK_valid = FALSE, !.PTK = NoKey, !.key = NoKey, !.rekey = FALSE]
                EXCEPT !.requests = @ \cup {"Deauthentication"}, !.assoc = FALSE]
      /\ y.rand = x.rand /\ y.out = Append(x.out, DeauthFrame)
  BY <1>1 DEF XOK, XShape, wpa_sta_disconnect, wpa_remove_ptk
<1>3. SmShape(k)  BY <1>1 DEF XOK, SmOK
<1>4. /\ n.PTK_valid = FALSE /\ n.ANonce = k.ANonce /\ n.alt_SNonce = k.alt_SNonce
      /\ n.valid = k.valid /\ n.ctr = k.ctr /\ n.rx = k.rx /\ n.ptk = k.ptk
      /\ n.requests = k.requests \cup {"Deauthentication"}
  BY <1>2, <1>3 DEF SmShape
<1>5. m.ctr \in Nat /\ m.ANonce \in Nat  BY DEF SmTyped, SmCounters
<1>6. Keyless(n)
  BY <1>1, <1>4 DEF Keyless, Armed, Negotiating, Candidate, Accepted
<1>7. ApKeys(n, x.rand)
  BY <1>1, <1>4, <1>6 DEF Keyless, Agreed, Tied, ApKeys
<1>8. Closes(m, n, x.rand)
  BY <1>1, <1>4 DEF Closes, Negotiating
<1>9. Keeps(m, n, x.rand)
  BY <1>1, <1>4, <1>5 DEF Keeps, Used
<1>10. Agreed(n, p, D, U, x.rand)
  <2>1. x.rand <= x.rand /\ n.ANonce \in Nat  BY <1>1, <1>4, <1>5
  <2> QED BY <1>6, <1>7, <1>8, <1>9, <2>1, KeylessAgreed
<1>11. PICK S : d \in Seq(S) /\ x.out \in Seq(S)  BY DEF Queued
<1>12. Downward(d \o y.out) = D /\ InOrder(d \o y.out)
  <2>1. PICK q, o : q = d \o x.out /\ o = x.out  OBVIOUS
  <2>2. q \in Seq(S)  BY <1>11, <2>1
  <2>3. d \o Append(o, DeauthFrame) = Append(d \o o, DeauthFrame)
    <3>1. PICK T, f : T = S \cup {DeauthFrame} /\ f = DeauthFrame  OBVIOUS
    <3>2. d \in Seq(T) /\ o \in Seq(T) /\ f \in T  BY <1>11, <2>1, <3>1
    <3>3. d \o Append(o, f) = Append(d \o o, f)  BY <3>2
    <3> QED BY <3>1, <3>3
  <2>4. PICK f : f = DeauthFrame  OBVIOUS
  <2>5. f.msg = "deauth"  BY <2>4 DEF DeauthFrame
  <2>6. Downward(Append(q, f)) = Downward(q)  BY <2>2, <2>5, AppendFrames
  <2>7. InOrder(Append(q, f))  BY <2>1, <2>2, <2>5, AppendFrames
  <2>8. d \o y.out = Append(q, f)  BY <1>2, <2>1, <2>3, <2>4
  <2> QED BY <2>1, <2>6, <2>7, <2>8
<1> QED BY <1>1, <1>2, <1>10, <1>12 DEF Keyed

(* DISCONNECT.                                                             *)
LEMMA DisconnectKeyed ==
  ASSUME NEW x, NEW c, Given(x, c), PtkTarget(x.sm) = "DISCONNECT", NEW y, y = DISCONNECT(x),
         NEW p, NEW d, NEW U, Queued(d, x), Keyed(x, p, d, U)
  PROVE  Keyed(y, p, d, U)
<1>1. PICK m, D : m = x.sm /\ D = Downward(d \o x.out)  OBVIOUS
<1>2. SmOK(m) /\ SmShape(m) /\ Station(m, c, x.rand) /\ SmTyped(m) /\ x.rand \in Nat
      /\ XShape(x) /\ Agreed(m, p, D, U, x.rand) /\ m.ctr \in Nat
  BY <1>1, GivenFacts
<1>3. m.rx # "pairwise"  BY <1>1, <1>2, PtkMoves DEF None
<1>4. PICK z : z = [x EXCEPT !.sm.ptk = "DISCONNECT", !.sm.requests = @ \ {"Disconnect"}]
  OBVIOUS
<1>5. /\ XShape(z) /\ z.rand = x.rand /\ z.out = x.out /\ z.done = x.done
      /\ z.sm = [m EXCEPT !.ptk = "DISCONNECT", !.requests = @ \ {"Disconnect"}]
  BY <1>1, <1>2, <1>4 DEF XShape
<1>6. PICK k : k = z.sm  OBVIOUS
<1>7. /\ SmShape(k) /\ k.ANonce = m.ANonce /\ k.alt_SNonce = m.alt_SNonce
      /\ k.valid = m.valid /\ k.ctr = m.ctr /\ k.rx = m.rx /\ k.ptk = "DISCONNECT"
      /\ k.requests = m.requests \ {"Disconnect"}
      /\ k.GUpdateStationKeys = m.GUpdateStationKeys
  <2>1. k = [m EXCEPT !.ptk = "DISCONNECT", !.requests = @ \ {"Disconnect"}]  BY <1>5, <1>6
  <2> QED BY <1>2, <2>1 DEF SmShape
<1>8. XOK(z)
  BY <1>2, <1>5, <1>6, <1>7 DEF Given, XOK, SmOK
<1>9. y = wpa_sta_disconnect(z)  BY <1>4 DEF DISCONNECT
<1>10. Queued(d, z) /\ InOrder(d \o z.out) /\ D = Downward(d \o z.out) /\ z.rand \in Nat
       /\ Agreed(m, p, D, U, z.rand)
  BY <1>1, <1>2, <1>5 DEF Queued, Keyed
<1>11. /\ z.sm.rx \in {m.rx, "none"} /\ z.sm.requests \subseteq m.requests
       /\ z.sm.ANonce = m.ANonce /\ z.sm.alt_SNonce = m.alt_SNonce /\ z.sm.valid = m.valid
       /\ z.sm.ctr = m.ctr /\ z.sm.ptk = "DISCONNECT"
       /\ "ReAuthentication" \in m.requests => "ReAuthentication" \in z.sm.requests
  BY <1>6, <1>7
<1> QED BY <1>2, <1>3, <1>8, <1>9, <1>10, <1>11, StaDisconnectKeyed

(* DISCONNECTED.                                                           *)
LEMMA DisconnectedSource ==
  ASSUME NEW m, PtkTarget(m) = "DISCONNECTED"
  PROVE  "Deauthentication" \in m.requests \/ m.ptk = "DISCONNECT"
BY DEF PtkTarget, None

(* Entry of DISCONNECTED: no key is valid there.                           *)
LEMMA DisconnectedKeyed ==
  ASSUME NEW x, NEW c, Given(x, c), PtkTarget(x.sm) = "DISCONNECTED", NEW y, y = DISCONNECTED(x),
         NEW p, NEW d, NEW U, Queued(d, x), Keyed(x, p, d, U)
  PROVE  Keyed(y, p, d, U)
<1>1. PICK m, n, D : m = x.sm /\ n = y.sm /\ D = Downward(d \o x.out)  OBVIOUS
<1>2. SmOK(m) /\ SmShape(m) /\ Station(m, c, x.rand) /\ SmTyped(m) /\ x.rand \in Nat
      /\ XShape(x) /\ Agreed(m, p, D, U, x.rand) /\ ApKeys(m, x.rand) /\ m.ctr \in Nat
  BY <1>1, GivenFacts
<1>3. m.rx # "pairwise"  BY <1>1, <1>2, PtkMoves DEF None
<1>4. m.PTK_valid = FALSE
  BY <1>1, <1>2, DisconnectedSource DEF ApKeys, Negotiating, SmTyped, SmFlags
<1>5. /\ n = [m EXCEPT !.ptk = "DISCONNECTED", !.requests = @ \ {"Deauthentication"}]
      /\ y.rand = x.rand /\ y.out = x.out
  BY <1>1, <1>2 DEF XShape, SmShape, DISCONNECTED
<1>6. /\ n.PTK_valid = m.PTK_valid /\ n.ANonce = m.ANonce /\ n.alt_SNonce = m.alt_SNonce
      /\ n.valid = m.valid /\ n.ctr = m.ctr /\ n.rx = m.rx /\ n.ptk = "DISCONNECTED"
      /\ n.requests = m.requests \ {"Deauthentication"}
  BY <1>2, <1>5 DEF SmShape
<1>7. GivenUp(m, n)  BY <1>2, <1>3, <1>4, <1>6 DEF GivenUp, Negotiating
<1> QED BY <1>1, <1>2, <1>5, <1>7, GivenUpAgreed DEF Keyed

(* AUTHENTICATION.                                                         *)
LEMMA AuthenticationKeyed ==
  ASSUME NEW x, NEW c, Given(x, c), PtkTarget(x.sm) = "AUTHENTICATION", NEW y, y = AUTHENTICATION(x),
         NEW p, NEW d, NEW U, Queued(d, x), Keyed(x, p, d, U)
  PROVE  Keyed(y, p, d, U)
<1>1. PICK m, n, D : m = x.sm /\ n = y.sm /\ D = Downward(d \o x.out)  OBVIOUS
<1>2. SmOK(m) /\ SmShape(m) /\ Station(m, c, x.rand) /\ SmTyped(m) /\ x.rand \in Nat
      /\ XShape(x) /\ Agreed(m, p, D, U, x.rand) /\ m.ctr \in Nat
  BY <1>1, GivenFacts
<1>3. m.rx # "pairwise"  BY <1>1, <1>2, PtkMoves DEF None
<1>4. /\ n = [m EXCEPT !.ptk = "AUTHENTICATION", !.PTK = NoKey, !.PTK_valid = FALSE,
                       !.requests = @ \ {"Authentication"}]
      /\ y.rand = x.rand /\ y.out = x.out
  BY <1>1, <1>2 DEF XShape, AUTHENTICATION
<1>5. /\ n.PTK_valid = FALSE /\ n.ANonce = m.ANonce /\ n.alt_SNonce = m.alt_SNonce
      /\ n.valid = m.valid /\ n.ctr = m.ctr /\ n.rx = m.rx /\ n.ptk = "AUTHENTICATION"
      /\ n.requests = m.requests \ {"Authentication"}
  BY <1>2, <1>4 DEF SmShape
<1>6. GivenUp(m, n)  BY <1>2, <1>3, <1>5 DEF GivenUp, Negotiating
<1> QED BY <1>1, <1>2, <1>4, <1>6, GivenUpAgreed DEF Keyed

(* AUTHENTICATION2: the ANonce is new.                                     *)
LEMMA Authentication2Keyed ==
  ASSUME NEW x, NEW c, Given(x, c), PtkTarget(x.sm) = "AUTHENTICATION2",
         NEW y, y = AUTHENTICATION2(x),
         NEW p, NEW d, NEW U, Queued(d, x), Keyed(x, p, d, U)
  PROVE  Keyed(y, p, d, U)
<1>1. PICK m, n, D, r : m = x.sm /\ n = y.sm /\ D = Downward(d \o x.out) /\ r = x.rand  OBVIOUS
<1>2. SmOK(m) /\ SmShape(m) /\ Station(m, c, r) /\ SmTyped(m) /\ r \in Nat
      /\ XShape(x) /\ Agreed(m, p, D, U, r) /\ ApKeys(m, r) /\ KeyOK(m, r) /\ m.ctr \in Nat
  BY <1>1, GivenFacts
<1>3. m.rx # "pairwise"  BY <1>1, <1>2, PtkMoves DEF None
<1>4. m.PTK_valid = FALSE  BY <1>1, <1>2, PtkTargets DEF KeyOK
<1>5. /\ n = [m EXCEPT !.ptk = "AUTHENTICATION2", !.ANonce = r, !.TimeoutCtr = 0,
                       !.requests = @ \ {"ReAuthentication"}]
      /\ y.rand = r + 1 /\ y.out = x.out
  BY <1>1, <1>2 DEF XShape, AUTHENTICATION2
<1>6. /\ n.PTK_valid = FALSE /\ n.ANonce = r /\ n.alt_SNonce = m.alt_SNonce
      /\ n.rx = m.rx /\ n.ptk = "AUTHENTICATION2"
  BY <1>2, <1>4, <1>5 DEF SmShape
<1>7. r + 1 \in Nat /\ r <= r + 1 /\ n.ANonce \in Nat /\ n.ANonce >= r  BY <1>2, <1>6
<1>8. Keyless(n)  BY <1>3, <1>6 DEF Keyless, Armed, Negotiating, Candidate, Accepted
<1>9. ApKeys(n, r + 1)
  BY <1>2, <1>6, <1>8 DEF Keyless, ApKeys
<1>10. Closes(m, n, r) /\ Keeps(m, n, r)
  BY <1>2, <1>6, <1>7 DEF Closes, Keeps, Used
<1>11. Agreed(n, p, D, U, r + 1)
  BY <1>2, <1>7, <1>8, <1>9, <1>10, KeylessAgreed
<1> QED BY <1>1, <1>5, <1>11 DEF Keyed

(* INITPSK.                                                                *)
LEMMA InitpskKeyed ==
  ASSUME NEW x, NEW c, Given(x, c), PtkTarget(x.sm) = "INITPSK", NEW y, y = INITPSK(x),
         NEW p, NEW d, NEW U, Queued(d, x), Keyed(x, p, d, U)
  PROVE  Keyed(y, p, d, U)
<1>1. PICK m, n, D : m = x.sm /\ n = y.sm /\ D = Downward(d \o x.out)  OBVIOUS
<1>2. SmOK(m) /\ SmShape(m) /\ Station(m, c, x.rand) /\ SmTyped(m) /\ x.rand \in Nat
      /\ XShape(x) /\ Agreed(m, p, D, U, x.rand) /\ KeyOK(m, x.rand) /\ m.ctr \in Nat
  BY <1>1, GivenFacts
<1>3. m.rx # "pairwise"  BY <1>1, <1>2, PtkMoves DEF None
<1>4. m.PTK_valid = FALSE  BY <1>1, <1>2, PtkTargets DEF KeyOK
<1>5. /\ n = [m EXCEPT !.ptk = "INITPSK", !.req_counter = 0]
      /\ y.rand = x.rand /\ y.out = x.out
  BY <1>1, <1>2 DEF XShape, SmShape, INITPSK
<1>6. /\ n.PTK_valid = FALSE /\ n.ANonce = m.ANonce /\ n.alt_SNonce = m.alt_SNonce
      /\ n.valid = m.valid /\ n.ctr = m.ctr /\ n.rx = m.rx /\ n.ptk = "INITPSK"
      /\ n.requests = m.requests
  BY <1>2, <1>4, <1>5 DEF SmShape
<1>7. GivenUp(m, n)  BY <1>2, <1>3, <1>6 DEF GivenUp, Negotiating
<1> QED BY <1>1, <1>2, <1>5, <1>7, GivenUpAgreed DEF Keyed

(* PTKCALCNEGOTIATING2.                                                    *)
LEMMA Ptkcalc2Keyed ==
  ASSUME NEW x, NEW c, Given(x, c), PtkTarget(x.sm) = "PTKCALCNEGOTIATING2",
         NEW y, y = PTKCALCNEGOTIATING2(x),
         NEW p, NEW d, NEW U, Queued(d, x), Keyed(x, p, d, U)
  PROVE  Keyed(y, p, d, U)
<1>1. PICK m, n, D : m = x.sm /\ n = y.sm /\ D = Downward(d \o x.out)  OBVIOUS
<1>2. SmOK(m) /\ SmShape(m) /\ Station(m, c, x.rand) /\ SmTyped(m) /\ x.rand \in Nat
      /\ XShape(x) /\ Agreed(m, p, D, U, x.rand) /\ ApKeys(m, x.rand) /\ m.ctr \in Nat
  BY <1>1, GivenFacts
<1>3. m.rx # "pairwise"  BY <1>1, <1>2, PtkMoves DEF None
<1>4. m.requests = {} /\ m.ptk = "PTKCALCNEGOTIATING" /\ m.MICVerified = TRUE
  BY <1>1, <1>2, PtkTargets
<1>5. Armed(m)  BY <1>2, <1>4 DEF Armed, Negotiating, ApKeys
<1>6. /\ n = [m EXCEPT !.ptk = "PTKCALCNEGOTIATING2", !.TimeoutCtr = 0]
      /\ y.rand = x.rand /\ y.out = x.out
  BY <1>1, <1>2 DEF XShape, SmShape, PTKCALCNEGOTIATING2
<1>7. /\ Memory(m, n) /\ n.ctr = m.ctr /\ n.valid = m.valid /\ n.requests = m.requests
      /\ n.rx = m.rx /\ n.update_snonce = m.update_snonce /\ n.ptk = "PTKCALCNEGOTIATING2"
  BY <1>2, <1>6 DEF SmShape, Memory, SameSecrets
<1>8. ~Candidate(n) /\ ~Accepted(n)  BY <1>3, <1>7 DEF Candidate, Accepted
<1>9. Alike(m, n)  BY <1>4, <1>5, <1>7, <1>8 DEF Alike, Memory, Negotiating
<1>10. ToDerive(n, x.rand)  BY <1>8 DEF ToDerive
<1>11. ApKeys(n, x.rand)
  BY <1>2, <1>3, <1>4, <1>5, <1>7, <1>8 DEF ApKeys, Memory, SameSecrets, Armed, HasAlt, Negotiating
<1> QED BY <1>1, <1>2, <1>6, <1>9, <1>10, <1>11, AlikeAgreed DEF Keyed

(* Sending: the record and the frame.                                      *)
NextSent(m, n) ==
  /\ SmShape(n) /\ Memory(m, n) /\ RxPart(m, n) /\ n.ptk = m.ptk /\ n.requests = m.requests
  /\ n.ctr = m.ctr + 1 /\ n.valid \subseteq m.valid \cup {m.ctr + 1} /\ n.ctr \in n.valid
NextFrame(f, m, msg) ==
  /\ f.msg = msg /\ f.rc = m.ctr + 1
  /\ msg = "1/4" => f.nonce = m.ANonce
  /\ msg # "1/4" => f.mic = m.PTK /\ m.PTK_valid = TRUE
NoFrame(m, msg) == msg # "1/4" /\ m.PTK_valid = FALSE

(* What __wpa_send_eapol does to the record and to the queue.              *)
LEMMA SendKeys ==
  ASSUME NEW x, XOK(x), x.sm.ctr \in Nat, x.sm.PTK_valid \in BOOLEAN, NEW msg, NEW gtk,
         NEW y, y = Send(x, msg, gtk)
  PROVE  /\ NextSent(x.sm, y.sm) /\ y.rand = x.rand
         /\ \/ y.out = x.out /\ NoFrame(x.sm, msg)
            \/ \E f : y.out = Append(x.out, f) /\ NextFrame(f, x.sm, msg)
<1>0. PICK m, n : m = x.sm /\ n = y.sm  OBVIOUS
<1>1. SmShape(m) /\ m.ctr \in Nat /\ RSNA_MAX_EAPOL_RETRIES \in Nat
      /\ RSNA_MAX_EAPOL_RETRIES > 0
  BY <1>0, WpaAssumption DEF XOK, SmOK
<1>2. n = [m EXCEPT !.ctr = m.ctr + 1, !.valid = Window(m.valid, m.ctr + 1),
                    !.timers = m.timers + 1]
  BY <1>0, <1>1 DEF XOK, XShape, SmShape, Send
<1>3. PICK f : f = [msg |-> msg, rc |-> m.ctr + 1,
                    mic |-> IF msg = "1/4" THEN NoKey ELSE m.PTK, gtk |-> gtk,
                    nonce |-> IF msg = "1/2" THEN NoNonce ELSE m.ANonce]
  OBVIOUS
<1>4. /\ y.rand = x.rand
      /\ y.out = IF msg = "1/4" \/ m.PTK_valid THEN Append(x.out, f) ELSE x.out
  BY <1>0, <1>3 DEF XOK, XShape, Send
<1>5. n.ctr = m.ctr + 1 /\ n.valid = Window(m.valid, m.ctr + 1) /\ SmShape(n) /\ Memory(m, n)
      /\ RxPart(m, n) /\ n.ptk = m.ptk /\ n.requests = m.requests
  <2>1. PICK i, w, t : i = m.ctr + 1 /\ w = Window(m.valid, m.ctr + 1) /\ t = m.timers + 1
    OBVIOUS
  <2>2. n = [m EXCEPT !.ctr = i, !.valid = w, !.timers = t]  BY <1>2, <2>1
  <2>3. SmShape(n)  BY <1>1, <2>2 DEF SmShape
  <2>4. n.ctr = i /\ n.valid = w /\ n.ptk = m.ptk /\ n.requests = m.requests
    BY <1>1, <2>2 DEF SmShape
  <2>5. Memory(m, n) /\ RxPart(m, n)  BY <1>1, <2>2 DEF SmShape, Memory, SameSecrets, RxPart
  <2> QED BY <2>1, <2>3, <2>4, <2>5
<1>6. n.valid \subseteq m.valid \cup {m.ctr + 1} /\ n.ctr \in n.valid
  BY <1>1, <1>5 DEF Window
<1>7. NextSent(m, n)  BY <1>5, <1>6 DEF NextSent
<1>8. \/ y.out = x.out /\ NoFrame(m, msg)
      \/ y.out = Append(x.out, f) /\ NextFrame(f, m, msg)
  BY <1>0, <1>3, <1>4 DEF NextFrame, NoFrame
<1> QED BY <1>0, <1>4, <1>7, <1>8

(* PTKSTART.                                                               *)
LEMMA PtkstartKeyed ==
  ASSUME NEW x, NEW c, Given(x, c), PtkTarget(x.sm) = "PTKSTART", NEW y, y = PTKSTART(x),
         NEW p, NEW d, NEW U, Queued(d, x), Keyed(x, p, d, U)
  PROVE  Keyed(y, p, d, U)
<1>1. PICK m, n, D, r : m = x.sm /\ n = y.sm /\ D = Downward(d \o x.out) /\ r = x.rand  OBVIOUS
<1>2. SmOK(m) /\ SmShape(m) /\ Station(m, c, r) /\ SmTyped(m) /\ r \in Nat
      /\ XShape(x) /\ Agreed(m, p, D, U, r) /\ ApKeys(m, r) /\ KeyOK(m, r) /\ m.ctr \in Nat
      /\ m.ANonce \in Nat /\ m.ANonce < r /\ m.valid \subseteq Nat
  BY <1>1, GivenFacts
<1>3. m.rx # "pairwise" /\ m.update_snonce = FALSE  BY <1>1, <1>2, PtkMoves DEF None
<1>4. \/ m.requests = {"PTK"}
      \/ m.requests = {} /\ m.ptk \in {"INITPSK", "PTKSTART", "PTKCALCNEGOTIATING"}
  BY <1>1, <1>2, PtkTargets DEF Station, TriesOK
<1>5. 0 < m.ANonce  BY <1>2, <1>4 DEF KeyOK, Handshake, Awaiting
<1>6. PICK z : z = [x EXCEPT !.sm = [x.sm EXCEPT
            !.ptk = "PTKSTART", !.requests = @ \ {"PTK"}, !.TimeoutEvt = FALSE,
            !.alt_SNonce = NoNonce, !.TimeoutCtr = @ + 1]]
  OBVIOUS
<1>7. XShape(z) /\ z.rand = r /\ z.out = x.out /\ z.done = x.done
      /\ z.sm = [m EXCEPT !.ptk = "PTKSTART", !.requests = @ \ {"PTK"},
                  !.TimeoutEvt = FALSE, !.alt_SNonce = NoNonce, !.TimeoutCtr = @ + 1]
  BY <1>1, <1>2, <1>6 DEF XShape, SmShape
<1>8. PICK k : k = z.sm  OBVIOUS
<1>9. /\ SmShape(k) /\ k.ptk = "PTKSTART" /\ k.requests = {} /\ k.alt_SNonce = NoNonce
      /\ k.ANonce = m.ANonce /\ k.PTK = m.PTK /\ k.PTK_valid = m.PTK_valid
      /\ RxPart(m, k) /\ k.ctr = m.ctr /\ k.valid = m.valid
      /\ k.GUpdateStationKeys = m.GUpdateStationKeys
  <2>1. k = [m EXCEPT !.ptk = "PTKSTART", !.requests = @ \ {"PTK"},
                  !.TimeoutEvt = FALSE, !.alt_SNonce = NoNonce, !.TimeoutCtr = @ + 1]
    BY <1>7, <1>8
  <2> QED BY <1>2, <1>4, <2>1 DEF SmShape, RxPart
<1>10. \A w : /\ w.ptk = "PTKSTART" /\ w.requests = {} /\ w.alt_SNonce = NoNonce
              /\ w.ANonce = m.ANonce /\ w.PTK = m.PTK /\ w.PTK_valid = m.PTK_valid
              /\ w.rx = m.rx /\ w.update_snonce = m.update_snonce
              => Keyless(w) /\ ApKeys(w, r)
  <2> SUFFICES ASSUME NEW w, w.ptk = "PTKSTART", w.requests = {}, w.alt_SNonce = NoNonce,
                      w.ANonce = m.ANonce, w.PTK = m.PTK, w.PTK_valid = m.PTK_valid,
                      w.rx = m.rx, w.update_snonce = m.update_snonce
               PROVE  Keyless(w) /\ ApKeys(w, r)
    OBVIOUS
  <2>1. Keyless(w)  BY <1>3 DEF Keyless, Armed, Negotiating, Candidate, Accepted
  <2>2. NoNonce \in Nat /\ NoNonce < r  BY <1>2, <1>5 DEF NoNonce
  <2>3. w.PTK_valid = TRUE => IsKey(w.PTK, r) /\ w.PTK[1] = PSK /\ w.PTK[2] = w.ANonce
    BY <1>2 DEF ApKeys
  <2> QED BY <2>1, <2>2, <2>3 DEF Keyless, ApKeys, Negotiating
<1>11. "ReAuthentication" \notin m.requests  BY <1>4
<1>12. CASE y = z
  <2>1. Closes(m, k, r)  BY <1>9, <1>11 DEF Closes, Negotiating
  <2>2. Keeps(m, k, r)  BY <1>2, <1>9, <1>11, KeepsSame
  <2>3. Keyless(k) /\ ApKeys(k, r) /\ r <= r /\ k.ANonce \in Nat
    BY <1>2, <1>9, <1>10 DEF RxPart
  <2>4. Agreed(k, p, D, U, r)  BY <1>2, <2>1, <2>2, <2>3, KeylessAgreed
  <2> QED BY <1>1, <1>7, <1>8, <1>12, <2>4 DEF Keyed
<1>13. CASE y = Send(z, "1/4", {})
  <2>1. XOK(z)  BY <1>2, <1>7, <1>8, <1>9 DEF Given, XOK, SmOK
  <2>2. NextSent(k, n) /\ y.rand = r /\ \E f : y.out = Append(z.out, f) /\ NextFrame(f, k, "1/4")
    <3>1. z.sm.ctr \in Nat  BY <1>2, <1>8, <1>9
    <3>2. PICK e, g : e = "1/4" /\ g = {}  OBVIOUS
    <3>3. y = Send(z, e, g)  BY <1>13, <3>2
    <3>4. k = z.sm /\ n = y.sm /\ z.sm.PTK_valid \in BOOLEAN
      BY <1>1, <1>2, <1>8, <1>9 DEF SmTyped, SmFlags
    <3>5. /\ NextSent(k, n) /\ y.rand = z.rand
          /\ \/ y.out = z.out /\ NoFrame(k, e)
             \/ \E f : y.out = Append(z.out, f) /\ NextFrame(f, k, e)
      BY <2>1, <3>1, <3>3, <3>4, SendKeys
    <3> QED BY <1>7, <3>2, <3>5 DEF NoFrame
  <2>3. PICK f : y.out = Append(x.out, f) /\ NextFrame(f, k, "1/4")  BY <1>7, <2>2
  <2>4. PICK g : g = Core(f)  OBVIOUS
  <2>5. g.msg = "1/4" /\ g.nonce = m.ANonce /\ g.rc = m.ctr + 1 /\ f.msg # "deauth"
    BY <1>9, <2>3, <2>4, CoreOrder DEF NextFrame
  <2>6. Opened(m, n)  BY <1>9, <2>2 DEF Opened, NextSent, Memory, SameSecrets
  <2>7. Keyless(n) /\ ApKeys(n, r)
    BY <1>9, <1>10, <2>2 DEF NextSent, Memory, SameSecrets, RxPart
  <2>8. Agreed(n, p, D \cup {g}, U, r)
    BY <1>2, <1>5, <1>11, <2>5, <2>6, <2>7, OpenedAgreed
  <2>9. Newest(g, p, D, U)
    <3>1. An(g) = m.ANonce /\ Links(p, D, U, r) /\ Recent(m, p, D, U)
      BY <1>2, <2>5 DEF An, Agreed
    <3> QED BY <1>2, <1>5, <1>11, <2>5, <3>1, NextNewest
  <2>10. Agreed(y.sm, p, D \cup {Core(f)}, U, y.rand) /\ Newest(Core(f), p, D, U)
    BY <1>1, <2>2, <2>4, <2>8, <2>9
  <2>11. y.out = Append(x.out, f) /\ f.msg # "deauth" /\ D = Downward(d \o x.out)
    BY <1>1, <2>3, <2>5
  <2> QED BY <2>10, <2>11, SentKeyed
<1> QED BY <1>6, <1>12, <1>13 DEF PTKSTART

(* PTKCALCNEGOTIATING.                                                     *)
LEMMA PtkcalcKeyed ==
  ASSUME NEW x, NEW c, Given(x, c), PtkTarget(x.sm) = "PTKCALCNEGOTIATING",
         NEW y, y = PTKCALCNEGOTIATING(x),
         NEW p, NEW d, NEW U, Queued(d, x), Keyed(x, p, d, U)
  PROVE  Keyed(y, p, d, U)
<1>1. PICK m, n, D, r : m = x.sm /\ n = y.sm /\ D = Downward(d \o x.out) /\ r = x.rand  OBVIOUS
<1>2. SmOK(m) /\ SmShape(m) /\ Station(m, c, r) /\ SmTyped(m) /\ r \in Nat
      /\ XShape(x) /\ Agreed(m, p, D, U, r) /\ ApKeys(m, r) /\ m.ctr \in Nat
      /\ m.ANonce \in Nat
  BY <1>1, GivenFacts
<1>3. /\ m.requests = {}
      /\ \/ m.ptk \in {"PTKSTART", "PTKCALCNEGOTIATING"} /\ m.rx = "pairwise"
         \/ m.ptk = "PTKINITNEGOTIATING" /\ m.update_snonce = TRUE
  BY <1>1, <1>2, PtkTargets
<1>4. /\ m.rx = "pairwise" /\ m.valid = {}
      /\ m.ptk = "PTKSTART" \/ (m.ptk = "PTKINITNEGOTIATING" /\ m.update_snonce = TRUE)
  BY <1>2, <1>3 DEF Station, RxOK
<1>5. Candidate(m) /\ ToDerive(m, r)  BY <1>2, <1>4 DEF Candidate, Agreed, Tied
<1>6. IsKey(m.last_mic, r) /\ m.last_mic[3] = m.SNonce
      /\ (m.MICVerified = TRUE => m.PTK_valid = TRUE /\ m.last_mic = m.PTK)
      /\ (m.ptk = "PTKSTART" /\ m.PTK_valid = TRUE => m.MICVerified = TRUE)
  BY <1>5 DEF ToDerive
<1>7. PICK key : key = Ptk(PSK, m.ANonce, m.SNonce)  OBVIOUS
<1>8. /\ y.rand = r /\ y.out = x.out
      /\ m.last_mic # key => n = [m EXCEPT !.ptk = "PTKCALCNEGOTIATING", !.rx = "none",
                                           !.update_snonce = FALSE]
      /\ m.last_mic = key => n = [[m EXCEPT !.ptk = "PTKCALCNEGOTIATING", !.rx = "none",
                                           !.update_snonce = FALSE]
                                  EXCEPT !.timers = 0, !.MICVerified = TRUE,
                                         !.PTK = key, !.PTK_valid = TRUE]
  BY <1>1, <1>2, <1>7 DEF XShape, PTKCALCNEGOTIATING
<1>9. CASE m.last_mic = key
  <2>1. /\ n.ANonce = m.ANonce /\ n.alt_SNonce = m.alt_SNonce /\ n.alt_rc = m.alt_rc
        /\ n.prev = m.prev /\ n.ctr = m.ctr /\ n.valid = m.valid /\ n.requests = m.requests
        /\ n.PTK = key /\ n.PTK_valid = TRUE /\ n.rx = "none" /\ n.SNonce = m.SNonce
        /\ n.update_snonce = FALSE /\ n.ptk = "PTKCALCNEGOTIATING" /\ n.MICVerified = TRUE
    <3>1. PICK k : k = [m EXCEPT !.ptk = "PTKCALCNEGOTIATING", !.rx = "none",
                                 !.update_snonce = FALSE]
      OBVIOUS
    <3>2. /\ SmShape(k) /\ k.ANonce = m.ANonce /\ k.alt_SNonce = m.alt_SNonce
          /\ k.alt_rc = m.alt_rc /\ k.prev = m.prev /\ k.ctr = m.ctr /\ k.valid = m.valid
          /\ k.requests = m.requests /\ k.rx = "none" /\ k.SNonce = m.SNonce
          /\ k.update_snonce = FALSE /\ k.ptk = "PTKCALCNEGOTIATING"
      BY <1>2, <3>1 DEF SmShape
    <3>3. n = [k EXCEPT !.timers = 0, !.MICVerified = TRUE, !.PTK = key, !.PTK_valid = TRUE]
      BY <1>8, <1>9, <3>1
    <3>4. /\ n.ANonce = k.ANonce /\ n.alt_SNonce = k.alt_SNonce
          /\ n.alt_rc = k.alt_rc /\ n.prev = k.prev /\ n.ctr = k.ctr /\ n.valid = k.valid
          /\ n.requests = k.requests /\ n.rx = k.rx /\ n.SNonce = k.SNonce
          /\ n.update_snonce = k.update_snonce /\ n.ptk = k.ptk
          /\ n.PTK = key /\ n.PTK_valid = TRUE /\ n.MICVerified = TRUE
      BY <3>2, <3>3 DEF SmShape
    <3> QED BY <3>2, <3>4
  <2>2. ~Candidate(n) /\ ~Accepted(n)  BY <2>1 DEF Candidate, Accepted
  <2>3. Armed(m) => m.update_snonce = TRUE  BY <1>4 DEF Armed, Negotiating
  <2>4. HasAlt(m) => Armed(m)  BY <1>2, <1>3, <1>4 DEF HasAlt, ApKeys, Armed, Negotiating
  <2>5. Derived(m, n)
    BY <1>4, <1>5, <1>7, <1>9, <2>1, <2>2, <2>3, <2>4 DEF Derived
  <2>6. ApKeys(n, r)
    <3>1. IsKey(n.PTK, r) /\ n.PTK[1] = PSK /\ n.PTK[2] = n.ANonce /\ n.PTK[3] = n.SNonce
      BY <1>6, <1>7, <1>9, <2>1 DEF Ptk
    <3>2. HasAlt(n) => n.alt_rc <= n.ctr /\ n.alt_rc \in Nat
      BY <1>2, <2>1, <2>4 DEF HasAlt, ApKeys
    <3>3. n.alt_SNonce \in Nat /\ n.alt_SNonce < r  BY <1>2, <2>1 DEF ApKeys
    <3> QED BY <1>3, <2>1, <3>1, <3>2, <3>3 DEF ApKeys, Negotiating
  <2> QED BY <1>1, <1>2, <1>8, <2>5, <2>6, DerivedAgreed DEF Keyed
<1>10. CASE m.last_mic # key
  <2>1. /\ n.ANonce = m.ANonce /\ n.alt_SNonce = m.alt_SNonce /\ n.alt_rc = m.alt_rc
        /\ n.prev = m.prev /\ n.ctr = m.ctr /\ n.valid = m.valid /\ n.requests = m.requests
        /\ n.PTK = m.PTK /\ n.PTK_valid = m.PTK_valid /\ n.rx = "none"
        /\ n.update_snonce = FALSE /\ n.ptk = "PTKCALCNEGOTIATING"
        /\ n.MICVerified = m.MICVerified /\ n.key = m.key
    BY <1>2, <1>8, <1>10, ZenonT(40) DEF SmShape
  <2>2. m.MICVerified = FALSE
    <3>1. m.MICVerified = TRUE => FALSE
      <4> SUFFICES ASSUME m.MICVerified = TRUE PROVE FALSE  OBVIOUS
      <4>1. m.last_mic = m.PTK /\ m.PTK[1] = PSK /\ m.PTK[2] = m.ANonce
        BY <1>2, <1>6 DEF ApKeys
      <4>2. m.last_mic = <<PSK, m.ANonce, m.SNonce>>  BY <1>6, <4>1 DEF IsKey
      <4> QED BY <1>7, <1>10, <4>2 DEF Ptk
    <3> QED BY <1>2, <3>1 DEF SmTyped, SmFlags
  <2>3. CASE m.ptk = "PTKSTART"
    <3>1. n.PTK_valid # TRUE  BY <1>6, <2>1, <2>2, <2>3
    <3>2. Keyless(n)  BY <2>1, <3>1 DEF Keyless, Armed, Candidate, Accepted
    <3>3. ApKeys(n, r)
      BY <1>2, <1>3, <2>1, <2>2, <3>1, <3>2 DEF Keyless, ApKeys, Negotiating
    <3>4. Closes(m, n, r)  BY <1>4, <2>1 DEF Closes
    <3>5. Keeps(m, n, r)  BY <1>2, <2>1, KeepsSame
    <3>6. r <= r /\ n.ANonce \in Nat  BY <1>2, <2>1
    <3>7. Agreed(n, p, D, U, r)  BY <1>2, <3>2, <3>3, <3>4, <3>5, <3>6, KeylessAgreed
    <3> QED BY <1>1, <1>8, <3>7 DEF Keyed
  <2>4. CASE m.ptk = "PTKINITNEGOTIATING" /\ m.update_snonce = TRUE
    <3>1. ~Candidate(n) /\ ~Accepted(n)  BY <2>1 DEF Candidate, Accepted
    <3>2. Armed(m)  BY <1>2, <1>3, <2>4 DEF ApKeys, Armed, Negotiating
    <3>3. Alike(m, n)
      BY <2>1, <2>4, <3>1, <3>2 DEF Alike, SameSecrets, Negotiating
    <3>4. ApKeys(n, r)
      BY <1>2, <2>1, <2>2, <3>2 DEF ApKeys, Armed, Negotiating, HasAlt
    <3>5. ToDerive(n, r)  BY <3>1 DEF ToDerive
    <3>6. Agreed(n, p, D, U, r)  BY <1>2, <3>3, <3>4, <3>5, AlikeAgreed
    <3> QED BY <1>1, <1>8, <3>6 DEF Keyed
  <2> QED BY <1>4, <2>3, <2>4
<1> QED BY <1>9, <1>10

(* PTKINITNEGOTIATING.                                                     *)
LEMMA PtkinitKeyed ==
  ASSUME NEW x, NEW c, Given(x, c), PtkTarget(x.sm) = "PTKINITNEGOTIATING",
         NEW gtk, NEW y, y = PTKINITNEGOTIATING(x, gtk),
         NEW p, NEW d, NEW U, Queued(d, x), Keyed(x, p, d, U)
  PROVE  Keyed(y, p, d, U)
<1>1. PICK m, n, D, r : m = x.sm /\ n = y.sm /\ D = Downward(d \o x.out) /\ r = x.rand  OBVIOUS
<1>2. SmOK(m) /\ SmShape(m) /\ Station(m, c, r) /\ SmTyped(m) /\ r \in Nat
      /\ XShape(x) /\ Agreed(m, p, D, U, r) /\ ApKeys(m, r) /\ KeyOK(m, r) /\ m.ctr \in Nat
      /\ m.ANonce \in Nat /\ m.ANonce < r /\ m.valid \subseteq Nat
  BY <1>1, GivenFacts
<1>3. m.rx # "pairwise" /\ m.update_snonce = FALSE  BY <1>1, <1>2, PtkMoves DEF None
<1>4. m.requests = {} /\ m.ptk \in {"PTKCALCNEGOTIATING2", "PTKINITNEGOTIATING"}
  BY <1>1, <1>2, PtkTargets
<1>5. m.PTK_valid = TRUE /\ Armed(m)  BY <1>2, <1>4 DEF ApKeys, Armed, Negotiating
<1>6. PICK z : z = [x EXCEPT !.sm = [x.sm EXCEPT
            !.ptk = "PTKINITNEGOTIATING", !.TimeoutEvt = FALSE, !.TimeoutCtr = @ + 1]]
  OBVIOUS
<1>7. XShape(z) /\ z.rand = r /\ z.out = x.out /\ z.done = x.done
      /\ z.sm = [m EXCEPT !.ptk = "PTKINITNEGOTIATING", !.TimeoutEvt = FALSE,
                          !.TimeoutCtr = @ + 1]
  BY <1>1, <1>2, <1>6 DEF XShape, SmShape
<1>8. PICK k : k = z.sm  OBVIOUS
<1>9. /\ SmShape(k) /\ k.ptk = "PTKINITNEGOTIATING" /\ k.requests = m.requests
      /\ Memory(m, k) /\ RxPart(m, k) /\ k.ctr = m.ctr /\ k.valid = m.valid
      /\ k.GUpdateStationKeys = m.GUpdateStationKeys /\ k.TimeoutCtr = m.TimeoutCtr + 1
  <2>1. k = [m EXCEPT !.ptk = "PTKINITNEGOTIATING", !.TimeoutEvt = FALSE,
                      !.TimeoutCtr = @ + 1]
    BY <1>7, <1>8
  <2> QED BY <1>2, <2>1 DEF SmShape, RxPart, Memory, SameSecrets
<1>10. \A w : /\ w.ptk = "PTKINITNEGOTIATING" /\ w.requests = m.requests
              /\ Memory(m, w) /\ RxPart(m, w) /\ w.ctr \in w.valid
              /\ w.ctr \in Nat /\ m.ctr <= w.ctr
              => /\ Armed(w) /\ ~Candidate(w) /\ ~Accepted(w) /\ ApKeys(w, r)
                 /\ ToDerive(w, r)
  <2> SUFFICES ASSUME NEW w, w.ptk = "PTKINITNEGOTIATING", w.requests = m.requests,
                      Memory(m, w), RxPart(m, w), w.ctr \in w.valid,
                      w.ctr \in Nat, m.ctr <= w.ctr
               PROVE  /\ Armed(w) /\ ~Candidate(w) /\ ~Accepted(w) /\ ApKeys(w, r)
                      /\ ToDerive(w, r)
    OBVIOUS
  <2>1. Armed(w) /\ ~Candidate(w) /\ ~Accepted(w)
    BY <1>3, <1>5 DEF Armed, Negotiating, Candidate, Accepted, Memory, SameSecrets, RxPart
  <2>2. ApKeys(w, r)
    BY <1>2, <1>3, <1>4, <1>5 DEF ApKeys, Memory, SameSecrets, RxPart, HasAlt, Negotiating
  <2> QED BY <2>1, <2>2 DEF ToDerive
<1>11. CASE y = z /\ k.TimeoutCtr > PairwiseUpdateCount
  <2>1. m.ptk = "PTKINITNEGOTIATING"
    BY <1>2, <1>4, <1>9, <1>11, WpaAssumption DEF Station, TriesOK
  <2>2. m.ctr \in m.valid  BY <1>2, <1>3, <1>5, <2>1 DEF ApKeys
  <2>3. /\ Armed(k) /\ ~Candidate(k) /\ ~Accepted(k) /\ ApKeys(k, r) /\ ToDerive(k, r)
    BY <1>2, <1>9, <1>10, <2>2
  <2>4. Alike(m, k)
    BY <1>4, <1>5, <1>9, <2>1, <2>3 DEF Alike, Memory, RxPart, Negotiating
  <2>5. Agreed(k, p, D, U, r)  BY <1>2, <2>3, <2>4, AlikeAgreed
  <2> QED BY <1>1, <1>7, <1>8, <1>11, <2>5 DEF Keyed
<1>12. CASE \E e : y = Send(z, "3/4", e)
  <2>1. XOK(z)  BY <1>2, <1>7, <1>8, <1>9 DEF Given, XOK, SmOK
  <2>2. NextSent(k, n) /\ y.rand = r /\ \E f : y.out = Append(z.out, f) /\ NextFrame(f, k, "3/4")
    <3>1. z.sm.ctr \in Nat  BY <1>2, <1>8, <1>9
    <3>2. PICK e, g : g = "3/4" /\ y = Send(z, g, e)  BY <1>12
    <3>3. k = z.sm /\ n = y.sm /\ z.sm.PTK_valid \in BOOLEAN
      BY <1>1, <1>5, <1>8, <1>9 DEF Memory, SameSecrets
    <3>4. /\ NextSent(k, n) /\ y.rand = z.rand
          /\ \/ y.out = z.out /\ NoFrame(k, g)
             \/ \E f : y.out = Append(z.out, f) /\ NextFrame(f, k, g)
      BY <2>1, <3>1, <3>2, <3>3, SendKeys
    <3> QED BY <1>5, <1>7, <1>9, <3>2, <3>4 DEF NoFrame, Memory, SameSecrets
  <2>3. PICK f : y.out = Append(x.out, f) /\ NextFrame(f, k, "3/4")  BY <1>7, <2>2
  <2>4. PICK g : g = Core(f)  OBVIOUS
  <2>5. g.msg = "3/4" /\ g.mic = m.PTK /\ g.rc = m.ctr + 1 /\ f.msg # "deauth"
    BY <1>9, <2>3, <2>4, CoreOrder DEF NextFrame, Memory, SameSecrets
  <2>6. /\ n.ptk = "PTKINITNEGOTIATING" /\ n.requests = m.requests
        /\ Memory(m, n) /\ RxPart(m, n) /\ n.ctr = m.ctr + 1 /\ n.ctr \in n.valid
        /\ n.valid \subseteq m.valid \cup {m.ctr + 1}
    BY <1>9, <2>2 DEF NextSent, Memory, SameSecrets, RxPart
  <2>7. Armed(n) /\ ~Candidate(n) /\ ~Accepted(n) /\ ApKeys(n, r)
    <3>1. n.ctr \in Nat /\ m.ctr <= n.ctr  BY <1>2, <2>6
    <3> QED BY <1>10, <2>6, <3>1
  <2>8. Initiated(m, n)
    BY <1>3, <1>4, <1>5, <2>6, <2>7 DEF Initiated, Memory, SameSecrets, RxPart, Negotiating
  <2>9. "ReAuthentication" \notin m.requests  BY <1>4
  <2>10. Agreed(n, p, D \cup {g}, U, r)
    BY <1>2, <2>5, <2>7, <2>8, <2>9, InitiatedAgreed
  <2>11. Newest(g, p, D, U)
    <3>1. An(g) = m.ANonce /\ Links(p, D, U, r) /\ Recent(m, p, D, U)
      BY <1>2, <1>5, <2>5 DEF An, Agreed, ApKeys
    <3>2. 0 < m.ANonce  BY <1>2, <1>5 DEF KeyOK
    <3> QED BY <1>2, <2>5, <2>9, <3>1, <3>2, NextNewest
  <2>12. Agreed(y.sm, p, D \cup {Core(f)}, U, y.rand) /\ Newest(Core(f), p, D, U)
    BY <1>1, <2>2, <2>4, <2>10, <2>11
  <2>13. y.out = Append(x.out, f) /\ f.msg # "deauth" /\ D = Downward(d \o x.out)
    BY <1>1, <2>3, <2>5
  <2> QED BY <2>12, <2>13, SentKeyed
<1> QED BY <1>6, <1>8, <1>11, <1>12 DEF PTKINITNEGOTIATING

(* PTKINITDONE.                                                            *)
LEMMA PtkinitdoneKeyed ==
  ASSUME NEW x, NEW c, Given(x, c), PtkTarget(x.sm) = "PTKINITDONE",
         NEW ok, NEW y, y = PTKINITDONE(x, ok),
         NEW p, NEW d, NEW U, Queued(d, x), Keyed(x, p, d, U)
  PROVE  Keyed(y, p, d, U)
<1>1. PICK m, n, D, r : m = x.sm /\ n = y.sm /\ D = Downward(d \o x.out) /\ r = x.rand  OBVIOUS
<1>2. SmOK(m) /\ SmShape(m) /\ Station(m, c, r) /\ SmTyped(m) /\ r \in Nat
      /\ XShape(x) /\ Agreed(m, p, D, U, r) /\ ApKeys(m, r) /\ m.ctr \in Nat
  BY <1>1, GivenFacts
<1>3. /\ m.requests = {} /\ m.ptk = "PTKINITNEGOTIATING" /\ m.update_snonce = FALSE
      /\ m.rx = "pairwise" /\ m.MICVerified = TRUE
  BY <1>1, <1>2, PtkTargets
<1>4. m.valid = {}  BY <1>2, <1>3 DEF Station, RxOK
<1>5. m.PTK_valid = TRUE /\ Armed(m) /\ Accepted(m)
  BY <1>2, <1>3 DEF ApKeys, Armed, Negotiating, Accepted
<1>6. PICK z : z = [x EXCEPT !.sm.ptk = "PTKINITDONE", !.sm.rx = "none"]
  OBVIOUS
<1>7. XShape(z) /\ z.rand = r /\ z.out = x.out /\ z.done = x.done
      /\ z.sm = [m EXCEPT !.ptk = "PTKINITDONE", !.rx = "none"]
  BY <1>1, <1>2, <1>6 DEF XShape
<1>8. PICK k : k = z.sm  OBVIOUS
<1>9. /\ SmShape(k) /\ k.ptk = "PTKINITDONE" /\ k.requests = m.requests /\ k.rx = "none"
      /\ Memory(m, k) /\ k.ctr = m.ctr /\ k.valid = m.valid
      /\ k.update_snonce = m.update_snonce
      /\ k.GUpdateStationKeys = m.GUpdateStationKeys
  <2>1. k = [m EXCEPT !.ptk = "PTKINITDONE", !.rx = "none"]  BY <1>7, <1>8
  <2> QED BY <1>2, <2>1 DEF SmShape, Memory, SameSecrets
<1>10. XOK(z)  BY <1>2, <1>7, <1>8, <1>9 DEF Given, XOK, SmOK
<1>11. CASE ~ok
  <2>1. y = wpa_sta_disconnect(z)  BY <1>6, <1>11 DEF PTKINITDONE
  <2>2. Queued(d, z) /\ InOrder(d \o z.out) /\ D = Downward(d \o z.out) /\ z.rand \in Nat
        /\ Agreed(m, p, D, U, z.rand)
    BY <1>1, <1>2, <1>7 DEF Queued, Keyed
  <2>3. /\ z.sm.rx = "none" /\ z.sm.rx \in {m.rx, "none"} /\ z.sm.requests \subseteq m.requests
        /\ z.sm.ANonce = m.ANonce /\ z.sm.alt_SNonce = m.alt_SNonce /\ z.sm.valid = m.valid
        /\ z.sm.ctr = m.ctr /\ z.sm.ptk = "PTKINITDONE"
        /\ "ReAuthentication" \in m.requests => "ReAuthentication" \in z.sm.requests
    BY <1>8, <1>9 DEF Memory, SameSecrets
  <2> QED BY <1>2, <1>4, <1>10, <2>1, <2>2, <2>3, StaDisconnectKeyed
<1>12. CASE ok
  <2>1. /\ y.rand = r /\ y.out = x.out
        /\ n = [k EXCEPT !.key = k.PTK, !.rekey = TRUE, !.has_GTK = TRUE]
    <3>1. y = [z EXCEPT !.sm = [z.sm EXCEPT !.key = z.sm.PTK, !.rekey = TRUE, !.has_GTK = TRUE]]
      BY <1>6, <1>12 DEF PTKINITDONE
    <3>2. y.rand = z.rand /\ y.out = z.out
          /\ y.sm = [z.sm EXCEPT !.key = z.sm.PTK, !.rekey = TRUE, !.has_GTK = TRUE]
      BY <1>7, <3>1 DEF XShape
    <3> QED BY <1>1, <1>7, <1>8, <3>2
  <2>2. /\ n.ANonce = k.ANonce /\ n.ctr = k.ctr /\ n.valid = k.valid /\ n.requests = k.requests
        /\ n.ptk = k.ptk /\ n.rx = k.rx /\ n.PTK = k.PTK /\ n.key = k.PTK
        /\ n.PTK_valid = k.PTK_valid /\ n.alt_SNonce = k.alt_SNonce /\ n.alt_rc = k.alt_rc
    BY <1>9, <2>1 DEF SmShape
  <2>3. ~Candidate(n) /\ ~Armed(n)  BY <1>9, <2>2 DEF Candidate, Armed, Negotiating
  <2>4. Done(m, n)  BY <1>4, <1>5, <1>9, <2>2, <2>3 DEF Done, Memory, SameSecrets
  <2>5. ApKeys(n, r)
    BY <1>2, <1>3, <1>5, <1>9, <2>2, <2>3 DEF ApKeys, Memory, SameSecrets
  <2> QED BY <1>1, <1>2, <2>1, <2>4, <2>5, DoneAgreed DEF Keyed
<1> QED BY <1>11, <1>12

(* A round of WPA_PTK.                                                     *)
LEMMA PtkRoundKeyed ==
  ASSUME NEW x, NEW c, Given(x, c), NEW gtk, NEW ok, NEW y, y = PtkRound(x, gtk, ok),
         NEW p, NEW d, NEW U, Queued(d, x), Keyed(x, p, d, U)
  PROVE  Keyed(y, p, d, U)
<1>1. PICK t : t = PtkTarget(x.sm) /\ y = EnterPtk(x, t, gtk, ok)  BY DEF PtkRound
<1>2. CASE t = "INITIALIZE"  BY <1>1, <1>2, InitializeKeyed DEF EnterPtk
<1>3. CASE t = "DISCONNECT"  BY <1>1, <1>3, DisconnectKeyed DEF EnterPtk
<1>4. CASE t = "DISCONNECTED"  BY <1>1, <1>4, DisconnectedKeyed DEF EnterPtk
<1>5. CASE t = "AUTHENTICATION"  BY <1>1, <1>5, AuthenticationKeyed DEF EnterPtk
<1>6. CASE t = "AUTHENTICATION2"  BY <1>1, <1>6, Authentication2Keyed DEF EnterPtk
<1>7. CASE t = "INITPSK"  BY <1>1, <1>7, InitpskKeyed DEF EnterPtk
<1>8. CASE t = "PTKSTART"  BY <1>1, <1>8, PtkstartKeyed DEF EnterPtk
<1>9. CASE t = "PTKCALCNEGOTIATING"  BY <1>1, <1>9, PtkcalcKeyed DEF EnterPtk
<1>10. CASE t = "PTKCALCNEGOTIATING2"  BY <1>1, <1>10, Ptkcalc2Keyed DEF EnterPtk
<1>11. CASE t = "PTKINITNEGOTIATING"  BY <1>1, <1>11, PtkinitKeyed DEF EnterPtk
<1>12. CASE t = "PTKINITDONE"  BY <1>1, <1>12, PtkinitdoneKeyed DEF EnterPtk
<1>13. CASE t \notin {"INITIALIZE", "DISCONNECT", "DISCONNECTED", "AUTHENTICATION",
                      "AUTHENTICATION2", "INITPSK", "PTKSTART", "PTKCALCNEGOTIATING",
                      "PTKCALCNEGOTIATING2", "PTKINITNEGOTIATING", "PTKINITDONE"}
  <2>1. y = x  BY <1>1, <1>13 DEF EnterPtk
  <2> QED BY <2>1
<1> QED BY <1>2, <1>3, <1>4, <1>5, <1>6, <1>7, <1>8, <1>9, <1>10, <1>11, <1>12, <1>13

-----------------------------------------------------------------------------
(* The states of WPA_PTK_GROUP.                                            *)

(* Nothing of the pairwise handshake changes, but that the station may be  *)
(* disconnected.                                                           *)
Unmoved(m, n) ==
  /\ Memory(m, n) /\ n.ctr = m.ctr /\ n.valid = m.valid /\ n.ptk = m.ptk
  /\ n.MICVerified \in {m.MICVerified, FALSE} /\ n.update_snonce = m.update_snonce
  /\ m.rx # "pairwise" /\ n.rx # "pairwise"
  /\ n.requests \in {m.requests, m.requests \cup {"Disconnect"}}

(* A record that is not moved on stays in agreement.                       *)
LEMMA UnmovedAgreed ==
  ASSUME NEW m, NEW p, NEW D, NEW U, NEW r, Agreed(m, p, D, U, r), m.ctr \in Nat,
         NEW n, Unmoved(m, n)
  PROVE  Agreed(n, p, D, U, r)
<1>1. ~Candidate(n)  BY DEF Candidate, Unmoved
<1>2. Armed(n) => Armed(m)  BY DEF Armed, Negotiating, Unmoved, Memory, SameSecrets
<1>3. Accepted(n) => Accepted(m)  BY DEF Accepted, Unmoved, Memory, SameSecrets
<1>4. Alike(m, n)  BY <1>1, <1>2, <1>3 DEF Alike, Memory, Unmoved
<1>5. ToDerive(n, r)  BY <1>1 DEF ToDerive
<1>6. ApKeys(m, r)  BY DEF Agreed, Tied
<1>7. ApKeys(n, r)
  <2>1. n.PTK_valid = TRUE =>
          /\ IsKey(n.PTK, r) /\ n.PTK[1] = PSK /\ n.PTK[2] = n.ANonce
          /\ n.ptk \in Negotiating \cup {"PTKSTART", "PTKINITDONE"}
          /\ n.requests \subseteq {"Disconnect"}
    BY <1>6 DEF ApKeys, Unmoved, Memory, SameSecrets
  <2>2. n.requests = {} /\ ( \/ n.ptk \in {"PTKCALCNEGOTIATING2", "PTKINITNEGOTIATING", "PTKINITDONE"}
                             \/ n.ptk = "PTKCALCNEGOTIATING" /\ n.MICVerified = TRUE )
          => n.PTK_valid = TRUE
    <3>1. n.requests = {} => m.requests = {}  BY DEF Unmoved
    <3> QED BY <1>6, <3>1 DEF ApKeys, Unmoved, Memory, SameSecrets
  <2>3. /\ Armed(n) /\ n.rx # "pairwise" /\ (n.ptk = "PTKCALCNEGOTIATING" => n.MICVerified = TRUE)
             => n.SNonce \in {n.PTK[3], NoNonce}
        /\ n.ptk = "PTKSTART" => n.alt_SNonce = NoNonce
        /\ Armed(n) /\ n.ptk = "PTKINITNEGOTIATING" /\ n.rx # "pairwise" => n.ctr \in n.valid
        /\ Armed(n) /\ HasAlt(n) => n.alt_rc <= n.ctr /\ n.alt_rc \in Nat
        /\ n.alt_SNonce \in Nat /\ n.alt_SNonce < r
    BY <1>2, <1>6 DEF ApKeys, Unmoved, Memory, SameSecrets, HasAlt
  <2> QED BY <2>1, <2>2, <2>3 DEF ApKeys
<1> QED BY <1>4, <1>5, <1>7, AlikeAgreed

(* IDLE.                                                                   *)
LEMMA IdleKeyed ==
  ASSUME NEW x, NEW c, Given(x, c), Calm(x.sm), NEW y, y = GROUP_IDLE(x),
         NEW p, NEW d, NEW U, Queued(d, x), Keyed(x, p, d, U)
  PROVE  Keyed(y, p, d, U)
<1>1. PICK m, n, D : m = x.sm /\ n = y.sm /\ D = Downward(d \o x.out)  OBVIOUS
<1>2. SmShape(m) /\ XShape(x) /\ Agreed(m, p, D, U, x.rand) /\ m.ctr \in Nat
  BY <1>1, GivenFacts
<1>3. /\ n = [m EXCEPT !.grp = "IDLE", !.GTimeoutCtr = 0, !.PtkGroupInit = FALSE]
      /\ y.rand = x.rand /\ y.out = x.out
  BY <1>1, <1>2 DEF XShape, SmShape, GROUP_IDLE
<1>4. m.rx # "pairwise"  BY <1>1 DEF Calm
<1>5. Unmoved(m, n)
  <2>1. Memory(m, n)  BY <1>2, <1>3 DEF SmShape, Memory, SameSecrets
  <2> QED BY <1>2, <1>3, <1>4, <2>1 DEF SmShape, Unmoved
<1> QED BY <1>1, <1>2, <1>3, <1>5, UnmovedAgreed DEF Keyed

(* REKEYESTABLISHED.                                                       *)
LEMMA EstablishedKeyed ==
  ASSUME NEW x, NEW c, Given(x, c), Calm(x.sm), NEW y, y = REKEYESTABLISHED(x),
         NEW p, NEW d, NEW U, Queued(d, x), Keyed(x, p, d, U)
  PROVE  Keyed(y, p, d, U)
<1>1. PICK m, n, D : m = x.sm /\ n = y.sm /\ D = Downward(d \o x.out)  OBVIOUS
<1>2. SmShape(m) /\ XShape(x) /\ Agreed(m, p, D, U, x.rand) /\ m.ctr \in Nat
  BY <1>1, GivenFacts
<1>3. PICK k : k = [m EXCEPT !.GUpdateStationKeys = FALSE]  OBVIOUS
<1>4. /\ n = [k EXCEPT !.grp = "REKEYESTABLISHED", !.rx = "none", !.GTimeoutCtr = 0,
                       !.has_GTK = TRUE]
      /\ y.rand = x.rand /\ y.out = x.out
  <2>1. PICK z : z = Discount(x)  OBVIOUS
  <2>2. XShape(z) /\ z.sm = k /\ z.rand = x.rand /\ z.out = x.out
    BY <1>1, <1>2, <1>3, <2>1 DEF XShape, Discount
  <2> QED BY <1>1, <2>1, <2>2 DEF XShape, REKEYESTABLISHED
<1>5. m.rx # "pairwise"  BY <1>1 DEF Calm
<1>6. SmShape(k) /\ Unmoved(m, k)
  <2>1. SmShape(k)  BY <1>2, <1>3 DEF SmShape
  <2>2. Memory(m, k)  BY <1>2, <1>3 DEF SmShape, Memory, SameSecrets
  <2> QED BY <1>2, <1>3, <1>5, <2>1, <2>2 DEF SmShape, Unmoved
<1>7. Unmoved(k, n)
  <2>1. Memory(k, n)  BY <1>4, <1>6 DEF SmShape, Memory, SameSecrets
  <2> QED BY <1>4, <1>6, <2>1 DEF SmShape, Unmoved
<1>8. Agreed(k, p, D, U, x.rand) /\ k.ctr \in Nat
  BY <1>2, <1>6, UnmovedAgreed DEF Unmoved
<1> QED BY <1>1, <1>4, <1>7, <1>8, UnmovedAgreed DEF Keyed

(* KEYERROR.                                                               *)
LEMMA KeyerrorKeyed ==
  ASSUME NEW x, NEW c, Given(x, c), Calm(x.sm), NEW y, y = KEYERROR(x),
         NEW p, NEW d, NEW U, Queued(d, x), Keyed(x, p, d, U)
  PROVE  Keyed(y, p, d, U)
<1>1. PICK m, n, D : m = x.sm /\ n = y.sm /\ D = Downward(d \o x.out)  OBVIOUS
<1>2. SmShape(m) /\ XShape(x) /\ Agreed(m, p, D, U, x.rand) /\ m.ctr \in Nat
  BY <1>1, GivenFacts
<1>3. PICK k : k = [m EXCEPT !.GUpdateStationKeys = FALSE]  OBVIOUS
<1>4. m.rx # "pairwise"  BY <1>1 DEF Calm
<1>5. SmShape(k) /\ Unmoved(m, k)
  <2>1. SmShape(k)  BY <1>2, <1>3 DEF SmShape
  <2>2. Memory(m, k)  BY <1>2, <1>3 DEF SmShape, Memory, SameSecrets
  <2> QED BY <1>2, <1>3, <1>4, <2>1, <2>2 DEF SmShape, Unmoved
<1>6. /\ n = [k EXCEPT !.grp = "KEYERROR", !.requests = @ \cup {"Disconnect"}]
      /\ y.rand = x.rand /\ y.out = x.out
  <2>1. PICK z : z = Discount(x)  OBVIOUS
  <2>2. XShape(z) /\ z.sm = k /\ z.rand = x.rand /\ z.out = x.out
    BY <1>1, <1>2, <1>3, <2>1 DEF XShape, Discount
  <2> QED BY <1>1, <1>5, <2>1, <2>2 DEF XShape, SmShape, KEYERROR
<1>7. Unmoved(k, n)
  <2>1. Memory(k, n)  BY <1>5, <1>6 DEF SmShape, Memory, SameSecrets
  <2> QED BY <1>5, <1>6, <2>1 DEF SmShape, Unmoved
<1>8. Agreed(k, p, D, U, x.rand) /\ k.ctr \in Nat
  BY <1>2, <1>5, UnmovedAgreed DEF Unmoved
<1> QED BY <1>1, <1>6, <1>7, <1>8, UnmovedAgreed DEF Keyed

(* REKEYNEGOTIATING.                                                       *)
LEMMA RekeyKeyed ==
  ASSUME NEW x, NEW c, Given(x, c), Calm(x.sm), GroupTarget(x.sm) = "REKEYNEGOTIATING",
         NEW gtk, NEW y, y = REKEYNEGOTIATING(x, gtk),
         NEW p, NEW d, NEW U, Queued(d, x), Keyed(x, p, d, U)
  PROVE  Keyed(y, p, d, U)
<1>1. PICK m, n, D, r : m = x.sm /\ n = y.sm /\ D = Downward(d \o x.out) /\ r = x.rand  OBVIOUS
<1>2. SmOK(m) /\ SmShape(m) /\ Station(m, c, r) /\ SmTyped(m) /\ r \in Nat
      /\ XShape(x) /\ Agreed(m, p, D, U, r) /\ ApKeys(m, r) /\ KeyOK(m, r) /\ m.ctr \in Nat
      /\ m.ANonce \in Nat /\ m.ANonce < r /\ m.valid \subseteq Nat
  BY <1>1, GivenFacts
<1>3. m.rx # "pairwise"  BY <1>1 DEF Calm
<1>4. m.PTK_valid = TRUE => m.ptk = "PTKINITDONE" /\ "ReAuthentication" \notin m.requests
  <2>1. \/ m.grp = "IDLE" /\ m.GUpdateStationKeys = TRUE
        \/ m.grp = "REKEYNEGOTIATING" /\ m.TimeoutEvt = TRUE
    BY <1>1, <1>2, GroupTargets DEF SmTyped, SmOK
  <2>2. m.ptk = "PTKINITDONE" \/ m.ptk \notin Handshake
    BY <1>1, <1>2, <2>1 DEF Station, GrpOK, Calm
  <2> QED BY <1>2, <2>2 DEF ApKeys, Handshake, Awaiting, Negotiating
<1>5. PICK z : z = [x EXCEPT !.sm.grp = "REKEYNEGOTIATING", !.sm.GTimeoutCtr = @ + 1]
  OBVIOUS
<1>6. XShape(z) /\ z.rand = r /\ z.out = x.out /\ z.done = x.done
      /\ z.sm = [m EXCEPT !.grp = "REKEYNEGOTIATING", !.GTimeoutCtr = @ + 1]
  BY <1>1, <1>2, <1>5 DEF XShape
<1>7. PICK k : k = z.sm  OBVIOUS
<1>8. SmShape(k) /\ Unmoved(m, k) /\ k.GUpdateStationKeys = m.GUpdateStationKeys
      /\ k.requests = m.requests
  <2>1. k = [m EXCEPT !.grp = "REKEYNEGOTIATING", !.GTimeoutCtr = @ + 1]  BY <1>6, <1>7
  <2>2. SmShape(k) /\ k.GUpdateStationKeys = m.GUpdateStationKeys /\ k.requests = m.requests
    BY <1>2, <2>1 DEF SmShape
  <2>3. Memory(m, k)  BY <1>2, <2>1 DEF SmShape, Memory, SameSecrets
  <2> QED BY <1>2, <1>3, <2>1, <2>2, <2>3 DEF SmShape, Unmoved
<1>9. CASE y = z
  <2>1. Agreed(k, p, D, U, r)  BY <1>2, <1>8, UnmovedAgreed
  <2> QED BY <1>1, <1>6, <1>7, <1>9, <2>1 DEF Keyed
<1>10. CASE y = Send([z EXCEPT !.sm.TimeoutEvt = FALSE], "1/2", {gtk})
  <2>1. PICK u, e, g : u = [z EXCEPT !.sm.TimeoutEvt = FALSE] /\ e = {gtk} /\ g = "1/2"  OBVIOUS
  <2>2. PICK l : l = u.sm  OBVIOUS
  <2>3. l = [k EXCEPT !.TimeoutEvt = FALSE] /\ XShape(u)
        /\ u.rand = z.rand /\ u.out = z.out /\ u.done = z.done
    BY <1>6, <1>7, <1>8, <2>1, <2>2 DEF XShape, SmShape
  <2>4. SmShape(l) /\ Unmoved(k, l) /\ l.GUpdateStationKeys = k.GUpdateStationKeys
        /\ l.requests = k.requests
    <3>1. SmShape(l) /\ l.GUpdateStationKeys = k.GUpdateStationKeys /\ l.requests = k.requests
      BY <1>8, <2>3 DEF SmShape
    <3>2. Memory(k, l)  BY <1>8, <2>3 DEF SmShape, Memory, SameSecrets
    <3> QED BY <1>8, <2>3, <3>1, <3>2 DEF SmShape, Unmoved
  <2>5. XOK(u)
    BY <1>2, <1>6, <1>8, <2>2, <2>3, <2>4 DEF Given, XOK, SmOK
  <2>6. Memory(m, l) /\ l.ptk = m.ptk /\ l.requests = m.requests /\ l.ctr = m.ctr
        /\ l.valid = m.valid /\ l.rx # "pairwise"
    BY <1>8, <2>4 DEF Unmoved, Memory, SameSecrets
  <2>7. u.sm.ctr \in Nat /\ u.sm.PTK_valid \in BOOLEAN /\ l = u.sm /\ n = y.sm
        /\ y = Send(u, g, e)
    BY <1>1, <1>2, <1>10, <2>1, <2>2, <2>6 DEF Memory, SameSecrets, SmTyped, SmFlags
  <2>8. /\ NextSent(l, n) /\ y.rand = u.rand
        /\ \/ y.out = u.out /\ NoFrame(l, g)
           \/ \E f : y.out = Append(u.out, f) /\ NextFrame(f, l, g)
    BY <2>5, <2>7, SendKeys
  <2>9. y.rand = r /\ u.out = x.out  BY <1>6, <2>3, <2>8
  <2>10. /\ Memory(m, n) /\ n.ptk = m.ptk /\ n.requests = m.requests /\ n.rx # "pairwise"
         /\ n.ctr = m.ctr + 1 /\ n.valid \subseteq m.valid \cup {m.ctr + 1}
         /\ n.MICVerified = l.MICVerified
    BY <2>6, <2>8 DEF NextSent, Memory, SameSecrets, RxPart
  <2>11. ~Armed(n) /\ ~Candidate(n)
    BY <1>4, <2>10 DEF Armed, Negotiating, Candidate, Memory, SameSecrets
  <2>12. CountsOn(m, n)  BY <2>10, <2>11 DEF CountsOn
  <2>13. ApKeys(n, r)
    <3>1. n.MICVerified \in {m.MICVerified, FALSE}
      BY <1>2, <1>8, <2>4, <2>10 DEF Unmoved, SmTyped, SmFlags
    <3> QED BY <1>2, <2>10, <2>11, <3>1 DEF ApKeys, Memory, SameSecrets
  <2>14. CASE y.out = u.out /\ NoFrame(l, g)
    <3>1. m.PTK_valid = FALSE  BY <2>6, <2>14 DEF NoFrame, Memory, SameSecrets
    <3>2. Agreed(n, p, D, U, r)  BY <1>2, <2>12, <2>13, <3>1, UnsentAgreed
    <3> QED BY <1>1, <2>9, <2>14, <3>2 DEF Keyed
  <2>15. CASE \E f : y.out = Append(u.out, f) /\ NextFrame(f, l, g)
    <3>1. PICK f : y.out = Append(x.out, f) /\ NextFrame(f, l, g)  BY <2>9, <2>15
    <3>2. PICK h : h = Core(f)  OBVIOUS
    <3>3. h.msg = "1/2" /\ h.mic = m.PTK /\ h.rc = m.ctr + 1 /\ f.msg # "deauth"
          /\ m.PTK_valid = TRUE
      BY <2>1, <2>6, <3>1, <3>2, CoreOrder DEF NextFrame, Memory, SameSecrets
    <3>4. Agreed(n, p, D \cup {h}, U, r)
      BY <1>2, <1>4, <2>12, <2>13, <3>3, GroupSentAgreed
    <3>5. Newest(h, p, D, U)
      <4>1. An(h) = m.ANonce /\ Links(p, D, U, r) /\ Recent(m, p, D, U)
        BY <1>2, <3>3 DEF An, Agreed, ApKeys
      <4>2. 0 < m.ANonce  BY <1>2, <3>3 DEF KeyOK
      <4> QED BY <1>2, <1>4, <3>3, <4>1, <4>2, NextNewest
    <3>6. Agreed(y.sm, p, D \cup {Core(f)}, U, y.rand) /\ Newest(Core(f), p, D, U)
      BY <1>1, <2>9, <3>2, <3>4, <3>5
    <3>7. y.out = Append(x.out, f) /\ f.msg # "deauth" /\ D = Downward(d \o x.out)
      BY <1>1, <3>1, <3>3
    <3> QED BY <3>6, <3>7, SentKeyed
  <2> QED BY <2>8, <2>14, <2>15
<1> QED BY <1>5, <1>9, <1>10 DEF REKEYNEGOTIATING

(* A round of WPA_PTK_GROUP, and one of both machines.                     *)
LEMMA GroupRoundKeyed ==
  ASSUME NEW x, NEW c, Given(x, c), Calm(x.sm), NEW gtk, NEW y, y = GroupRound(x, gtk),
         NEW p, NEW d, NEW U, Queued(d, x), Keyed(x, p, d, U)
  PROVE  Keyed(y, p, d, U)
<1>1. PICK t : t = GroupTarget(x.sm) /\ y = EnterGroup(x, t, gtk)  BY DEF GroupRound
<1>2. CASE t = "IDLE"  BY <1>1, <1>2, IdleKeyed DEF EnterGroup
<1>3. CASE t = "REKEYNEGOTIATING"  BY <1>1, <1>3, RekeyKeyed DEF EnterGroup
<1>4. CASE t = "REKEYESTABLISHED"  BY <1>1, <1>4, EstablishedKeyed DEF EnterGroup
<1>5. CASE t = "KEYERROR"  BY <1>1, <1>5, KeyerrorKeyed DEF EnterGroup
<1>6. CASE t \notin {"IDLE", "REKEYNEGOTIATING", "REKEYESTABLISHED", "KEYERROR"}
  <2>1. y = x  BY <1>1, <1>6 DEF EnterGroup
  <2> QED BY <2>1
<1> QED BY <1>2, <1>3, <1>4, <1>5, <1>6

(* One round of both state machines keeps the agreement.                   *)
LEMMA RoundKeyed ==
  ASSUME NEW x, NEW c, Given(x, c), NEW gtk, NEW ok,
         NEW y, y = PtkRound(x, gtk, ok), NEW z, z = GroupRound(y, gtk),
         NEW p, NEW d, NEW U, NEW S, d \in Seq(S), Keyed(x, p, d, U)
  PROVE  Keyed(z, p, d, U) /\ Queued(d, z)
<1>1. PtkMade(x, y, c) \/ PtkMade(x, y, TRUE)  BY PtkRoundMade
<1>2. PICK e : Given(y, e) /\ Calm(y.sm)  BY <1>1 DEF PtkMade, Made
<1>3. \A w, b : Given(w, b) => Queued(d, w)
  <2> SUFFICES ASSUME NEW w, NEW b, Given(w, b) PROVE Queued(d, w)  OBVIOUS
  <2>1. PICK o, T : o = w.out /\ T = Elements(o)  OBVIOUS
  <2>2. o \in Seq(T)  BY <2>1 DEF Given, DownOK
  <2>3. PICK V : V = S \cup T  OBVIOUS
  <2>4. d \in Seq(V) /\ o \in Seq(V)  BY <2>2, <2>3
  <2> QED BY <2>1, <2>4 DEF Queued
<1>4. Keyed(y, p, d, U)  BY <1>3, PtkRoundKeyed
<1>5. GroupMade(y, z, e)  BY <1>2, GroupRoundMade
<1>6. Given(z, e)  BY <1>5 DEF GroupMade, Made
<1>7. Queued(d, y) /\ Queued(d, z)  BY <1>2, <1>3, <1>6
<1>8. Keyed(z, p, d, U)  BY <1>2, <1>4, <1>7, GroupRoundKeyed
<1> QED BY <1>7, <1>8

-----------------------------------------------------------------------------
(* What happens to a station whose machines are at rest.                   *)

(* It is forgotten.                                                        *)
LEMMA NoStationAgreed ==
  ASSUME NEW m, NEW p, NEW D, NEW U, NEW r \in Nat, r > 0, Agreed(m, p, D, U, r)
  PROVE  Agreed(NoStation, p, D, U, r)
<1>1. PICK n : n = NoStation  OBVIOUS
<1>2. /\ n.ANonce = 0 /\ n.PTK_valid = FALSE /\ n.rx = "none" /\ n.update_snonce = FALSE
      /\ n.ptk = "INITIALIZE" /\ n.alt_SNonce = NoNonce
  BY <1>1 DEF NoStation, NoNonce
<1>3. Keyless(n)  BY <1>2 DEF Keyless, Armed, Negotiating, Candidate, Accepted
<1>4. ApKeys(n, r)  BY <1>2, <1>3 DEF Keyless, ApKeys, NoNonce
<1>5. Closes(m, n, r) /\ Keeps(m, n, r)  BY <1>2 DEF Closes, Keeps, Used
<1>6. r <= r /\ n.ANonce \in Nat  BY <1>2
<1>7. Agreed(n, p, D, U, r)  BY <1>3, <1>4, <1>5, <1>6, KeylessAgreed
<1> QED BY <1>1, <1>7

(* It left.                                                                *)
LEMMA DeauthAgreed ==
  ASSUME NEW m, SmOK(m), SmTyped(m), AtEase(m),
         NEW p, NEW D, NEW U, NEW r \in Nat, Agreed(m, p, D, U, r),
         NEW n, n = [EventDeauth(m) EXCEPT !.assoc = FALSE]
  PROVE  Agreed(n, p, D, U, r)
<1>1. m.ctr \in Nat /\ m.requests = {} /\ m.rx # "pairwise" /\ SmShape(m)
  BY DEF SmTyped, SmCounters, AtEase, SmOK
<1>2. PICK k : k = wpa_remove_ptk(m)  OBVIOUS
<1>3. SmShape(k) /\ k.PTK_valid = FALSE /\ k.ANonce = m.ANonce /\ k.alt_SNonce = m.alt_SNonce
      /\ k.valid = m.valid /\ k.ctr = m.ctr /\ k.rx = m.rx /\ k.ptk = m.ptk
      /\ k.requests = m.requests
  BY <1>1, <1>2 DEF SmShape, wpa_remove_ptk
<1>4. n = [[k EXCEPT !.requests = @ \cup {"Deauthentication"}] EXCEPT !.assoc = FALSE]
  BY <1>2 DEF EventDeauth
<1>5. n.PTK_valid = k.PTK_valid /\ n.ANonce = k.ANonce /\ n.alt_SNonce = k.alt_SNonce
      /\ n.valid = k.valid /\ n.ctr = k.ctr /\ n.rx = k.rx /\ n.ptk = k.ptk
      /\ n.requests = {"Deauthentication"}
  <2>1. PICK j : j = [k EXCEPT !.requests = @ \cup {"Deauthentication"}]  OBVIOUS
  <2>2. SmShape(j)  BY <1>3, <2>1 DEF SmShape
  <2>3. /\ j.PTK_valid = k.PTK_valid /\ j.ANonce = k.ANonce /\ j.alt_SNonce = k.alt_SNonce
        /\ j.valid = k.valid /\ j.ctr = k.ctr /\ j.rx = k.rx /\ j.ptk = k.ptk
        /\ j.requests = {"Deauthentication"}
    BY <1>1, <1>3, <2>1 DEF SmShape
  <2>4. n = [j EXCEPT !.assoc = FALSE]  BY <1>4, <2>1
  <2> QED BY <2>2, <2>3, <2>4 DEF SmShape
<1>6. GivenUp(m, n)  BY <1>1, <1>3, <1>5 DEF GivenUp
<1> QED BY <1>6, GivenUpAgreed

(* A new key is asked for.                                                 *)
LEMMA NewPtkAgreed ==
  ASSUME NEW m, SmOK(m), SmTyped(m), AtEase(m),
         NEW p, NEW D, NEW U, NEW r \in Nat, Agreed(m, p, D, U, r),
         NEW n, n = wpa_request_new_ptk(m)
  PROVE  Agreed(n, p, D, U, r)
<1>1. m.ctr \in Nat /\ m.requests = {} /\ m.rx # "pairwise" /\ SmShape(m)
  BY DEF SmTyped, SmCounters, AtEase, SmOK
<1>2. n.PTK_valid = FALSE /\ n.ANonce = m.ANonce /\ n.alt_SNonce = m.alt_SNonce
      /\ n.valid = m.valid /\ n.ctr = m.ctr /\ n.rx = m.rx /\ n.ptk = m.ptk
      /\ n.requests = {"PTK"}
  BY <1>1 DEF SmShape, wpa_request_new_ptk
<1>3. GivenUp(m, n)  BY <1>1, <1>2 DEF GivenUp
<1> QED BY <1>3, GivenUpAgreed

(* It associates again.                                                    *)
LEMMA ReauthAgreed ==
  ASSUME NEW m, SmOK(m), SmTyped(m), AtEase(m),
         NEW p, NEW D, NEW U, NEW r \in Nat, Agreed(m, p, D, U, r),
         NEW x, XOK(x), x.sm = wpa_remove_ptk(m), NEW n, n = EventReauth(x).sm
  PROVE  Agreed(n, p, D, U, r) /\ n.PTK_valid = FALSE
<1>1. m.ctr \in Nat /\ m.requests = {} /\ m.rx # "pairwise" /\ SmShape(m)
  BY DEF SmTyped, SmCounters, AtEase, SmOK
<1>2. PICK k : k = wpa_remove_ptk(m)  OBVIOUS
<1>3. SmShape(k) /\ k.PTK_valid = FALSE /\ k.ANonce = m.ANonce /\ k.alt_SNonce = m.alt_SNonce
      /\ k.valid = m.valid /\ k.ctr = m.ctr /\ k.rx = m.rx /\ k.ptk = m.ptk
      /\ k.requests = m.requests
  BY <1>1, <1>2 DEF SmShape, wpa_remove_ptk
<1>4. PICK y : y = IF k.GUpdateStationKeys
                   THEN [Discount(x) EXCEPT !.sm.PtkGroupInit = TRUE] ELSE x
  OBVIOUS
<1>5. PICK l : l = y.sm  OBVIOUS
<1>6. XShape(y) /\ SmShape(l) /\ l.PTK_valid = FALSE /\ l.ANonce = m.ANonce
      /\ l.alt_SNonce = m.alt_SNonce /\ l.valid = m.valid /\ l.ctr = m.ctr /\ l.rx = m.rx
      /\ l.ptk = m.ptk /\ l.requests = m.requests
  <2>1. CASE k.GUpdateStationKeys
    <3>1. PICK z, j : z = Discount(x) /\ j = [k EXCEPT !.GUpdateStationKeys = FALSE]  OBVIOUS
    <3>2. XShape(z) /\ z.sm = j  BY <1>2, <3>1 DEF XOK, XShape, Discount
    <3>3. SmShape(j) /\ j.PTK_valid = FALSE /\ j.ANonce = m.ANonce
          /\ j.alt_SNonce = m.alt_SNonce /\ j.valid = m.valid /\ j.ctr = m.ctr /\ j.rx = m.rx
          /\ j.ptk = m.ptk /\ j.requests = m.requests
      BY <1>3, <3>1 DEF SmShape
    <3>4. XShape(y) /\ l = [j EXCEPT !.PtkGroupInit = TRUE]
      BY <1>4, <1>5, <2>1, <3>1, <3>2, <3>3 DEF XShape, SmShape
    <3> QED BY <3>3, <3>4 DEF SmShape
  <2>2. CASE ~k.GUpdateStationKeys  BY <1>2, <1>3, <1>4, <1>5, <2>2 DEF XOK
  <2> QED BY <2>1, <2>2
<1>7. n = [wpa_remove_ptk(l) EXCEPT !.requests = @ \cup {"ReAuthentication"}]
  BY <1>2, <1>4, <1>5, <1>6 DEF XShape, EventReauth
<1>8. PICK j : j = wpa_remove_ptk(l)  OBVIOUS
<1>9. SmShape(j) /\ j.PTK_valid = FALSE /\ j.ANonce = m.ANonce
      /\ j.alt_SNonce = m.alt_SNonce /\ j.valid = m.valid /\ j.ctr = m.ctr /\ j.rx = m.rx
      /\ j.ptk = m.ptk /\ j.requests = m.requests
  BY <1>6, <1>8 DEF SmShape, wpa_remove_ptk
<1>10. n.PTK_valid = FALSE /\ n.ANonce = m.ANonce /\ n.alt_SNonce = m.alt_SNonce
       /\ n.valid = m.valid /\ n.ctr = m.ctr /\ n.rx = m.rx /\ n.ptk = m.ptk
       /\ n.requests = {"ReAuthentication"}
  BY <1>1, <1>7, <1>8, <1>9 DEF SmShape
<1>11. GivenUp(m, n)  BY <1>1, <1>10 DEF GivenUp
<1> QED BY <1>10, <1>11, GivenUpAgreed

(* It associates, for the first time or when it was disconnected.          *)
LEMMA AssociatedAgreed ==
  ASSUME NEW m, SmOK(m), SmTyped(m), AtEase(m),
         NEW p, NEW D, NEW U, NEW r \in Nat, Agreed(m, p, D, U, r),
         NEW n, n = [wpa_auth_sta_associated(wpa_remove_ptk(m)) EXCEPT !.assoc = TRUE]
  PROVE  Agreed(n, p, D, U, r) /\ n.PTK_valid = FALSE
<1>1. m.ctr \in Nat /\ m.requests = {} /\ m.rx # "pairwise" /\ SmShape(m)
  BY DEF SmTyped, SmCounters, AtEase, SmOK
<1>2. PICK k : k = wpa_remove_ptk(m)  OBVIOUS
<1>3. SmShape(k) /\ k.PTK_valid = FALSE /\ k.ANonce = m.ANonce /\ k.alt_SNonce = m.alt_SNonce
      /\ k.valid = m.valid /\ k.ctr = m.ctr /\ k.rx = m.rx /\ k.ptk = m.ptk
      /\ k.requests = m.requests
  BY <1>1, <1>2 DEF SmShape, wpa_remove_ptk
<1>4. CASE k.started
  <2>1. n = [[k EXCEPT !.ctr = 0, !.valid = {}, !.requests = @ \cup {"ReAuthentication"}]
             EXCEPT !.assoc = TRUE]
    BY <1>2, <1>4 DEF wpa_auth_sta_associated
  <2>2. n.PTK_valid = FALSE /\ n.ANonce = m.ANonce /\ n.alt_SNonce = m.alt_SNonce
        /\ n.valid = {} /\ n.ctr = 0 /\ n.rx = m.rx /\ n.ptk = m.ptk
        /\ n.requests = {"ReAuthentication"}
    <3>1. PICK j : j = [k EXCEPT !.ctr = 0, !.valid = {}, !.requests = @ \cup {"ReAuthentication"}]
      OBVIOUS
    <3>2. SmShape(j)  BY <1>3, <3>1 DEF SmShape
    <3>3. /\ j.PTK_valid = FALSE /\ j.ANonce = m.ANonce /\ j.alt_SNonce = m.alt_SNonce
          /\ j.valid = {} /\ j.ctr = 0 /\ j.rx = m.rx /\ j.ptk = m.ptk
          /\ j.requests = {"ReAuthentication"}
      BY <1>1, <1>3, <3>1 DEF SmShape
    <3>4. n = [j EXCEPT !.assoc = TRUE]  BY <2>1, <3>1
    <3> QED BY <3>2, <3>3, <3>4 DEF SmShape
  <2>3. GivenUp(m, n)  BY <1>1, <2>2 DEF GivenUp
  <2> QED BY <2>2, <2>3, GivenUpAgreed
<1>5. CASE ~k.started
  <2>1. n = [[k EXCEPT !.started = TRUE, !.requests = @ \cup {"Authentication"}]
             EXCEPT !.assoc = TRUE]
    BY <1>2, <1>5 DEF wpa_auth_sta_associated
  <2>2. n.PTK_valid = FALSE /\ n.ANonce = m.ANonce /\ n.alt_SNonce = m.alt_SNonce
        /\ n.valid = m.valid /\ n.ctr = m.ctr /\ n.rx = m.rx /\ n.ptk = m.ptk
        /\ n.requests = {"Authentication"}
    <3>1. PICK j : j = [k EXCEPT !.started = TRUE, !.requests = @ \cup {"Authentication"}]
      OBVIOUS
    <3>2. SmShape(j)  BY <1>3, <3>1 DEF SmShape
    <3>3. /\ j.PTK_valid = FALSE /\ j.ANonce = m.ANonce /\ j.alt_SNonce = m.alt_SNonce
          /\ j.valid = m.valid /\ j.ctr = m.ctr /\ j.rx = m.rx /\ j.ptk = m.ptk
          /\ j.requests = {"Authentication"}
      BY <1>1, <1>3, <3>1 DEF SmShape
    <3>4. n = [j EXCEPT !.assoc = TRUE]  BY <2>1, <3>1
    <3> QED BY <3>2, <3>3, <3>4 DEF SmShape
  <2>3. GivenUp(m, n)  BY <1>1, <2>2 DEF GivenUp
  <2> QED BY <2>2, <2>3, GivenUpAgreed
<1> QED BY <1>4, <1>5

(* A timeout, a frame that is refused, a group key that is replaced.       *)
LEMMA IndifferentAgreed ==
  ASSUME NEW m, SmOK(m), SmTyped(m), AtEase(m),
         NEW p, NEW D, NEW U, NEW r \in Nat, Agreed(m, p, D, U, r), NEW n,
         \/ n = wpa_send_eapol_timeout(m)
         \/ n = [m EXCEPT !.MICVerified = FALSE]
         \/ \E v : n = [m EXCEPT !.GUpdateStationKeys = v]
  PROVE  Agreed(n, p, D, U, r)
<1>1. m.ctr \in Nat /\ m.requests = {} /\ m.rx # "pairwise" /\ SmShape(m)
  BY DEF SmTyped, SmCounters, AtEase, SmOK
<1>2. n = wpa_send_eapol_timeout(m) => Unmoved(m, n)
  <2> SUFFICES ASSUME n = wpa_send_eapol_timeout(m) PROVE Unmoved(m, n)  OBVIOUS
  <2>1. n = [m EXCEPT !.timers = @ - 1, !.TimeoutEvt = TRUE]
    BY DEF wpa_send_eapol_timeout
  <2>2. Memory(m, n)  BY <1>1, <2>1 DEF SmShape, Memory, SameSecrets
  <2> QED BY <1>1, <2>1, <2>2 DEF SmShape, Unmoved
<1>3. n = [m EXCEPT !.MICVerified = FALSE] => Unmoved(m, n)
  <2> SUFFICES ASSUME n = [m EXCEPT !.MICVerified = FALSE] PROVE Unmoved(m, n)  OBVIOUS
  <2>1. Memory(m, n)  BY <1>1 DEF SmShape, Memory, SameSecrets
  <2> QED BY <1>1, <2>1 DEF SmShape, Unmoved
<1>4. ASSUME NEW v, n = [m EXCEPT !.GUpdateStationKeys = v] PROVE Unmoved(m, n)
  <2>1. Memory(m, n)  BY <1>1, <1>4 DEF SmShape, Memory, SameSecrets
  <2> QED BY <1>1, <1>4, <2>1 DEF SmShape, Unmoved
<1> QED BY <1>1, <1>2, <1>3, <1>4, UnmovedAgreed

-----------------------------------------------------------------------------
(* Frames that reach the authenticator.                                    *)
Taken(m, f, n) ==
  /\ n.ANonce = m.ANonce /\ n.ctr = m.ctr /\ n.ptk = m.ptk /\ n.key = m.key
  /\ n.SNonce = f.nonce /\ n.last_mic = f.mic
TakenAlt(m, f, n) ==
  /\ n.PTK = IF Checked(m, f) /\ AltMic(m, f) THEN AltKey(m) ELSE m.PTK
  /\ n.alt_SNonce = IF SNonceUpdate(m, f) THEN m.SNonce
                    ELSE IF Checked(m, f) /\ AltMic(m, f) THEN NoNonce ELSE m.alt_SNonce
  /\ n.alt_rc = IF SNonceUpdate(m, f) THEN m.ctr ELSE m.alt_rc
TakenPrev(m, f, n) ==
  n.prev = IF f.msg \in Requests THEN m.prev
           ELSE IF f.msg = "2/4" THEN {i \in m.valid : i > f.rc} ELSE {}

(* What wpa_receive does to the nonces and counters of the record.         *)
LEMMA ReceiveKeys ==
  ASSUME NEW m, SmOK(m), NEW f, NEW n, n = wpa_receive(m, f)
  PROVE  Taken(m, f, n) /\ TakenAlt(m, f, n) /\ TakenPrev(m, f, n)
<1>1. SmShape(m)  BY DEF SmOK
<1>2. Taken(m, f, n)  BY <1>1 DEF SmShape, Taken, wpa_receive
<1>3. TakenAlt(m, f, n)  BY <1>1 DEF SmShape, TakenAlt, wpa_receive
<1>4. TakenPrev(m, f, n)  BY <1>1 DEF SmShape, TakenPrev, wpa_receive
<1> QED BY <1>2, <1>3, <1>4

(* What is known of the record.                                            *)
LEMMA EaseFacts ==
  ASSUME NEW m, SmOK(m), SmTyped(m), AtEase(m),
         NEW p, NEW D, NEW U, NEW r \in Nat, Agreed(m, p, D, U, r)
  PROVE  /\ m.ctr \in Nat /\ m.ANonce \in Nat /\ m.requests = {} /\ m.rx # "pairwise"
         /\ m.update_snonce = FALSE /\ SmShape(m) /\ ApKeys(m, r)
         /\ m.PTK_valid \in BOOLEAN /\ "ReAuthentication" \notin m.requests
BY DEF SmTyped, SmCounters, SmFlags, AtEase, SmOK, Agreed, Tied

(* A request for a new key.                                                *)
LEMMA RequestAgreed ==
  ASSUME NEW m, SmOK(m), SmTyped(m), AtEase(m),
         NEW p, NEW D, NEW U, NEW r \in Nat, Agreed(m, p, D, U, r),
         NEW f, f.msg = "request", NEW n, n = wpa_receive(m, f)
  PROVE  Agreed(n, p, D, U, r)
<1>1. /\ m.ctr \in Nat /\ m.requests = {} /\ m.rx # "pairwise" /\ m.update_snonce = FALSE
  BY EaseFacts
<1>2. Received(m, f, n)  BY <1>1, ReceiveEffect
<1>3. Taken(m, f, n) /\ TakenAlt(m, f, n)  BY ReceiveKeys
<1>4. n.alt_SNonce = m.alt_SNonce
  BY <1>3 DEF TakenAlt, SNonceUpdate, AltMic
<1>5. n.PTK_valid = FALSE /\ n.ANonce = m.ANonce /\ n.valid = m.valid /\ n.ctr = m.ctr
      /\ n.rx = "request" /\ n.ptk = m.ptk /\ n.requests = {"PTK"}
  BY <1>1, <1>2 DEF Received
<1>6. GivenUp(m, n)  BY <1>1, <1>4, <1>5 DEF GivenUp
<1> QED BY <1>6, GivenUpAgreed

(* A request for a group key.                                              *)
LEMMA GroupRequestAgreed ==
  ASSUME NEW m, SmOK(m), SmTyped(m), AtEase(m),
         NEW p, NEW D, NEW U, NEW r \in Nat, Agreed(m, p, D, U, r),
         NEW f, f.msg = "grequest", f.nonce = NoNonce, ~MicRefused(m, f),
         NEW n, n = wpa_receive(m, f)
  PROVE  Agreed(n, p, D, U, r)
<1>1. /\ m.ctr \in Nat /\ m.requests = {} /\ m.rx # "pairwise" /\ m.update_snonce = FALSE
      /\ ApKeys(m, r) /\ m.PTK_valid \in BOOLEAN
  BY EaseFacts
<1>2. Received(m, f, n)  BY <1>1, ReceiveEffect
<1>3. Taken(m, f, n) /\ TakenAlt(m, f, n) /\ TakenPrev(m, f, n)  BY ReceiveKeys
<1>4. ~SNonceUpdate(m, f) /\ ~AltMic(m, f)  BY DEF SNonceUpdate, AltMic
<1>5. m.PTK_valid = TRUE  BY <1>1 DEF MicRefused, Checked, Requests
<1>6. /\ n.requests = m.requests /\ n.ptk = m.ptk /\ n.rx = "grequest"
      /\ n.ctr = m.ctr /\ n.valid = m.valid /\ n.update_snonce = m.update_snonce
  BY <1>1, <1>2, <1>4 DEF Received
<1>7. SameSecrets(m, n) /\ n.SNonce = NoNonce
  <2>1. n.PTK_valid = m.PTK_valid  BY <1>2 DEF Received
  <2>2. n.prev = m.prev  BY <1>3 DEF TakenPrev, Requests
  <2> QED BY <1>3, <1>4, <2>1, <2>2 DEF Taken, TakenAlt, SameSecrets
<1>8. ~Candidate(n)  BY <1>6 DEF Candidate
<1>9. Alike(m, n)
  <2>1. Armed(n) => Armed(m)  BY <1>6, <1>7 DEF Armed, SameSecrets
  <2>2. Accepted(n) => Accepted(m)  BY <1>6, <1>7 DEF Accepted, SameSecrets
  <2> QED BY <1>6, <1>7, <1>8, <2>1, <2>2 DEF Alike
<1>10. ApKeys(n, r)
  BY <1>1, <1>5, <1>6, <1>7 DEF ApKeys, SameSecrets, Armed, HasAlt
<1>11. ToDerive(n, r)  BY <1>8 DEF ToDerive
<1> QED BY <1>1, <1>9, <1>10, <1>11, AlikeAgreed

(* Message 2/4 that answers message 1/4.                                   *)
LEMMA SecondAgreed ==
  ASSUME NEW m, SmOK(m), SmTyped(m), AtEase(m), RxOK(m),
         NEW p, NEW D, NEW U, NEW r \in Nat, Agreed(m, p, D, U, r),
         NEW f \in U, f.msg = "2/4", ~SNonceUpdate(m, f), Expected(m, f), ~MicRefused(m, f),
         NEW n, n = wpa_receive(m, f)
  PROVE  Agreed(n, p, D, U, r)
<1>1. /\ m.ctr \in Nat /\ m.requests = {} /\ m.rx # "pairwise" /\ m.update_snonce = FALSE
      /\ m.ANonce \in Nat /\ ApKeys(m, r) /\ "ReAuthentication" \notin m.requests
      /\ m.PTK_valid \in BOOLEAN
  BY EaseFacts
<1>2. Received(m, f, n)  BY <1>1, ReceiveEffect
<1>3. Taken(m, f, n) /\ TakenAlt(m, f, n) /\ TakenPrev(m, f, n)  BY ReceiveKeys
<1>4. f.rc \in m.valid /\ m.ptk = "PTKSTART"
  BY DEF Expected, Requests, RxOK
<1>5. /\ n.ANonce = m.ANonce /\ n.ctr = m.ctr /\ n.valid = {} /\ n.requests = m.requests
      /\ n.ptk = m.ptk /\ n.PTK_valid = m.PTK_valid /\ n.rx = "pairwise"
      /\ n.update_snonce = FALSE
  BY <1>2 DEF Received, Requests
<1>6. n.PTK = m.PTK /\ n.alt_SNonce = m.alt_SNonce
  BY <1>3 DEF TakenAlt, AltMic
<1>7. n.prev \subseteq m.valid /\ n.SNonce = f.nonce /\ n.last_mic = f.mic
  BY <1>3 DEF Taken, TakenPrev, Requests
<1>8. /\ n.MICVerified = TRUE => n.PTK_valid = TRUE /\ f.mic = n.PTK
      /\ n.PTK_valid = TRUE => n.MICVerified = TRUE
  <2>1. n.MICVerified = TRUE => Checked(m, f)  BY <1>2 DEF Received
  <2>2. Checked(m, f) => m.PTK_valid = TRUE /\ f.mic = m.PTK
    BY <1>1 DEF Checked, MicRefused, AltMic
  <2>3. m.PTK_valid = TRUE => n.MICVerified = TRUE  BY <1>2 DEF Received, Checked
  <2> QED BY <1>5, <1>6, <2>1, <2>2, <2>3
<1>9. Answered(m, f, n)  BY <1>4, <1>5, <1>7, <1>8 DEF Answered
<1>10. ~Armed(n)  BY <1>4, <1>5 DEF Armed, Negotiating
<1>11. ApKeys(n, r)  BY <1>1, <1>4, <1>5, <1>6, <1>10 DEF ApKeys
<1> QED BY <1>1, <1>4, <1>9, <1>11, AnsweredAgreed

(* Message 2/4 with another SNonce.                                        *)
LEMMA UpdateAgreed ==
  ASSUME NEW m, SmOK(m), SmTyped(m), AtEase(m),
         NEW p, NEW D, NEW U, NEW r \in Nat, Agreed(m, p, D, U, r),
         NEW f \in U, SNonceUpdate(m, f), NEW n, n = wpa_receive(m, f)
  PROVE  Agreed(n, p, D, U, r)
<1>1. /\ m.ctr \in Nat /\ m.requests = {} /\ m.rx # "pairwise" /\ m.update_snonce = FALSE
      /\ m.ANonce \in Nat /\ ApKeys(m, r) /\ "ReAuthentication" \notin m.requests
  BY EaseFacts
<1>2. Received(m, f, n)  BY <1>1, ReceiveEffect
<1>3. Taken(m, f, n) /\ TakenAlt(m, f, n) /\ TakenPrev(m, f, n)  BY ReceiveKeys
<1>4. f.msg = "2/4" /\ f.rc \in m.prev /\ m.ptk = "PTKINITNEGOTIATING" /\ m.SNonce # f.nonce
  BY DEF SNonceUpdate
<1>5. ~Checked(m, f)  BY DEF Checked
<1>6. /\ n.ANonce = m.ANonce /\ n.ctr = m.ctr /\ n.valid = {} /\ n.requests = m.requests
      /\ n.ptk = m.ptk /\ n.PTK_valid = m.PTK_valid /\ n.rx = "pairwise"
      /\ n.update_snonce = TRUE /\ n.MICVerified = FALSE
  BY <1>2, <1>4, <1>5 DEF Received, Requests
<1>7. n.PTK = m.PTK /\ n.alt_SNonce = m.SNonce /\ n.alt_rc = m.ctr
  BY <1>3, <1>5 DEF TakenAlt
<1>8. n.prev \subseteq m.valid /\ n.SNonce = f.nonce /\ n.last_mic = f.mic
  BY <1>3, <1>4 DEF Taken, TakenPrev, Requests
<1>9. m.PTK_valid = TRUE /\ Armed(m)  BY <1>1, <1>4 DEF ApKeys, Armed, Negotiating
<1>10. Updated(m, f, n)
  BY <1>1, <1>4, <1>6, <1>7, <1>8, <1>9 DEF Updated
<1>11. ApKeys(n, r)
  <2>1. n.alt_SNonce \in Nat /\ n.alt_SNonce < r
    BY <1>1, <1>4, <1>7, <1>9 DEF ApKeys, IsKey, NoNonce
  <2>2. IsKey(n.PTK, r) /\ n.PTK[1] = PSK /\ n.PTK[2] = n.ANonce
    BY <1>1, <1>6, <1>7, <1>9 DEF ApKeys
  <2>3. n.alt_rc <= n.ctr /\ n.alt_rc \in Nat  BY <1>1, <1>6, <1>7
  <2> QED BY <1>1, <1>4, <1>6, <1>9, <2>1, <2>2, <2>3 DEF ApKeys, Negotiating
<1> QED BY <1>1, <1>4, <1>10, <1>11, UpdatedAgreed

(* Message 4/4.                                                            *)
LEMMA FourthAgreed ==
  ASSUME NEW m, SmOK(m), SmTyped(m), AtEase(m),
         NEW p, NEW D, NEW U, NEW r \in Nat, r > 0, Agreed(m, p, D, U, r),
         NEW f \in U, f.msg = "4/4", Expected(m, f), ~MicRefused(m, f),
         NEW n, n = wpa_receive(m, f)
  PROVE  Agreed(n, p, D, U, r)
<1>1. /\ m.ctr \in Nat /\ m.requests = {} /\ m.rx # "pairwise" /\ m.update_snonce = FALSE
      /\ m.ANonce \in Nat /\ ApKeys(m, r) /\ m.PTK_valid \in BOOLEAN
  BY EaseFacts
<1>2. Received(m, f, n)  BY <1>1, ReceiveEffect
<1>3. Taken(m, f, n) /\ TakenAlt(m, f, n) /\ TakenPrev(m, f, n)  BY ReceiveKeys
<1>4. /\ m.ptk = "PTKINITNEGOTIATING" /\ m.PTK_valid = TRUE
      /\ f.rc \in m.valid \/ (HasAlt(m) /\ f.rc = m.alt_rc)
  BY <1>1 DEF Expected, Requests, AltSNonce, HasAlt
<1>5. ~SNonceUpdate(m, f) /\ Checked(m, f)  BY <1>4 DEF SNonceUpdate, Checked
<1>6. f.mic = m.PTK \/ AltMic(m, f)  BY <1>5 DEF MicRefused
<1>7. /\ n.ANonce = m.ANonce /\ n.ctr = m.ctr /\ n.valid = {} /\ n.requests = m.requests
      /\ n.ptk = m.ptk /\ n.PTK_valid = m.PTK_valid /\ n.rx = "pairwise"
      /\ n.update_snonce = FALSE
  BY <1>2, <1>5 DEF Received, Requests
<1>8. Armed(m)  BY <1>4 DEF Armed, Negotiating
<1>9. /\ n.PTK = f.mic /\ n.alt_rc = m.alt_rc
      /\ \/ n.PTK = m.PTK /\ n.alt_SNonce = m.alt_SNonce
         \/ HasAlt(m) /\ n.PTK = AltKey(m) /\ n.alt_SNonce = NoNonce
  BY <1>3, <1>5, <1>6 DEF TakenAlt, AltMic, HasAlt
<1>10. n.prev = {}  BY <1>3 DEF TakenPrev, Requests
<1>11. ~Candidate(n)  BY <1>4, <1>7 DEF Candidate
<1>12. Finished(m, f, n)
  BY <1>4, <1>7, <1>8, <1>9, <1>10, <1>11 DEF Finished
<1>13. ApKeys(n, r)
  <2>1. IsKey(n.PTK, r)  BY <1>9 DEF Agreed, Links, Typed, UpTyped
  <2>2. n.PTK[1] = PSK /\ n.PTK[2] = n.ANonce
    BY <1>1, <1>4, <1>7, <1>9 DEF ApKeys, AltKey, Ptk
  <2>3. n.alt_SNonce \in Nat /\ n.alt_SNonce < r  BY <1>1, <1>9 DEF ApKeys, NoNonce
  <2>4. HasAlt(n) => n.alt_rc <= n.ctr /\ n.alt_rc \in Nat
    BY <1>1, <1>7, <1>8, <1>9 DEF ApKeys, HasAlt
  <2> QED BY <1>1, <1>4, <1>7, <2>1, <2>2, <2>3, <2>4 DEF ApKeys, Negotiating
<1> QED BY <1>1, <1>12, <1>13, FinishedAgreed

(* Message 2/2.                                                            *)
LEMMA GroupAnswerAgreed ==
  ASSUME NEW m, SmOK(m), SmTyped(m), AtEase(m),
         NEW p, NEW D, NEW U, NEW r \in Nat, Agreed(m, p, D, U, r),
         NEW f, f.msg = "2/2", Expected(m, f),
         NEW n, n = wpa_receive(m, f), RxOK(n)
  PROVE  Agreed(n, p, D, U, r)
<1>1. /\ m.ctr \in Nat /\ m.requests = {} /\ m.rx # "pairwise" /\ m.update_snonce = FALSE
      /\ m.ANonce \in Nat /\ ApKeys(m, r) /\ m.PTK_valid \in BOOLEAN
  BY EaseFacts
<1>2. Received(m, f, n)  BY <1>1, ReceiveEffect
<1>3. Taken(m, f, n) /\ TakenAlt(m, f, n)  BY ReceiveKeys
<1>4. ~SNonceUpdate(m, f) /\ ~AltMic(m, f) /\ m.PTK_valid = TRUE
  BY <1>1 DEF SNonceUpdate, AltMic, Expected, Requests
<1>5. /\ n.ANonce = m.ANonce /\ n.ctr = m.ctr /\ n.valid = {} /\ n.requests = m.requests
      /\ n.ptk = m.ptk /\ n.PTK_valid = m.PTK_valid /\ n.rx = "group"
      /\ n.update_snonce = FALSE
  BY <1>2, <1>4 DEF Received, Requests
<1>6. m.ptk = "PTKINITDONE"  BY <1>5 DEF RxOK
<1>7. n.PTK = m.PTK /\ n.alt_SNonce = m.alt_SNonce /\ n.key = m.key
  BY <1>3, <1>4 DEF Taken, TakenAlt
<1>8. Accepted(m)  BY <1>4, <1>6 DEF Accepted
<1>9. m.key = m.PTK  BY <1>6, <1>8 DEF Agreed, Tied, Confirmed
<1>10. ~Candidate(n) /\ ~Armed(n)  BY <1>5, <1>6 DEF Candidate, Armed, Negotiating
<1>11. Done(m, n)  BY <1>5, <1>6, <1>7, <1>8, <1>9, <1>10 DEF Done
<1>12. ApKeys(n, r)  BY <1>1, <1>4, <1>5, <1>6, <1>7, <1>10 DEF ApKeys
<1> QED BY <1>1, <1>11, <1>12, DoneAgreed

(* Every frame that is expected and not refused.                           *)
LEMMA ReceiveAgreed ==
  ASSUME NEW m, SmOK(m), NEW c, NEW r \in Nat, r > 0, Station(m, c, r), AtEase(m),
         NEW p, NEW D, NEW U, Agreed(m, p, D, U, r),
         NEW f, UpFrame(f, m, r), f.msg \in {"2/4", "4/4"} => f \in U,
         Expected(m, f), ~MicRefused(m, f), NEW n, n = wpa_receive(m, f)
  PROVE  Agreed(n, p, D, U, r)
<1>1. SmTyped(m) /\ RxOK(m)  BY DEF Station
<1>2. RxOK(n)  BY ReceiveStruck DEF Struck, Station
<1>3. f.msg \in {"request", "grequest", "2/4", "4/4", "2/2"}  BY DEF Expected, Requests
<1>4. CASE f.msg = "request"  BY <1>1, <1>4, RequestAgreed
<1>9. CASE f.msg = "grequest"  BY <1>1, <1>9, GroupRequestAgreed DEF UpFrame
<1>5. CASE f.msg = "2/4" /\ ~SNonceUpdate(m, f)  BY <1>1, <1>5, SecondAgreed
<1>6. CASE f.msg = "2/4" /\ SNonceUpdate(m, f)  BY <1>1, <1>6, UpdateAgreed
<1>7. CASE f.msg = "4/4"  BY <1>1, <1>7, FourthAgreed
<1>8. CASE f.msg = "2/2"  BY <1>1, <1>2, <1>8, GroupAnswerAgreed
<1> QED BY <1>3, <1>4, <1>5, <1>6, <1>7, <1>8, <1>9

-----------------------------------------------------------------------------
(* What the supplicant does with the frame f, the first of the link.       *)

(* A frame is sent by the supplicant.                                      *)
LEMMA ReplyUpward ==
  ASSUME NEW x, NEW f, SuppOK(x, f), NEW msg, NEW rc, NEW nonce, NEW mic,
         NEW y, y = Reply(x, msg, rc, nonce, mic),
         NEW g, g = [msg |-> msg, rc |-> rc, nonce |-> nonce, mic |-> mic]
  PROVE  /\ y = [sup |-> x.sup, out |-> y.out, rand |-> x.rand]
         /\ Upward(y.out) \subseteq Upward(x.out) \cup {g}
         /\ msg \notin {"2/4", "4/4"} => Upward(y.out) \subseteq Upward(x.out)
<1>1. PICK q, a : q = x.out /\ a = Append(q, g)  OBVIOUS
<1>2. y = [sup |-> x.sup, out |-> a, rand |-> x.rand]
  BY <1>1 DEF SuppOK, Reply
<1>3. q \in Seq(Elements(q))  BY <1>1 DEF SuppOK, Answers
<1>4. /\ Len(q) \in Nat /\ DOMAIN q = 1 .. Len(q) /\ DOMAIN a = 1 .. Len(q) + 1
      /\ \A i \in 1 .. Len(q) : a[i] = q[i]
      /\ a[Len(q) + 1] = g
  BY <1>1, <1>3
<1>5. \A i \in DOMAIN a : a[i] \in Elements(q) \cup {g}
  <2> SUFFICES ASSUME NEW i \in DOMAIN a PROVE a[i] \in Elements(q) \cup {g}  OBVIOUS
  <2>1. i \in 1 .. Len(q) \/ i = Len(q) + 1  BY <1>4
  <2> QED BY <1>4, <2>1 DEF Elements
<1>6. Elements(a) \subseteq Elements(q) \cup {g}  BY <1>5 DEF Elements
<1>7. g.msg = msg  OBVIOUS
<1> QED BY <1>1, <1>2, <1>6, <1>7 DEF Upward

(* The nonce of the supplicant p is that of v.                             *)
Remains(p, v) ==
  /\ v.snonce = p.snonce /\ v.renew_snonce \in {p.renew_snonce, TRUE}
  /\ v.rx_replay_counter \in Nat /\ v.tk_to_set \in BOOLEAN

(* The station is disassociated.                                           *)
LEMMA DisassocAgreed ==
  ASSUME NEW m, NEW p, NEW D, NEW U, NEW r, Agreed(m, p, D, U, r), NEW v, SupShape(v),
         Remains(p, v),
         NEW q, q = wpa_sm_notify_disassoc(v)
  PROVE  Agreed(m, q, D, U, r) /\ q.assoc = FALSE
<1>1. /\ q.ptk = NoKey /\ q.tptk = NoKey /\ q.key = NoKey /\ q.assoc = FALSE
      /\ q.snonce = v.snonce /\ q.renew_snonce = v.renew_snonce
      /\ q.rx_replay_counter = v.rx_replay_counter /\ q.tk_to_set = v.tk_to_set
  BY DEF SupShape, wpa_sm_notify_disassoc
<1>2. Forgot(p, q)  BY <1>1 DEF Forgot, Remains
<1> QED BY <1>1, <1>2, ForgotAgreed

(* It leaves.                                                              *)
LEMMA DeauthenticateAgreed ==
  ASSUME NEW m, NEW p, NEW D, NEW U, NEW r, Agreed(m, p, D, U, r),
         NEW x, NEW f, SuppOK(x, f), Upward(x.out) \subseteq U, Remains(p, x.sup),
         NEW y, y = wpa_sm_deauthenticate(x)
  PROVE  Agreed(m, y.sup, D, U, r) /\ Upward(y.out) \subseteq U /\ y.rand = x.rand
<1>1. PICK z, g : /\ z = Reply(x, "deauth", 0, NoNonce, NoKey)
                  /\ g = [msg |-> "deauth", rc |-> 0, nonce |-> NoNonce, mic |-> NoKey]
  OBVIOUS
<1>2. /\ z = [sup |-> x.sup, out |-> z.out, rand |-> x.rand]
      /\ Upward(z.out) \subseteq Upward(x.out)
  BY <1>1, ReplyUpward
<1>3. PICK v, q : v = x.sup /\ q = wpa_sm_notify_disassoc(v)  OBVIOUS
<1>4. y = [z EXCEPT !.sup = q]  BY <1>1, <1>3 DEF wpa_sm_deauthenticate
<1>5. y.sup = q /\ y.out = z.out /\ y.rand = x.rand  BY <1>2, <1>4
<1>6. SupShape(v) /\ Remains(p, v)  BY <1>3 DEF SuppOK
<1>7. Agreed(m, q, D, U, r)  BY <1>3, <1>6, DisassocAgreed
<1> QED BY <1>2, <1>5, <1>7

(* Message 1/4.                                                            *)
LEMMA Process1of4Agreed ==
  ASSUME NEW m, m.ANonce \in Nat, NEW x, NEW f, SuppOK(x, f), Upward(x.out) = {},
         x.sup.assoc = TRUE, x.rand \in Nat, x.rand > 0,
         NEW D, NEW U, Agreed(m, x.sup, D, U, x.rand), f.msg = "1/4", Core(f) \in D,
         NEW E, E \subseteq D, \A g \in E : Before(Core(f), g),
         NEW y, y = process_1_of_4(x, f)
  PROVE  Agreed(m, y.sup, E, U \cup Upward(y.out), y.rand)
<1>1. PICK p, r, h : p = x.sup /\ r = x.rand /\ h = Core(f)  OBVIOUS
<1>2. SupShape(p) /\ Agreed(m, p, D, U, r)  BY <1>1 DEF SuppOK
<1>3. PICK renew, s, k :
        /\ renew = (p.renew_snonce \/ p.kind # "steady")
        /\ s = IF renew THEN r ELSE p.snonce
        /\ k = Ptk(p.pmk, f.nonce, s)
  OBVIOUS
<1>4. PICK a, q, t, u :
        /\ a = IF p.kind = "first" /\ p.tptk # NoKey THEN p.tptk ELSE k
        /\ q = [p EXCEPT !.snonce = s, !.renew_snonce = FALSE, !.tptk = a,
                         !.tk_to_set = TRUE, !.anonce = f.nonce]
        /\ t = IF renew THEN r + 1 ELSE r
        /\ u = [x EXCEPT !.sup = q, !.rand = t]
  OBVIOUS
<1>5. y = Reply(u, "2/4", f.rc, s, k)
  BY <1>1, <1>3, <1>4 DEF process_1_of_4
<1>6. PICK e : e = [msg |-> "2/4", rc |-> f.rc, nonce |-> s, mic |-> k]  OBVIOUS
<1>7. SupShape(q)  BY <1>2, <1>4 DEF SupShape
<1>8. SuppOK(u, f) /\ u.sup = q /\ u.rand = t /\ u.out = x.out
  BY <1>4, <1>7 DEF SuppOK
<1>9. y.sup = q /\ y.rand = t /\ Upward(y.out) \subseteq {e}
  <2>1. /\ y = [sup |-> u.sup, out |-> y.out, rand |-> u.rand]
        /\ Upward(y.out) \subseteq Upward(u.out) \cup {e}
    BY <1>5, <1>6, <1>8, ReplyUpward
  <2> QED BY <1>8, <2>1
<1>10. h.msg = "1/4" /\ h.rc = f.rc /\ h.nonce = f.nonce  BY <1>1 DEF Core
<1>11. /\ q.ptk = p.ptk /\ q.key = p.key /\ q.assoc = p.assoc
       /\ q.rx_replay_counter = p.rx_replay_counter
       /\ q.snonce = s /\ q.renew_snonce = FALSE /\ q.tk_to_set = TRUE /\ q.tptk = a
  BY <1>2, <1>4 DEF SupShape
<1>12. a = k \/ (a = p.tptk /\ p.tptk # NoKey)  BY <1>4
<1>13. Began(p, h, q, e, s)
  BY <1>3, <1>6, <1>10, <1>11, <1>12 DEF Began, Ptk
<1>14. FreshNonce(p, r, s, t)
  <2>1. p.renew_snonce \in BOOLEAN  BY <1>2 DEF Agreed, Links, SuppKeys
  <2>2. CASE renew  BY <1>3, <1>4, <2>2 DEF FreshNonce
  <2>3. CASE ~renew  BY <1>3, <1>4, <2>1, <2>3 DEF FreshNonce
  <2> QED BY <2>2, <2>3
<1>15. Agreed(m, q, E, U \cup {e}, t)
  <2>1. r \in Nat /\ r > 0 /\ h \in D /\ p.assoc = TRUE /\ \A g \in E : Before(h, g)
    BY <1>1
  <2> QED BY <1>2, <1>10, <1>13, <1>14, <2>1, BeganAgreed
<1> QED BY <1>9, <1>15, AgreedShrink

(* The key k is in the driver or about to be, and is not zeroed.           *)
Ready(v, k) ==
  /\ v.ptk = k
  /\ \/ v.tk_to_set = TRUE /\ v.cleared = FALSE
     \/ v.tk_to_set = FALSE /\ v.key = k
(* The rest of the record after the verification of message 3/4.           *)
VerifiedAs(p, f, v) ==
  /\ v.tptk = NoKey /\ v.rx_replay_counter = f.rc /\ v.snonce = p.snonce
  /\ v.renew_snonce = p.renew_snonce /\ v.assoc = p.assoc /\ v.tk_to_set \in BOOLEAN

(* Message 3/4 is verified with the key it is about.                       *)
LEMMA VerifiedKeys ==
  ASSUME NEW p, SupShape(p), NEW f, MicKnown(p, f), f.msg = "3/4", f.rc \in Nat,
         NEW D, NEW r, SuppKeys(p, r), NotAgain(p, D), Core(f) \in D,
         NEW v, v = Verified(p, f)
  PROVE  SupShape(v) /\ VerifiedAs(p, f, v) /\ Ready(v, f.mic)
<1>1. SupShape(v)  BY VerifiedEffect
<1>2. f.mic # NoKey /\ (f.mic = p.tptk \/ f.mic = p.ptk)  BY DEF MicKnown
<1>3. Core(f).msg = "3/4" /\ Core(f).mic = f.mic  BY DEF Core
<1>4. CASE f.mic = p.tptk
  <2>1. v = [p EXCEPT !.tptk = NoKey, !.ptk = p.tptk, !.cleared = FALSE,
                      !.rx_replay_counter = f.rc]
    BY <1>4 DEF Verified
  <2>2. /\ v.ptk = f.mic /\ v.tptk = NoKey /\ v.rx_replay_counter = f.rc
        /\ v.snonce = p.snonce /\ v.renew_snonce = p.renew_snonce /\ v.assoc = p.assoc
        /\ v.tk_to_set = p.tk_to_set /\ v.cleared = FALSE
    BY <1>4, <2>1 DEF SupShape
  <2>3. p.tk_to_set = TRUE  BY <1>2, <1>4 DEF SuppKeys
  <2> QED BY <1>1, <2>2, <2>3 DEF VerifiedAs, Ready
<1>5. CASE f.mic # p.tptk
  <2>1. v = [p EXCEPT !.rx_replay_counter = f.rc]  BY <1>5 DEF Verified
  <2>2. /\ v.ptk = p.ptk /\ v.tptk = p.tptk /\ v.rx_replay_counter = f.rc
        /\ v.snonce = p.snonce /\ v.renew_snonce = p.renew_snonce /\ v.assoc = p.assoc
        /\ v.tk_to_set = p.tk_to_set /\ v.key = p.key
    BY <2>1 DEF SupShape
  <2>3. p.ptk = f.mic /\ p.ptk # NoKey  BY <1>2, <1>5
  <2>4. p.tptk = NoKey  BY <1>3, <2>3 DEF NotAgain
  <2>5. p.key = f.mic /\ p.tk_to_set = FALSE  BY <2>3, <2>4 DEF SuppKeys
  <2> QED BY <1>1, <2>2, <2>3, <2>4, <2>5 DEF VerifiedAs, Ready
<1> QED BY <1>4, <1>5

(* The record q after the key k was installed.                             *)
InstalledAs(v, k, q) ==
  /\ q.key = k /\ q.tk_to_set = FALSE /\ q.ptk = v.ptk /\ q.tptk = v.tptk
  /\ q.rx_replay_counter = v.rx_replay_counter /\ q.snonce = v.snonce
  /\ q.renew_snonce = v.renew_snonce /\ q.assoc = v.assoc

(* The keys of message 3/4 are installed.                                  *)
LEMMA InstalledKeys ==
  ASSUME NEW v, SupShape(v), NEW k, Ready(v, k), NEW f,
         NEW b, b = wpa_supplicant_install_ptk(v), NEW d, d = InstallGtk(b, f),
         NEW q, q = [d EXCEPT !.msg_3_of_4_ok = TRUE]
  PROVE  InstalledAs(v, k, q)
<1>1. SupShape(b)  BY InstallShape
<1>2. SupShape(d)  BY <1>1, InstallShape
<1>4. /\ b.key = k /\ b.tk_to_set = FALSE /\ b.ptk = v.ptk /\ b.tptk = v.tptk
      /\ b.rx_replay_counter = v.rx_replay_counter /\ b.snonce = v.snonce
      /\ b.renew_snonce = v.renew_snonce /\ b.assoc = v.assoc
  <2>1. CASE v.tk_to_set = TRUE /\ v.cleared = FALSE
    <3>1. b = [v EXCEPT !.key = k, !.cleared = TRUE, !.tk_to_set = FALSE]
      BY <2>1 DEF wpa_supplicant_install_ptk, Ready
    <3> QED BY <3>1 DEF SupShape
  <2>2. CASE v.tk_to_set = FALSE /\ v.key = k
    <3>1. b = v  BY <2>2 DEF wpa_supplicant_install_ptk
    <3> QED BY <2>2, <3>1
  <2> QED BY <2>1, <2>2 DEF Ready
<1>5. PICK g : d = [b EXCEPT !.gtk = g]  BY DEF InstallGtk
<1>6. /\ d.key = b.key /\ d.tk_to_set = b.tk_to_set /\ d.ptk = b.ptk /\ d.tptk = b.tptk
      /\ d.rx_replay_counter = b.rx_replay_counter /\ d.snonce = b.snonce
      /\ d.renew_snonce = b.renew_snonce /\ d.assoc = b.assoc
  BY <1>1, <1>5 DEF SupShape
<1>7. /\ q.key = d.key /\ q.tk_to_set = d.tk_to_set /\ q.ptk = d.ptk /\ q.tptk = d.tptk
      /\ q.rx_replay_counter = d.rx_replay_counter /\ q.snonce = d.snonce
      /\ q.renew_snonce = d.renew_snonce /\ q.assoc = d.assoc
  BY <1>2 DEF SupShape
<1> QED BY <1>4, <1>6, <1>7 DEF InstalledAs

(* Message 3/4, verified with the supplicant p.                            *)
LEMMA Process3of4Agreed ==
  ASSUME NEW m, m.ANonce \in Nat, NEW p, SupShape(p), NEW r \in Nat, NEW f,
         NEW D, NEW U, Agreed(m, p, D, U, r), MicKnown(p, f), f.msg = "3/4", Core(f) \in D,
         NEW E, E \subseteq D, \A g \in E : Before(Core(f), g), p.assoc = TRUE,
         NEW x, SuppOK(x, f), x.sup = Verified(p, f), x.rand = r, Upward(x.out) = {},
         NEW ok, NEW y, y = process_3_of_4(x, f, ok)
  PROVE  Agreed(m, y.sup, E, U \cup Upward(y.out), y.rand)
<1>1. PICK v, h : v = x.sup /\ h = Core(f)  OBVIOUS
<1>2. /\ h.msg = "3/4" /\ h.rc = f.rc /\ h.mic = f.mic /\ h \in D /\ v = Verified(p, f)
      /\ \A g \in E : Before(h, g)
  BY <1>1 DEF Core
<1>3. SuppKeys(p, r) /\ NotAgain(p, D) /\ Typed(D, U, r)  BY DEF Agreed, Links
<1>4. f.rc \in Nat  BY <1>2, <1>3 DEF Typed, DownTyped
<1>5. SupShape(v) /\ VerifiedAs(p, f, v) /\ Ready(v, f.mic)
  BY <1>2, <1>3, <1>4, VerifiedKeys
<1>6. CASE y = wpa_sm_deauthenticate(x)
  <2>1. Agreed(m, p, E, U, r)  BY AgreedShrink
  <2>2. Remains(p, v) /\ Upward(x.out) \subseteq U
    BY <1>4, <1>5 DEF VerifiedAs, Remains
  <2>3. Agreed(m, y.sup, E, U, r) /\ Upward(y.out) \subseteq U /\ y.rand = x.rand
    BY <1>1, <1>6, <2>1, <2>2, DeauthenticateAgreed
  <2>4. U \cup Upward(y.out) = U  BY <2>3
  <2> QED BY <2>3, <2>4
<1>7. PICK w, e : /\ w = Reply(x, "4/4", f.rc, NoNonce, v.ptk)
                  /\ e = [msg |-> "4/4", rc |-> f.rc, nonce |-> NoNonce, mic |-> v.ptk]
  OBVIOUS
<1>8. /\ SuppOK(w, f) /\ w = [sup |-> v, out |-> w.out, rand |-> r]
      /\ Upward(w.out) \subseteq {e}
  <2>1. SuppOK(w, f)  BY <1>7, ReplyOK
  <2>2. w = [sup |-> x.sup, out |-> w.out, rand |-> x.rand]
        /\ Upward(w.out) \subseteq Upward(x.out) \cup {e}
    BY <1>7, ReplyUpward
  <2> QED BY <1>1, <2>1, <2>2
<1>9. PICK a, z : a = [v EXCEPT !.renew_snonce = TRUE] /\ z = [w EXCEPT !.sup.renew_snonce = TRUE]
  OBVIOUS
<1>10. /\ SupShape(a) /\ a.ptk = v.ptk /\ a.tptk = v.tptk /\ a.key = v.key
       /\ a.rx_replay_counter = v.rx_replay_counter /\ a.snonce = v.snonce
       /\ a.renew_snonce = TRUE /\ a.assoc = v.assoc /\ a.tk_to_set = v.tk_to_set
       /\ a.cleared = v.cleared
  BY <1>5, <1>9 DEF SupShape
<1>11. z = [sup |-> a, out |-> w.out, rand |-> r]
  <2>1. w.sup = v /\ w.rand = r  BY <1>8
  <2>2. z.sup = [v EXCEPT !.renew_snonce = TRUE]
        /\ z = [sup |-> z.sup, out |-> w.out, rand |-> w.rand]
    <3>1. w = [sup |-> w.sup, out |-> w.out, rand |-> w.rand]  BY <1>8 DEF SuppOK
    <3> QED BY <1>9, <2>1, <3>1
  <2> QED BY <1>9, <2>1, <2>2
<1>12. SuppOK(z, f)  BY <1>8, <1>10, <1>11 DEF SuppOK
<1>13. PICK b, d, q : /\ b = wpa_supplicant_install_ptk(a) /\ d = InstallGtk(b, f)
                      /\ q = [d EXCEPT !.msg_3_of_4_ok = TRUE]
  OBVIOUS
<1>14. InstalledAs(a, f.mic, q)
  <2>1. Ready(a, f.mic)  BY <1>5, <1>10 DEF Ready
  <2> QED BY <1>10, <1>13, <2>1, InstalledKeys
<1>15. Agreed(m, q, E, U \cup {e}, r)
  <2>1. f.mic \in {p.tptk, p.ptk}  BY DEF MicKnown
  <2>2. Completed(p, h, q, e)
    BY <1>2, <1>5, <1>7, <1>10, <1>14, <2>1
       DEF Completed, VerifiedAs, Ready, InstalledAs
  <2> QED BY <1>2, <2>2, CompletedAgreed
<1>16. CASE y = wpa_sm_deauthenticate(z)
  <2>1. Remains(q, a) /\ z.sup = a /\ Upward(z.out) \subseteq U \cup {e}
    BY <1>4, <1>5, <1>8, <1>10, <1>11, <1>14
       DEF Remains, VerifiedAs, InstalledAs
  <2>2. PICK V : V = U \cup {e}  OBVIOUS
  <2>3. Agreed(m, y.sup, E, V, r) /\ Upward(y.out) \subseteq V /\ y.rand = z.rand
    BY <1>12, <1>15, <1>16, <2>1, <2>2, DeauthenticateAgreed
  <2>4. U \cup Upward(y.out) \subseteq V /\ y.rand = r  BY <1>11, <2>2, <2>3
  <2> QED BY <2>3, <2>4, AgreedShrink
<1>17. CASE y = [z EXCEPT !.sup = q]
  <2>1. y.sup = q /\ y.out = w.out /\ y.rand = r  BY <1>11, <1>17
  <2>2. U \cup Upward(y.out) \subseteq U \cup {e}  BY <1>8, <2>1
  <2> QED BY <1>15, <2>1, <2>2, AgreedShrink
<1>18. \/ y = wpa_sm_deauthenticate(x) \/ y = wpa_sm_deauthenticate(z)
       \/ y = [z EXCEPT !.sup = q]
  <2>1. \/ y = wpa_sm_deauthenticate(x) \/ y = wpa_sm_deauthenticate(z)
        \/ y = [z EXCEPT !.sup = [InstallGtk(wpa_supplicant_install_ptk(z.sup), f)
                                    EXCEPT !.msg_3_of_4_ok = TRUE]]
    BY <1>1, <1>7, <1>9 DEF process_3_of_4
  <2>2. z.sup = a  BY <1>11
  <2> QED BY <1>13, <2>1, <2>2
<1> QED BY <1>6, <1>16, <1>17, <1>18

(* Message 1/2, verified with the supplicant p.                            *)
LEMMA Process1of2Agreed ==
  ASSUME NEW m, NEW p, SupShape(p), NEW r \in Nat, NEW f,
         NEW D, NEW U, Agreed(m, p, D, U, r), MicKnown(p, f), f.msg = "1/2", Core(f) \in D,
         p.rx_replay_counter <= f.rc,
         NEW E, E \subseteq D, \A g \in E : Before(Core(f), g),
         NEW x, SuppOK(x, f), x.sup = Verified(p, f), x.rand = r, Upward(x.out) = {},
         NEW ok, NEW y, y = process_1_of_2(x, f, ok)
  PROVE  Agreed(m, y.sup, E, U \cup Upward(y.out), y.rand)
<1>1. PICK v, h : v = x.sup /\ h = Core(f)  OBVIOUS
<1>2. /\ h.msg = "1/2" /\ h.rc = f.rc /\ h.mic = f.mic /\ h \in D /\ v = Verified(p, f)
      /\ \A g \in E : Before(h, g)
  BY <1>1 DEF Core
<1>3. SuppKeys(p, r) /\ SpentKeys(p, D, U) /\ Typed(D, U, r)  BY DEF Agreed, Links
<1>4. f.rc \in Nat  BY <1>2, <1>3 DEF Typed, DownTyped
<1>5. f.mic # p.tptk  BY <1>2, <1>3 DEF SpentKeys, Spent
<1>6. f.mic = p.ptk  BY <1>5 DEF MicKnown
<1>7. v = [p EXCEPT !.rx_replay_counter = f.rc]  BY <1>2, <1>5 DEF Verified
<1>8. /\ SupShape(v) /\ v.ptk = p.ptk /\ v.key = p.key /\ v.tptk = p.tptk /\ v.assoc = p.assoc
      /\ v.snonce = p.snonce /\ v.renew_snonce = p.renew_snonce /\ v.tk_to_set = p.tk_to_set
      /\ v.rx_replay_counter = f.rc
  BY <1>7 DEF SupShape
<1>9. CASE y = wpa_sm_deauthenticate(x)
  <2>1. Agreed(m, p, E, U, r)  BY AgreedShrink
  <2>2. Remains(p, v) /\ Upward(x.out) \subseteq U
    BY <1>3, <1>4, <1>8 DEF Remains, SuppKeys
  <2>3. Agreed(m, y.sup, E, U, r) /\ Upward(y.out) \subseteq U /\ y.rand = x.rand
    BY <1>1, <1>9, <2>1, <2>2, DeauthenticateAgreed
  <2>4. U \cup Upward(y.out) = U  BY <2>3
  <2> QED BY <2>3, <2>4
<1>10. PICK q, z, e :
         /\ q = InstallGtk(v, f) /\ z = [x EXCEPT !.sup = q]
         /\ e = [msg |-> "2/2", rc |-> f.rc, nonce |-> NoNonce, mic |-> v.ptk]
  OBVIOUS
<1>11. SupShape(q)  BY <1>8, <1>10, InstallShape
<1>12. SuppOK(z, f) /\ z.sup = q /\ z.rand = r /\ z.out = x.out
  BY <1>10, <1>11 DEF SuppOK
<1>13. Agreed(m, q, E, U, r)
  <2>1. PICK g : q = [v EXCEPT !.gtk = g]  BY <1>10 DEF InstallGtk
  <2>2. /\ q.ptk = v.ptk /\ q.key = v.key /\ q.tptk = v.tptk /\ q.assoc = v.assoc
        /\ q.snonce = v.snonce /\ q.renew_snonce = v.renew_snonce /\ q.tk_to_set = v.tk_to_set
        /\ q.rx_replay_counter = v.rx_replay_counter
    BY <1>8, <2>1 DEF SupShape
  <2>3. Counted(p, h, q)  BY <1>2, <1>8, <2>2 DEF Counted
  <2>4. h.mic = p.ptk /\ p.rx_replay_counter <= h.rc  BY <1>2, <1>6
  <2> QED BY <1>2, <2>3, <2>4, CountedAgreed
<1>14. CASE y = Reply(z, "2/2", f.rc, NoNonce, v.ptk)
  <2>1. /\ y = [sup |-> z.sup, out |-> y.out, rand |-> z.rand]
        /\ Upward(y.out) \subseteq Upward(z.out)
    <3>1. PICK c, k : c = f.rc /\ k = v.ptk  OBVIOUS
    <3>2. y = Reply(z, "2/2", c, NoNonce, k)  BY <1>14, <3>1
    <3>3. e = [msg |-> "2/2", rc |-> c, nonce |-> NoNonce, mic |-> k]  BY <1>10, <3>1
    <3> QED BY <1>12, <3>2, <3>3, ReplyUpward
  <2>2. y.sup = q /\ y.rand = r /\ U \cup Upward(y.out) = U  BY <1>12, <2>1
  <2> QED BY <1>13, <2>2
<1>15. y = wpa_sm_deauthenticate(x) \/ y = Reply(z, "2/2", f.rc, NoNonce, v.ptk)
  BY <1>1, <1>10 DEF process_1_of_2
<1> QED BY <1>9, <1>14, <1>15

(* Any frame.                                                              *)
LEMMA RxEapolAgreed ==
  ASSUME NEW m, m.ANonce \in Nat, NEW x, NEW f, SuppOK(x, f), Upward(x.out) = {},
         x.sup.assoc = TRUE, x.rand \in Nat, x.rand > 0,
         NEW D, NEW U, Agreed(m, x.sup, D, U, x.rand), f.msg \in {"1/4", "3/4", "1/2"},
         Core(f) \in D, NEW E, E \subseteq D, \A g \in E : Before(Core(f), g),
         NEW ok, NEW y, y = wpa_sm_rx_eapol(x, f, ok)
  PROVE  Agreed(m, y.sup, E, U \cup Upward(y.out), y.rand)
<1>1. PICK p, r, q, z : /\ p = x.sup /\ r = x.rand
                        /\ q = Verified(p, f) /\ z = [x EXCEPT !.sup = q]
  OBVIOUS
<1>2. SupShape(p) /\ Agreed(m, p, D, U, r) /\ p.assoc = TRUE /\ r \in Nat  BY <1>1 DEF SuppOK
<1>3. CASE y = x
  <2>1. Agreed(m, x.sup, E, U, x.rand)  BY AgreedShrink
  <2> QED BY <1>3, <2>1
<1>4. CASE f.msg = "1/4" /\ y = process_1_of_4(x, f)  BY <1>4, Process1of4Agreed
<1>5. ASSUME MicKnown(p, f)
      PROVE  SuppOK(z, f) /\ z.rand = r /\ z.sup = Verified(p, f) /\ Upward(z.out) = {}
  <2>1. SupShape(q)  BY <1>1, <1>2, <1>5, VerifiedEffect
  <2>2. z = [sup |-> q, out |-> x.out, rand |-> x.rand]  BY <1>1 DEF SuppOK
  <2> QED BY <1>1, <2>1, <2>2 DEF SuppOK
<1>6. CASE MicKnown(p, f) /\ f.msg = "3/4" /\ y = process_3_of_4(z, f, ok)
  BY <1>2, <1>5, <1>6, Process3of4Agreed
<1>7. CASE /\ MicKnown(p, f) /\ f.msg = "1/2" /\ y = process_1_of_2(z, f, ok)
           /\ ~(f.rc <= p.rx_replay_counter)
  <2>1. p.rx_replay_counter \in Nat  BY <1>2 DEF Agreed, Links, SuppKeys
  <2>2. f.rc \in Nat
    <3>1. Core(f).rc = f.rc  BY DEF Core
    <3> QED BY <1>2, <3>1 DEF Agreed, Links, Typed, DownTyped
  <2>3. p.rx_replay_counter <= f.rc  BY <1>7, <2>1, <2>2
  <2> QED BY <1>2, <1>5, <1>7, <2>3, Process1of2Agreed
<1>8. \/ y = x \/ (f.msg = "1/4" /\ y = process_1_of_4(x, f))
      \/ MicKnown(p, f) /\ f.msg = "3/4" /\ y = process_3_of_4(z, f, ok)
      \/ /\ MicKnown(p, f) /\ f.msg = "1/2" /\ y = process_1_of_2(z, f, ok)
         /\ ~(f.rc <= p.rx_replay_counter)
  BY <1>1 DEF wpa_sm_rx_eapol
<1> QED BY <1>3, <1>4, <1>6, <1>7, <1>8

(* A supplicant that differs in nothing the keys depend on.                *)
SameKeys(p, q) ==
  /\ q.ptk = p.ptk /\ q.key = p.key /\ q.tptk = p.tptk /\ q.assoc = p.assoc
  /\ q.snonce = p.snonce /\ q.renew_snonce = p.renew_snonce /\ q.tk_to_set = p.tk_to_set
  /\ q.rx_replay_counter = p.rx_replay_counter

(* A supplicant with the same keys stays in agreement.                     *)
LEMMA SameKeysAgreed ==
  ASSUME NEW m, NEW p, NEW D, NEW U, NEW r, Agreed(m, p, D, U, r), NEW q, SameKeys(p, q)
  PROVE  Agreed(m, q, D, U, r)
<1>1. \A k : (Spent(k, p) <=> Spent(k, q)) /\ (Held(k, p, D) <=> Held(k, q, D))
  BY DEF Spent, Held, SameKeys
<1>2. Links(q, D, U, r)
  <2>1. SuppKeys(q, r)  BY DEF Agreed, Links, SuppKeys, SameKeys
  <2>2. KeyFirst(q, D) /\ KeyAnswered(q, U) /\ NotAgain(q, D) /\ Renewed(q, D)
    BY DEF Agreed, Links, KeyFirst, KeyAnswered, NotAgain, Renewed, SameKeys
  <2>3. SpentKeys(q, D, U)  BY <1>1 DEF Agreed, Links, SpentKeys, SameKeys
  <2> QED BY <2>1, <2>2, <2>3 DEF Agreed, Links
<1>3. Recent(m, q, D, U)  BY DEF Agreed, Recent, SameKeys
<1>4. Tied(m, q, D, U, r)
  <2>1. Pending(m, q, D)  BY DEF Agreed, Tied, Pending, SameKeys
  <2>2. \A c, a, k : Ahead(c, a, p, D, k) => Ahead(c, a, q, D, k)  BY DEF Ahead, SameKeys
  <2>3. Answerable(m, q, D, U) /\ Renewable(m, q, D, U)
    BY <2>2 DEF Agreed, Tied, Answerable, Renewable
  <2>4. Confirming(m, q, D, U) /\ Confirmed(m, q, D)
    BY <1>1 DEF Agreed, Tied, Confirming, Confirmed
  <2> QED BY <2>1, <2>3, <2>4 DEF Agreed, Tied
<1> QED BY <1>2, <1>3, <1>4 DEF Agreed

(* A new key is asked for.                                                 *)
LEMMA KeyRequestAgreed ==
  ASSUME NEW m, NEW x, NEW f, SuppOK(x, f), Upward(x.out) = {},
         NEW D, NEW U, Agreed(m, x.sup, D, U, x.rand), NEW msg \in Requests,
         NEW y, y = wpa_sm_key_request(x, msg)
  PROVE  Agreed(m, y.sup, D, U, x.rand) /\ Upward(y.out) = {}
<1>1. PICK p, z : p = x.sup /\ z = [x EXCEPT !.sup.request_counter = @ + 1]  OBVIOUS
<1>2. PICK q : q = [p EXCEPT !.request_counter = @ + 1]  OBVIOUS
<1>3. z.sup = q /\ z = [sup |-> z.sup, out |-> x.out, rand |-> x.rand]
  BY <1>1, <1>2 DEF SuppOK
<1>4. SupShape(q) /\ SameKeys(p, q)
  <2>1. SupShape(p)  BY <1>1 DEF SuppOK
  <2> QED BY <1>2, <2>1 DEF SupShape, SameKeys
<1>5. SuppOK(z, f)  BY <1>3, <1>4 DEF SuppOK
<1>6. PICK k, g : /\ k = x.sup.request_counter + 1
                  /\ g = [msg |-> msg, rc |-> k, nonce |-> NoNonce, mic |-> x.sup.ptk]
  OBVIOUS
<1>7. y = Reply(z, msg, k, NoNonce, x.sup.ptk) /\ msg \notin {"2/4", "4/4"}
  BY <1>1, <1>6 DEF wpa_sm_key_request, Requests
<1>8. y = [sup |-> z.sup, out |-> y.out, rand |-> z.rand] /\ Upward(y.out) \subseteq Upward(z.out)
  BY <1>5, <1>6, <1>7, ReplyUpward
<1>9. y.sup = q /\ Upward(y.out) = {}  BY <1>3, <1>8
<1>10. Agreed(m, q, D, U, x.rand)  BY <1>1, <1>4, SameKeysAgreed
<1> QED BY <1>9, <1>10

(* What wpa_sm_notify_assoc does.                                          *)
LEMMA AssocEffect ==
  ASSUME NEW v, SupShape(v), NEW q, q = wpa_sm_notify_assoc(v)
  PROVE  /\ q.ptk = NoKey /\ q.tptk = NoKey /\ q.key = v.key /\ q.assoc = TRUE
         /\ q.snonce = v.snonce /\ q.renew_snonce = TRUE /\ q.rx_replay_counter = 0
         /\ q.tk_to_set = v.tk_to_set
BY DEF SupShape, wpa_sm_notify_assoc

(* The station is associated, anew or again, with an authenticator that    *)
(* has given up its key.                                                   *)
LEMMA AssocAgreed ==
  ASSUME NEW m, NEW p, SupShape(p), NEW D, NEW U, NEW r, Agreed(m, p, D, U, r),
         ~Armed(m), ~Accepted(m), NEW v, NEW q,
         \/ p.assoc = TRUE /\ v = wpa_sm_notify_disassoc(p)
         \/ p.assoc = FALSE /\ v = p,
         q = wpa_sm_notify_assoc(v)
  PROVE  Agreed(m, q, D, U, r)
<1>1. SuppKeys(p, r)  BY DEF Agreed, Links
<1>2. /\ SupShape(v) /\ v.key = NoKey /\ v.snonce = p.snonce /\ v.tk_to_set \in BOOLEAN
  <2>1. CASE p.assoc = TRUE
    <3>1. v = wpa_sm_notify_disassoc(p)  BY <2>1
    <3>2. SupShape(v)  BY <3>1, DisassocShape
    <3> QED BY <1>1, <3>1, <3>2 DEF wpa_sm_notify_disassoc, SupShape, SuppKeys
  <2>2. CASE p.assoc = FALSE
    <3>1. v = p  BY <2>2
    <3>2. p.ptk = NoKey /\ p.key = NoKey  BY <1>1, <2>2 DEF SuppKeys
    <3> QED BY <1>1, <3>1, <3>2 DEF SuppKeys
  <2> QED BY <1>1, <2>1, <2>2 DEF SuppKeys
<1>3. /\ q.ptk = NoKey /\ q.tptk = NoKey /\ q.key = v.key /\ q.assoc = TRUE
      /\ q.snonce = v.snonce /\ q.renew_snonce = TRUE /\ q.rx_replay_counter = 0
      /\ q.tk_to_set = v.tk_to_set
  BY <1>2, AssocEffect
<1>4. Forgot(p, q)
  <2>1. q.ptk = NoKey /\ q.tptk = NoKey /\ q.key = NoKey /\ q.snonce = p.snonce
    BY <1>2, <1>3
  <2>2. q.rx_replay_counter \in Nat  BY <1>3
  <2>3. q.tk_to_set \in BOOLEAN  BY <1>2, <1>3
  <2>4. q.renew_snonce \in {p.renew_snonce, TRUE} /\ q.assoc \in BOOLEAN  BY <1>3
  <2> QED BY <2>1, <2>2, <2>3, <2>4 DEF Forgot
<1> QED BY <1>4, ForgotAgreed

-----------------------------------------------------------------------------
(* The invariant: the two ends of every station agree.                     *)
Keys(m, p, d, u, r) == InOrder(d) /\ Agreed(m, p, Downward(d), Upward(u), r)
Matched == \A s \in Stations : Keys(sm[s], sup[s], down[s], up[s], rand)
KeyInv == TimerInv /\ Matched

(* At first there are no keys and no frames.                               *)
LEMMA InitKey == Init => KeyInv
<1> SUFFICES ASSUME Init PROVE KeyInv  OBVIOUS
<1>1. ASSUME NEW s \in Stations PROVE Keys(sm[s], sup[s], down[s], up[s], rand)
  <2>1. sm[s] = NoStation /\ down[s] = <<>> /\ up[s] = <<>> /\ rand = 1  BY DEF Init
  <2>2. PICK k, b : sup[s] = NotAssociated(k, b)  BY DEF Init
  <2>3. PICK m, p : m = NoStation /\ p = NotAssociated(k, b)  OBVIOUS
  <2>4. InOrder(<<>>) /\ Downward(<<>>) = {} /\ Upward(<<>>) = {}
    BY DEF InOrder, Downward, Upward, Elements
  <2>5. /\ p.ptk = NoKey /\ p.tptk = NoKey /\ p.key = NoKey /\ p.assoc = FALSE
        /\ p.snonce = 0 /\ p.renew_snonce = TRUE /\ p.tk_to_set = FALSE
        /\ p.rx_replay_counter = 0
    BY <2>3 DEF NotAssociated, NoNonce
  <2>6. Links(p, {}, {}, 1)
    <3>1. SuppKeys(p, 1)
      <4>1. p.assoc \in BOOLEAN /\ p.renew_snonce \in BOOLEAN /\ p.tk_to_set \in BOOLEAN
        BY <2>5
      <4>2. p.rx_replay_counter \in Nat /\ p.snonce \in Nat /\ p.snonce < 1  BY <2>5
      <4>3. p.renew_snonce # FALSE  BY <2>5
      <4> QED BY <2>5, <4>1, <4>2, <4>3 DEF SuppKeys
    <3>2. SpentKeys(p, {}, {}) /\ KeyFirst(p, {}) /\ KeyAnswered(p, {}) /\ NotAgain(p, {})
      BY <2>5 DEF SpentKeys, KeyFirst, KeyAnswered, NotAgain
    <3>3. Typed({}, {}, 1) /\ SecondsFirst({}, {}) /\ Renewed(p, {})
      BY DEF Typed, SecondsFirst, Renewed
    <3> QED BY <3>1, <3>2, <3>3 DEF Links
  <2>7. Recent(m, p, {}, {})  BY <2>5 DEF Recent
  <2>8. /\ m.PTK_valid = FALSE /\ m.rx = "none" /\ m.update_snonce = FALSE
        /\ m.ptk = "INITIALIZE" /\ m.alt_SNonce = NoNonce
    BY <2>3 DEF NoStation
  <2>9. Keyless(m)  BY <2>8 DEF Keyless, Armed, Negotiating, Candidate, Accepted
  <2>10. ApKeys(m, 1)  BY <2>8, <2>9 DEF Keyless, ApKeys, NoNonce
  <2>11. Answerable(m, p, {}, {})  BY DEF Answerable
  <2>12. Tied(m, p, {}, {}, 1)  BY <2>9, <2>10, <2>11, KeylessTied
  <2> QED BY <2>1, <2>2, <2>3, <2>4, <2>6, <2>7, <2>12 DEF Keys, Agreed
<1> QED BY <1>1, InitTimer DEF KeyInv, Matched

(* Later on the ends still agree.                                          *)
LEMMA KeysLater ==
  ASSUME NEW m, NEW p, NEW d, NEW u, NEW r \in Nat, Keys(m, p, d, u, r), NEW q \in Nat, r <= q
  PROVE  Keys(m, p, d, u, q)
BY AgreedLater DEF Keys

(* A step that changes the record of one station.                          *)
LEMMA OneMatched ==
  ASSUME KeyInv, TimerInv', NEW s \in Stations, NEW m, sm' = [sm EXCEPT ![s] = m],
         rand <= rand', Keys(m, sup'[s], down'[s], up'[s], rand'),
         \A t \in Stations \ {s} : Keys(sm[t], sup'[t], down'[t], up'[t], rand)
  PROVE  KeyInv'
<1>1. sm'[s] = m /\ \A t \in Stations \ {s} : sm'[t] = sm[t]
  BY DEF KeyInv, TimerInv, Inv, StationsOK
<1>2. rand \in Nat /\ rand' \in Nat  BY DEF KeyInv, TimerInv, Shapes
<1>3. \A t \in Stations \ {s} : Keys(sm[t], sup'[t], down'[t], up'[t], rand')
  BY <1>2, KeysLater
<1>4. \A t \in Stations : Keys(sm'[t], sup'[t], down'[t], up'[t], rand')
  BY <1>1, <1>3
<1> QED BY <1>4 DEF KeyInv, Matched

(* A step that concerns one station only.                                  *)
LEMMA AloneMatched ==
  ASSUME KeyInv, TimerInv', NEW s \in Stations, NEW m, NEW p, NEW d, NEW u,
         sm' = [sm EXCEPT ![s] = m], sup' = [sup EXCEPT ![s] = p],
         down' = [down EXCEPT ![s] = d], up' = [up EXCEPT ![s] = u],
         rand <= rand', Keys(m, p, d, u, rand')
  PROVE  KeyInv'
<1>1. /\ sup'[s] = p /\ down'[s] = d /\ up'[s] = u
      /\ \A t \in Stations \ {s} : sup'[t] = sup[t] /\ down'[t] = down[t] /\ up'[t] = up[t]
  BY DEF KeyInv, TimerInv, Shapes
<1>2. \A t \in Stations \ {s} : Keys(sm[t], sup'[t], down'[t], up'[t], rand)
  BY <1>1 DEF KeyInv, Matched
<1>3. Keys(m, sup'[s], down'[s], up'[s], rand')  BY <1>1
<1> QED BY <1>2, <1>3, OneMatched

(* What is known of a station that is not in its loop.                     *)
LEMMA KeysNow ==
  ASSUME KeyInv, NEW s \in Stations
  PROVE  /\ rand \in Nat /\ rand > 0 /\ rand <= rand /\ SmOK(sm[s])
         /\ Station(sm[s], Crossing(s), rand) /\ SmTyped(sm[s]) /\ sm[s].ANonce \in Nat
         /\ SupShape(sup[s]) /\ DownOK(down[s], sm[s], rand) /\ UpOK(up[s], sm[s], rand)
         /\ InOrder(down[s])
         /\ Agreed(sm[s], sup[s], Downward(down[s]), Upward(up[s]), rand)
         /\ s # run.st => AtEase(sm[s])
<1>1. /\ rand \in Nat /\ rand > 0 /\ rand <= rand /\ SmOK(sm[s])
      /\ Station(sm[s], Crossing(s), rand) /\ Linked(down[s], up[s], sup[s], sm[s], rand)
      /\ s # run.st => AtEase(sm[s])
  BY DEF KeyInv, TimerInv, Inv, StationsOK, Shapes, Settled, Eased
<1>2. SmTyped(sm[s]) /\ sm[s].ANonce \in Nat  BY <1>1 DEF Station, SmTyped, SmCounters
<1>3. SupShape(sup[s]) /\ DownOK(down[s], sm[s], rand) /\ UpOK(up[s], sm[s], rand)
  BY <1>1 DEF Linked
<1>4. InOrder(down[s]) /\ Agreed(sm[s], sup[s], Downward(down[s]), Upward(up[s]), rand)
  BY DEF KeyInv, Matched, Keys
<1> QED BY <1>1, <1>2, <1>3, <1>4

(* Only the record of a station and run change.                            *)
LEMMA RecordMatched ==
  ASSUME KeyInv, TimerInv', NEW s \in Stations, NEW m, sm' = [sm EXCEPT ![s] = m],
         UNCHANGED <<sup, down, up, rand>>,
         Agreed(m, sup[s], Downward(down[s]), Upward(up[s]), rand)
  PROVE  KeyInv'
<1>1. PICK p, d, u : p = sup[s] /\ d = down[s] /\ u = up[s]  OBVIOUS
<1>2. sup' = [sup EXCEPT ![s] = p] /\ down' = [down EXCEPT ![s] = d]
      /\ up' = [up EXCEPT ![s] = u]
  BY <1>1, SameLinks DEF KeyInv
<1>3. rand <= rand' /\ rand' = rand  BY KeysNow
<1>4. Keys(m, p, d, u, rand')  BY <1>1, <1>3, KeysNow DEF Keys
<1> QED BY <1>2, <1>3, <1>4, AloneMatched

(* A timeout, a new pairwise key, a station that is visited.               *)
LEMMA EventMatched ==
  ASSUME KeyInv, TimerInv', NEW s \in Stations,
         Timeout(s) \/ wpa_rekey_ptk(s) \/ wpa_group_update_sta(s)
  PROVE  KeyInv'
<1>1. run.st = NoOne /\ s # run.st
  BY HandshakeAssumption DEF Timeout, wpa_rekey_ptk, wpa_group_update_sta, Idle
<1>2. PICK m : m = sm[s]  OBVIOUS
<1>3. /\ SmOK(m) /\ SmTyped(m) /\ AtEase(m) /\ rand \in Nat
      /\ Agreed(m, sup[s], Downward(down[s]), Upward(up[s]), rand)
  BY <1>1, <1>2, KeysNow
<1>4. UNCHANGED <<sup, down, up, rand>>
  BY DEF Timeout, wpa_rekey_ptk, wpa_group_update_sta
<1>5. PICK n : /\ sm' = [sm EXCEPT ![s] = n]
               /\ \/ n = wpa_send_eapol_timeout(m) \/ n = wpa_request_new_ptk(m)
                  \/ \E v : n = [m EXCEPT !.GUpdateStationKeys = v]
  <2>1. CASE Timeout(s)  BY <1>2, <2>1 DEF Timeout, Begin
  <2>2. CASE wpa_rekey_ptk(s)  BY <1>2, <2>2 DEF wpa_rekey_ptk, Begin
  <2>3. CASE wpa_group_update_sta(s)
    <3>1. PICK v : sm' = [sm EXCEPT ![s].GUpdateStationKeys = v]
      BY <2>3 DEF wpa_group_update_sta
    <3>2. PICK n : n = [m EXCEPT !.GUpdateStationKeys = v]  OBVIOUS
    <3>3. sm' = [sm EXCEPT ![s] = n]  BY <1>2, <3>1, <3>2
    <3> QED BY <3>2, <3>3
  <2> QED BY <2>1, <2>2, <2>3
<1>6. Agreed(n, sup[s], Downward(down[s]), Upward(up[s]), rand)
  <2>1. PICK p, D, U : p = sup[s] /\ D = Downward(down[s]) /\ U = Upward(up[s])  OBVIOUS
  <2>2. Agreed(n, p, D, U, rand)
    <3>1. Agreed(m, p, D, U, rand)  BY <1>3, <2>1
    <3>2. CASE n = wpa_request_new_ptk(m)  BY <1>3, <3>1, <3>2, NewPtkAgreed
    <3>3. CASE n = wpa_send_eapol_timeout(m)  BY <1>3, <3>1, <3>3, IndifferentAgreed
    <3>4. CASE \E v : n = [m EXCEPT !.GUpdateStationKeys = v]
      BY <1>3, <3>1, <3>4, IndifferentAgreed
    <3> QED BY <1>5, <3>2, <3>3, <3>4
  <2> QED BY <2>1, <2>2
<1> QED BY <1>4, <1>5, <1>6, RecordMatched

(* A frame arrives at the access point.                                    *)
LEMMA APReceiveMatched ==
  ASSUME KeyInv, TimerInv', NEW s \in Stations, APReceive(s)
  PROVE  KeyInv'
<1>1. PICK m, f, c : m = sm[s] /\ f = Head(up[s]) /\ c = Crossing(s)  OBVIOUS
<1>2. run.st = NoOne /\ s # run.st /\ up[s] # <<>> /\ UNCHANGED <<sup, down, rand>>
  BY HandshakeAssumption DEF APReceive, Idle
<1>3. PICK p, d, q, u : p = sup[s] /\ d = down[s] /\ q = up[s] /\ u = Tail(q)  OBVIOUS
<1>4. /\ SmOK(m) /\ SmTyped(m) /\ AtEase(m) /\ rand \in Nat /\ rand > 0 /\ rand <= rand
      /\ Station(m, c, rand) /\ InOrder(d) /\ Agreed(m, p, Downward(d), Upward(q), rand)
  BY <1>1, <1>2, <1>3, KeysNow
<1>5. UpOK(q, m, rand) /\ Len(q) <= CAP
  BY <1>1, <1>3 DEF KeyInv, TimerInv, Settled, Linked
<1>6. UpFrame(f, m, rand)  BY <1>1, <1>2, <1>3, <1>5, TailUp
<1>7. Upward(u) \subseteq Upward(q) /\ (f.msg \in {"2/4", "4/4"} => f \in Upward(q))
  <2>1. q \in Seq(Elements(q)) /\ q # <<>>  BY <1>2, <1>3, <1>5 DEF UpOK
  <2> QED BY <1>1, <1>3, <2>1, TailFrames
<1>8. down' = [down EXCEPT ![s] = d] /\ up' = [up EXCEPT ![s] = u]
      /\ sup' = [sup EXCEPT ![s] = p]
  <2>1. up' = [up EXCEPT ![s] = u]  BY <1>3 DEF APReceive
  <2> QED BY <1>2, <1>3, <2>1, SameLinks DEF KeyInv
<1>9. ASSUME NEW n, sm' = [sm EXCEPT ![s] = n], Agreed(n, p, Downward(d), Upward(q), rand)
      PROVE  KeyInv'
  <2>1. Agreed(n, p, Downward(d), Upward(u), rand)  BY <1>7, <1>9, AgreedShrink
  <2>2. Keys(n, p, d, u, rand') /\ rand <= rand'  BY <1>2, <1>4, <2>1 DEF Keys
  <2> QED BY <1>8, <1>9, <2>2, AloneMatched
<1>10. CASE sm' = [sm EXCEPT ![s] = [EventDeauth(@) EXCEPT !.assoc = FALSE]]
  <2>1. PICK n : n = [EventDeauth(m) EXCEPT !.assoc = FALSE]  OBVIOUS
  <2>2. Agreed(n, p, Downward(d), Upward(q), rand)  BY <1>4, <2>1, DeauthAgreed
  <2>3. sm' = [sm EXCEPT ![s] = n]  BY <1>1, <1>10, <2>1
  <2> QED BY <1>9, <2>2, <2>3
<1>11. CASE sm' = [sm EXCEPT ![s].MICVerified = FALSE]
  <2>1. PICK n : n = [m EXCEPT !.MICVerified = FALSE]  OBVIOUS
  <2>2. Agreed(n, p, Downward(d), Upward(q), rand)  BY <1>4, <2>1, IndifferentAgreed
  <2>3. sm' = [sm EXCEPT ![s] = n]  BY <1>1, <1>11, <2>1
  <2> QED BY <1>9, <2>2, <2>3
<1>12. CASE Expected(m, f) /\ ~MicRefused(m, f) /\ sm' = [sm EXCEPT ![s] = wpa_receive(@, f)]
  <2>1. PICK n, D, U : n = wpa_receive(m, f) /\ D = Downward(d) /\ U = Upward(q)  OBVIOUS
  <2>2. Agreed(n, p, D, U, rand)
    <3>1. Agreed(m, p, D, U, rand) /\ (f.msg \in {"2/4", "4/4"} => f \in U)
      BY <1>4, <1>7, <2>1
    <3> QED BY <1>4, <1>6, <1>12, <2>1, <3>1, ReceiveAgreed
  <2>3. sm' = [sm EXCEPT ![s] = n]  BY <1>1, <1>12, <2>1
  <2> QED BY <1>9, <2>1, <2>2, <2>3
<1>13. CASE UNCHANGED <<sm, run>>
  <2>1. sm' = [sm EXCEPT ![s] = m]  BY <1>1, <1>13, SameLinks DEF KeyInv
  <2> QED BY <1>4, <1>9, <2>1
<1>14. CASE Expected(m, f) /\ ~MicRefused(m, f) /\ Begin(s, wpa_receive(m, f))
  BY <1>1, <1>12, <1>14 DEF Begin
<1> QED BY <1>1, <1>10, <1>11, <1>12, <1>13, <1>14 DEF APReceive

(* A station associates, anew or again.                                    *)
LEMMA AssociateMatched ==
  ASSUME KeyInv, TimerInv', NEW s \in Stations, Associate(s)
  PROVE  KeyInv'
<1>1. PICK m : m = sm[s]  OBVIOUS
<1>2. run.st = NoOne /\ s # run.st /\ UNCHANGED <<down, up, rand>>
  BY HandshakeAssumption DEF Associate, Idle
<1>3. PICK d, u, a, b, p :
        /\ d = down[s] /\ u = up[s] /\ a = sup[s]
        /\ b = (IF a.assoc THEN wpa_sm_notify_disassoc(a) ELSE a)
        /\ p = wpa_sm_notify_assoc(b)
  OBVIOUS
<1>4. /\ SmOK(m) /\ SmTyped(m) /\ AtEase(m) /\ rand \in Nat /\ rand <= rand
      /\ SupShape(a) /\ InOrder(d) /\ Agreed(m, a, Downward(d), Upward(u), rand)
  BY <1>1, <1>2, <1>3, KeysNow
<1>5. down' = [down EXCEPT ![s] = d] /\ up' = [up EXCEPT ![s] = u]
      /\ sup' = [sup EXCEPT ![s] = p]
  <2>1. sup' = [sup EXCEPT ![s] = p]  BY <1>3 DEF Associate
  <2> QED BY <1>2, <1>3, <2>1, SameLinks DEF KeyInv
<1>6. PICK x : x = [sm |-> wpa_remove_ptk(m), done |-> group.done, out |-> <<>>, rand |-> rand]
  OBVIOUS
<1>7. PICK D, U : D = Downward(d) /\ U = Upward(u)  OBVIOUS
<1>8. Agreed(m, a, D, U, rand)  BY <1>4, <1>7
<1>9. PICK n : Begin(s, n) /\ Agreed(n, a, D, U, rand) /\ n.PTK_valid = FALSE
  <2>1. CASE m.assoc
    <3>1. PICK k, n : k = wpa_remove_ptk(m) /\ n = EventReauth(x).sm  OBVIOUS
    <3>2. Begin(s, n)  BY <1>1, <1>6, <2>1, <3>1 DEF Associate
    <3>3. SmOK(k)  BY <1>4, <3>1, RemovePtkSame
    <3>4. XOK(x) /\ x.sm = k
      BY <1>6, <3>1, <3>3 DEF XOK, XShape, KeyInv, TimerInv, Inv, GroupShape
    <3>5. Agreed(n, a, D, U, rand) /\ n.PTK_valid = FALSE
      BY <1>4, <1>8, <3>1, <3>4, ReauthAgreed
    <3> QED BY <3>2, <3>5
  <2>2. CASE ~m.assoc
    <3>1. PICK n : n = [wpa_auth_sta_associated(wpa_remove_ptk(m)) EXCEPT !.assoc = TRUE]
      OBVIOUS
    <3>2. Begin(s, n)  BY <1>1, <2>2, <3>1 DEF Associate
    <3>3. Agreed(n, a, D, U, rand) /\ n.PTK_valid = FALSE
      BY <1>4, <1>8, <3>1, AssociatedAgreed
    <3> QED BY <3>2, <3>3
  <2> QED BY <2>1, <2>2
<1>10. ~Armed(n) /\ ~Accepted(n)  BY <1>9 DEF Armed, Negotiating, Accepted
<1>11. (a.assoc = TRUE /\ b = wpa_sm_notify_disassoc(a)) \/ (a.assoc = FALSE /\ b = a)
  <2>1. a.assoc = TRUE \/ a.assoc = FALSE  BY <1>8 DEF Agreed, Links, SuppKeys
  <2> QED BY <1>3, <2>1
<1>12. Agreed(n, p, D, U, rand)  BY <1>3, <1>4, <1>9, <1>10, <1>11, AssocAgreed
<1>13. Keys(n, p, d, u, rand') /\ rand <= rand'  BY <1>2, <1>4, <1>7, <1>12 DEF Keys
<1>14. sm' = [sm EXCEPT ![s] = n]  BY <1>9 DEF Begin
<1> QED BY <1>5, <1>13, <1>14, AloneMatched

(* A deauthentication frame is sent.                                       *)
LEMMA DeauthPut ==
  ASSUME NEW q, q \in Seq(Elements(q)), InOrder(q), NEW d, d = Put(q, <<DeauthFrame>>)
  PROVE  InOrder(d) /\ Downward(d) \subseteq Downward(q)
<1>1. PICK f, o, S : f = DeauthFrame /\ o = <<f>> /\ S = Elements(q) \cup {f}  OBVIOUS
<1>2. q \in Seq(S) /\ o \in Seq(S) /\ f \in S  BY <1>1
<1>3. q \o o = Append(q, f)  BY <1>1, <1>2
<1>4. f.msg = "deauth"  BY <1>1 DEF DeauthFrame
<1>5. InOrder(q \o o) /\ Downward(q \o o) = Downward(q)
  BY <1>2, <1>3, <1>4, AppendFrames
<1>6. d = Put(q, o)  BY <1>1
<1> QED BY <1>2, <1>5, <1>6, PutFrames

(* A station is forgotten.                                                 *)
LEMMA FreedMatched ==
  ASSUME KeyInv, TimerInv', NEW s \in Stations, ap_handle_timer(s) \/ ap_handle_session_timer(s)
  PROVE  KeyInv'
<1>1. PICK m, n, p, q, u : m = sm[s] /\ n = NoStation /\ p = sup[s] /\ q = down[s] /\ u = up[s]
  OBVIOUS
<1>2. UNCHANGED <<sup, up, rand>> /\ sm' = [sm EXCEPT ![s] = n]
  BY <1>1 DEF ap_handle_timer, ap_handle_session_timer, Freed
<1>3. /\ rand \in Nat /\ rand > 0 /\ rand <= rand /\ DownOK(q, m, rand) /\ InOrder(q)
      /\ Agreed(m, p, Downward(q), Upward(u), rand)
  BY <1>1, KeysNow
<1>4. PICK d : down' = [down EXCEPT ![s] = d] /\ (d = q \/ d = Put(q, <<DeauthFrame>>))
  <2>1. CASE ap_handle_timer(s)
    <3>1. down' = [down EXCEPT ![s] = q]  BY <1>1, <2>1, SameLinks DEF ap_handle_timer, KeyInv
    <3> QED BY <3>1
  <2>2. CASE ap_handle_session_timer(s)
    <3>1. PICK d : d = Put(q, <<DeauthFrame>>)  OBVIOUS
    <3>2. down' = [down EXCEPT ![s] = d]  BY <1>1, <2>2, <3>1 DEF ap_handle_session_timer
    <3> QED BY <3>1, <3>2
  <2> QED BY <2>1, <2>2
<1>5. InOrder(d) /\ Downward(d) \subseteq Downward(q)
  <2>1. q \in Seq(Elements(q))  BY <1>3 DEF DownOK
  <2> QED BY <1>3, <1>4, <2>1, DeauthPut
<1>6. Agreed(m, p, Downward(d), Upward(u), rand)  BY <1>3, <1>5, AgreedShrink
<1>7. Agreed(n, p, Downward(d), Upward(u), rand)  BY <1>1, <1>3, <1>6, NoStationAgreed
<1>8. Keys(n, p, d, u, rand') /\ rand <= rand'  BY <1>2, <1>3, <1>5, <1>7 DEF Keys
<1>9. up' = [up EXCEPT ![s] = u] /\ sup' = [sup EXCEPT ![s] = p]
  BY <1>1, <1>2, SameLinks DEF KeyInv
<1> QED BY <1>2, <1>4, <1>8, <1>9, AloneMatched

(* A frame is lost.                                                        *)
LEMMA LoseMatched ==
  ASSUME KeyInv, TimerInv', NEW s \in Stations, Lose(s)
  PROVE  KeyInv'
<1>1. PICK m, p, a, b : m = sm[s] /\ p = sup[s] /\ a = down[s] /\ b = up[s]  OBVIOUS
<1>2. /\ rand \in Nat /\ rand <= rand /\ InOrder(a)
      /\ Agreed(m, p, Downward(a), Upward(b), rand)
      /\ a \in Seq(Elements(a)) /\ b \in Seq(Elements(b))
  BY <1>1, KeysNow DEF DownOK, UpOK
<1>3. sm' = [sm EXCEPT ![s] = m] /\ sup' = [sup EXCEPT ![s] = p] /\ rand' = rand
  BY <1>1, SameLinks DEF Lose, KeyInv
<1>4. PICK d, u : /\ down' = [down EXCEPT ![s] = d] /\ up' = [up EXCEPT ![s] = u]
                  /\ InOrder(d) /\ Downward(d) \subseteq Downward(a)
                  /\ Upward(u) \subseteq Upward(b)
  <2>1. CASE down[s] # <<>> /\ down' = [down EXCEPT ![s] = Tail(@)] /\ up' = up
    <3>1. PICK d : d = Tail(a)  OBVIOUS
    <3>2. InOrder(d) /\ Downward(d) \subseteq Downward(a)
      BY <1>1, <1>2, <2>1, <3>1, TailFrames
    <3>3. down' = [down EXCEPT ![s] = d] /\ up' = [up EXCEPT ![s] = b]
      BY <1>1, <2>1, <3>1, SameLinks DEF KeyInv
    <3> QED BY <3>2, <3>3
  <2>2. CASE up[s] # <<>> /\ up' = [up EXCEPT ![s] = Tail(@)] /\ down' = down
    <3>1. PICK u : u = Tail(b)  OBVIOUS
    <3>2. Upward(u) \subseteq Upward(b)  BY <1>1, <1>2, <2>2, <3>1, TailFrames
    <3>3. down' = [down EXCEPT ![s] = a] /\ up' = [up EXCEPT ![s] = u]
      BY <1>1, <2>2, <3>1, SameLinks DEF KeyInv
    <3> QED BY <1>2, <3>2, <3>3
  <2> QED BY <2>1, <2>2 DEF Lose
<1>5. Agreed(m, p, Downward(d), Upward(u), rand)  BY <1>2, <1>4, AgreedShrink
<1>6. Keys(m, p, d, u, rand') /\ rand <= rand'  BY <1>2, <1>3, <1>4, <1>5 DEF Keys
<1> QED BY <1>3, <1>4, <1>6, AloneMatched

(* Frames of a station are sent.                                           *)
LEMMA AnswersSent ==
  ASSUME NEW q, q \in Seq(Elements(q)), NEW o, o \in Seq(Elements(o)), NEW u, u = Put(q, o)
  PROVE  Upward(u) \subseteq Upward(q) \cup Upward(o)
<1>1. PICK S : S = Elements(q) \cup Elements(o)  OBVIOUS
<1>2. q \in Seq(S) /\ o \in Seq(S)  BY <1>1
<1> QED BY <1>2, PutFrames, ConcatUpward

(* The station asks for a new pairwise key, or leaves.                     *)
LEMMA StationSendsMatched ==
  ASSUME KeyInv, TimerInv', NEW s \in Stations, KeyRequest(s) \/ Leave(s)
  PROVE  KeyInv'
<1>1. PICK m, a, d, b : m = sm[s] /\ a = sup[s] /\ d = down[s] /\ b = up[s]  OBVIOUS
<1>2. /\ rand \in Nat /\ rand <= rand /\ InOrder(d) /\ SupShape(a)
      /\ Agreed(m, a, Downward(d), Upward(b), rand) /\ b \in Seq(Elements(b))
  BY <1>1, KeysNow DEF UpOK
<1>3. UNCHANGED <<sm, down, rand>>  BY DEF KeyRequest, Leave
<1>4. PICK x, f : x = [sup |-> a, out |-> <<>>, rand |-> rand] /\ f = DeauthFrame  OBVIOUS
<1>5. SuppOK(x, f) /\ x.sup = a /\ x.rand = rand /\ Upward(x.out) = {}
  <2>1. Answers(<<>>, f)  BY NoAnswer
  <2>2. x.out = <<>>  BY <1>4
  <2>3. Upward(<<>>) = {}  BY DEF Upward, Elements
  <2> QED BY <1>2, <1>4, <2>1, <2>2, <2>3 DEF SuppOK
<1>6. PICK D, U : D = Downward(d) /\ U = Upward(b)  OBVIOUS
<1>7. Agreed(m, a, D, U, rand)  BY <1>2, <1>6
<1>8. PICK y : /\ SuppOK(y, f) /\ sup' = [sup EXCEPT ![s] = y.sup]
               /\ up' = [up EXCEPT ![s] = Put(@, y.out)]
               /\ Agreed(m, y.sup, D, U, rand) /\ Upward(y.out) \subseteq U
  <2>1. CASE KeyRequest(s)
    <3>0. PICK msg \in Requests :
            /\ sup' = [sup EXCEPT ![s] = wpa_sm_key_request(x, msg).sup]
            /\ up' = [up EXCEPT ![s] = Put(@, wpa_sm_key_request(x, msg).out)]
      BY <1>1, <1>4, <2>1 DEF KeyRequest
    <3>1. PICK y :
            /\ y = wpa_sm_key_request(x, msg)
            /\ sup' = [sup EXCEPT ![s] = y.sup] /\ up' = [up EXCEPT ![s] = Put(@, y.out)]
      BY <3>0
    <3>2. SuppOK(y, f)  BY <1>5, <3>1, KeyRequestOK
    <3>3. Agreed(m, y.sup, D, U, rand) /\ Upward(y.out) = {}
      <4>1. Agreed(m, x.sup, D, U, x.rand)  BY <1>5, <1>7
      <4>2. Agreed(m, y.sup, D, U, x.rand) /\ Upward(y.out) = {}
        BY <1>5, <3>1, <4>1, KeyRequestAgreed
      <4> QED BY <1>5, <4>2
    <3> QED BY <3>1, <3>2, <3>3
  <2>2. CASE Leave(s)
    <3>1. PICK y : y = wpa_sm_deauthenticate(x)  OBVIOUS
    <3>2. SuppOK(y, f)  BY <1>5, <3>1, DeauthenticateOK
    <3>3. Remains(a, x.sup)
      BY <1>5, <1>7 DEF Remains, Agreed, Links, SuppKeys
    <3>4. Upward(x.out) \subseteq U  BY <1>5
    <3>5. Agreed(m, y.sup, D, U, rand) /\ Upward(y.out) \subseteq U
      BY <1>5, <1>7, <3>1, <3>3, <3>4, DeauthenticateAgreed
    <3>6. sup' = [sup EXCEPT ![s] = y.sup] /\ up' = [up EXCEPT ![s] = Put(@, y.out)]
      BY <1>1, <1>4, <2>2, <3>1 DEF Leave
    <3> QED BY <3>2, <3>5, <3>6
  <2> QED BY <2>1, <2>2
<1>9. PICK u, p, o : u = Put(b, o) /\ p = y.sup /\ o = y.out  OBVIOUS
<1>10. Upward(u) \subseteq U
  <2>1. o \in Seq(Elements(o))  BY <1>8, <1>9 DEF SuppOK, Answers
  <2>2. Upward(u) \subseteq Upward(b) \cup Upward(o)  BY <1>2, <1>9, <2>1, AnswersSent
  <2> QED BY <1>6, <1>8, <1>9, <2>2
<1>11. Agreed(m, p, D, Upward(u), rand)  BY <1>8, <1>9, <1>10, AgreedShrink
<1>12. Keys(m, p, d, u, rand') /\ rand <= rand'  BY <1>2, <1>3, <1>6, <1>11 DEF Keys
<1>13. sm' = [sm EXCEPT ![s] = m] /\ down' = [down EXCEPT ![s] = d]
  BY <1>1, <1>3, SameLinks DEF KeyInv
<1>14. sup' = [sup EXCEPT ![s] = p] /\ up' = [up EXCEPT ![s] = u]  BY <1>1, <1>8, <1>9
<1> QED BY <1>12, <1>13, <1>14, AloneMatched

(* A frame arrives at the station.                                         *)
LEMMA StaReceiveMatched ==
  ASSUME KeyInv, TimerInv', NEW s \in Stations, StaReceive(s)
  PROVE  KeyInv'
<1>1. PICK m, a, q, b, f : /\ m = sm[s] /\ a = sup[s] /\ q = down[s] /\ b = up[s]
                           /\ f = Head(q)
  OBVIOUS
<1>2. /\ rand \in Nat /\ rand > 0 /\ InOrder(q) /\ SupShape(a) /\ m.ANonce \in Nat
      /\ Agreed(m, a, Downward(q), Upward(b), rand) /\ b \in Seq(Elements(b))
      /\ DownOK(q, m, rand)
  BY <1>1, KeysNow DEF UpOK
<1>3. sm' = sm /\ q # <<>> /\ down' = [down EXCEPT ![s] = Tail(@)]
  BY <1>1 DEF StaReceive
<1>4. PICK d, D, E, U : /\ d = Tail(q) /\ D = Downward(q) /\ E = Downward(d)
                        /\ U = Upward(b)
  OBVIOUS
<1>5. q \in Seq(Elements(q)) /\ \A g \in Elements(q) : DownFrame(g, m, rand)
  BY <1>2 DEF DownOK
<1>6. /\ E \subseteq D /\ InOrder(d)
      /\ f.msg # "deauth" => Core(f) \in D /\ \A g \in E : Before(Core(f), g)
  BY <1>1, <1>2, <1>3, <1>4, <1>5, TailFrames
<1>7. f.msg # "deauth" => f.msg \in {"1/4", "3/4", "1/2"}
  <2>1. f \in Elements(q)
    <3>1. 1 \in DOMAIN q /\ f = q[1]  BY <1>1, <1>3, <1>5
    <3> QED BY <3>1 DEF Elements
  <2> QED BY <1>5, <2>1 DEF DownFrame
<1>8. PICK x : x = [sup |-> a, out |-> <<>>, rand |-> rand]  OBVIOUS
<1>9. SuppOK(x, f) /\ x.sup = a /\ x.rand = rand /\ Upward(x.out) = {}
  <2>1. Answers(<<>>, f)  BY NoAnswer
  <2>2. x.out = <<>>  BY <1>8
  <2>3. Upward(<<>>) = {}  BY DEF Upward, Elements
  <2> QED BY <1>2, <1>8, <2>1, <2>2, <2>3 DEF SuppOK
<1>10. Agreed(m, a, D, U, rand) /\ Agreed(m, a, E, U, rand)
  BY <1>2, <1>4, <1>6, AgreedShrink
<1>11. PICK ok, y :
         /\ y = IF ~a.assoc THEN x
                ELSE IF f.msg = "deauth" THEN [x EXCEPT !.sup = wpa_sm_notify_disassoc(@)]
                ELSE wpa_sm_rx_eapol(x, f, ok)
         /\ sup' = [sup EXCEPT ![s] = y.sup]
         /\ up' = [up EXCEPT ![s] = Put(@, y.out)]
         /\ rand' = y.rand
  <2>1. PICK ok \in BOOLEAN :
          \E y \in {IF ~a.assoc THEN x
                   ELSE IF f.msg = "deauth" THEN [x EXCEPT !.sup = wpa_sm_notify_disassoc(@)]
                   ELSE wpa_sm_rx_eapol(x, f, ok)} :
            /\ sup' = [sup EXCEPT ![s] = y.sup]
            /\ up' = [up EXCEPT ![s] = Put(@, y.out)]
            /\ rand' = y.rand
    BY <1>1, <1>8, Zenon DEF StaReceive
  <2> QED BY <2>1
<1>12. /\ SuppOK(y, f) /\ y.rand \in {rand, rand + 1}
       /\ Agreed(m, y.sup, E, U \cup Upward(y.out), y.rand)
  <2>1. CASE y = x
    <3>1. U \cup Upward(y.out) = U  BY <1>9, <2>1
    <3> QED BY <1>9, <1>10, <2>1, <3>1
  <2>2. CASE y = [x EXCEPT !.sup = wpa_sm_notify_disassoc(@)]
    <3>1. PICK v : v = wpa_sm_notify_disassoc(a)  OBVIOUS
    <3>2. SupShape(v)  BY <1>2, <3>1, DisassocShape
    <3>3. y = [sup |-> v, out |-> <<>>, rand |-> rand]  BY <1>8, <2>2, <3>1
    <3>4. SuppOK(y, f) /\ Upward(y.out) = {} /\ y.sup = v /\ y.rand = rand
      BY <1>8, <1>9, <3>2, <3>3 DEF SuppOK
    <3>5. Remains(a, a)  BY <1>10 DEF Remains, Agreed, Links, SuppKeys
    <3>6. Agreed(m, v, E, U, rand)  BY <1>2, <1>10, <3>1, <3>5, DisassocAgreed
    <3>7. U \cup Upward(y.out) = U  BY <3>4
    <3> QED BY <3>4, <3>6, <3>7
  <2>3. CASE a.assoc = TRUE /\ f.msg # "deauth" /\ y = wpa_sm_rx_eapol(x, f, ok)
    <3>1. SuppOK(y, f) /\ y.rand \in {rand, rand + 1}
      BY <1>7, <1>9, <2>3, RxEapolOK
    <3>2. Agreed(m, x.sup, D, U, x.rand) /\ x.sup.assoc = TRUE /\ x.rand \in Nat /\ x.rand > 0
      BY <1>2, <1>9, <1>10, <2>3
    <3>3. Agreed(m, y.sup, E, U \cup Upward(y.out), y.rand)
      BY <1>2, <1>6, <1>7, <1>9, <2>3, <3>2, RxEapolAgreed
    <3> QED BY <3>1, <3>3
  <2>4. a.assoc = TRUE \/ a.assoc = FALSE  BY <1>10 DEF Agreed, Links, SuppKeys
  <2> QED BY <1>11, <2>1, <2>2, <2>3, <2>4
<1>13. rand' \in Nat /\ rand <= rand'  BY <1>2, <1>11, <1>12
<1>14. PICK u, p, o : u = Put(b, o) /\ p = y.sup /\ o = y.out  OBVIOUS
<1>15. Upward(u) \subseteq U \cup Upward(o)
  <2>1. o \in Seq(Elements(o))  BY <1>12, <1>14 DEF SuppOK, Answers
  <2> QED BY <1>2, <1>4, <1>14, <2>1, AnswersSent
<1>16. Agreed(m, p, E, Upward(u), rand')
  <2>1. Agreed(m, p, E, U \cup Upward(o), rand')  BY <1>11, <1>12, <1>14
  <2> QED BY <1>15, <2>1, AgreedShrink
<1>17. Keys(m, p, d, u, rand')  BY <1>4, <1>6, <1>16 DEF Keys
<1>18. sm' = [sm EXCEPT ![s] = m] /\ down' = [down EXCEPT ![s] = d]
  BY <1>1, <1>3, <1>4, SameLinks DEF KeyInv
<1>19. sup' = [sup EXCEPT ![s] = p] /\ up' = [up EXCEPT ![s] = u]  BY <1>1, <1>11, <1>14
<1> QED BY <1>13, <1>17, <1>18, <1>19, AloneMatched

(* Setting a group key changes no pairwise key and no order.               *)
LEMMA RelabelledMatched ==
  ASSUME NEW queues, NEW v, NEW w,
         \/ v = Relabelled(AfterSetkeysdone, queues) /\ w = RelabelledKeys(AfterSetkeysdone)
         \/ v = Relabelled(AfterSetkeys, queues) /\ w = RelabelledKeys(AfterSetkeys),
         NEW t \in Stations, SupShape(sup[t]), NEW n, NEW k, DownOK(queues[t], n, k),
         NEW m, NEW u, NEW r, Keys(m, sup[t], queues[t], u, r)
  PROVE  Keys(m, w[t], v[t], u, r)
<1>1. PICK a, b, q, d : a = sup[t] /\ b = w[t] /\ q = queues[t] /\ d = v[t]  OBVIOUS
<1>2. PICK g : b = [a EXCEPT !.gtk = g]
  <2>1. CASE w = RelabelledKeys(AfterSetkeysdone)
    <3>1. b = [a EXCEPT !.gtk = [i \in {1, 2} |-> AfterSetkeysdone(@[i])]]
      BY <1>1, <2>1 DEF RelabelledKeys
    <3> QED BY <3>1
  <2>2. CASE w = RelabelledKeys(AfterSetkeys)
    <3>1. b = [a EXCEPT !.gtk = [i \in {1, 2} |-> AfterSetkeys(@[i])]]
      BY <1>1, <2>2 DEF RelabelledKeys
    <3> QED BY <3>1
  <2> QED BY <2>1, <2>2
<1>3. PICK G : d = [i \in DOMAIN q |-> [q[i] EXCEPT !.gtk = G[i]]]
  <2>1. CASE v = Relabelled(AfterSetkeysdone, queues)
    <3>1. PICK G : G = [i \in DOMAIN q |->
                          {[e EXCEPT !.key = AfterSetkeysdone(e.key)] : e \in q[i].gtk}]
      OBVIOUS
    <3>2. d = [i \in DOMAIN q |-> [q[i] EXCEPT !.gtk =
                  {[e EXCEPT !.key = AfterSetkeysdone(e.key)] : e \in q[i].gtk}]]
      BY <1>1, <2>1 DEF Relabelled
    <3>3. d = [i \in DOMAIN q |-> [q[i] EXCEPT !.gtk = G[i]]]  BY <3>1, <3>2
    <3> QED BY <3>3
  <2>2. CASE v = Relabelled(AfterSetkeys, queues)
    <3>1. PICK G : G = [i \in DOMAIN q |->
                          {[e EXCEPT !.key = AfterSetkeys(e.key)] : e \in q[i].gtk}]
      OBVIOUS
    <3>2. d = [i \in DOMAIN q |-> [q[i] EXCEPT !.gtk =
                  {[e EXCEPT !.key = AfterSetkeys(e.key)] : e \in q[i].gtk}]]
      BY <1>1, <2>2 DEF Relabelled
    <3>3. d = [i \in DOMAIN q |-> [q[i] EXCEPT !.gtk = G[i]]]  BY <3>1, <3>2
    <3> QED BY <3>3
  <2> QED BY <2>1, <2>2
<1>4. SameKeys(a, b)
  <2>1. SupShape(a)  BY <1>1
  <2> QED BY <1>2, <2>1 DEF SupShape, SameKeys
<1>5. \A i \in DOMAIN q : Core(d[i]) = Core(q[i])
  <2> SUFFICES ASSUME NEW i \in DOMAIN q PROVE Core(d[i]) = Core(q[i])  OBVIOUS
  <2>1. PICK f, e : f = q[i] /\ e = d[i]  OBVIOUS
  <2>2. f \in Elements(q) /\ DownOK(q, n, k)  BY <1>1, <2>1 DEF Elements
  <2>3. DownFrame(f, n, k)  BY <2>2 DEF DownOK
  <2>4. e = [f EXCEPT !.gtk = G[i]]  BY <1>3, <2>1
  <2>5. e = [msg |-> f.msg, rc |-> f.rc, mic |-> f.mic, gtk |-> G[i], nonce |-> f.nonce]
    BY <2>3, <2>4 DEF DownFrame
  <2>6. e.msg = f.msg /\ e.rc = f.rc /\ e.mic = f.mic /\ e.nonce = f.nonce  BY <2>5
  <2> QED BY <2>1, <2>6 DEF Core
<1>6. DOMAIN d = DOMAIN q  BY <1>3
<1>7. Downward(d) = Downward(q) /\ (InOrder(q) => InOrder(d))
  BY <1>5, <1>6, RelabelledFrames
<1>8. InOrder(q) /\ Agreed(m, a, Downward(q), Upward(u), r)  BY <1>1 DEF Keys
<1>9. Agreed(m, b, Downward(q), Upward(u), r)  BY <1>4, <1>8, SameKeysAgreed
<1>10. Keys(m, b, d, u, r)  BY <1>7, <1>8, <1>9 DEF Keys
<1> QED BY <1>1, <1>10

(* The group machine.                                                      *)
LEMMA GroupStepMatched ==
  ASSUME KeyInv, TimerInv', wpa_group_sm_step \/ wpa_rekey_gtk \/ UNCHANGED vars
  PROVE  KeyInv'
<1>1. UNCHANGED <<sm, up, rand>>
  BY DEF wpa_group_sm_step, wpa_group_setkeys, wpa_group_setkeysdone, wpa_rekey_gtk, vars
<1>2. \/ UNCHANGED <<sup, down>>
      \/ down' = Relabelled(AfterSetkeysdone, down) /\ sup' = RelabelledKeys(AfterSetkeysdone)
      \/ down' = Relabelled(AfterSetkeys, down) /\ sup' = RelabelledKeys(AfterSetkeys)
  BY DEF wpa_group_sm_step, wpa_group_setkeys, wpa_group_setkeysdone, wpa_rekey_gtk, vars
<1>3. PICK v, w : v = down' /\ w = sup'  OBVIOUS
<1>4. ASSUME NEW t \in Stations PROVE Keys(sm[t], w[t], v[t], up[t], rand)
  <2>1. Keys(sm[t], sup[t], down[t], up[t], rand)  BY DEF KeyInv, Matched
  <2>2. CASE UNCHANGED <<sup, down>>  BY <1>3, <2>1, <2>2
  <2>3. CASE \/ v = Relabelled(AfterSetkeysdone, down) /\ w = RelabelledKeys(AfterSetkeysdone)
             \/ v = Relabelled(AfterSetkeys, down) /\ w = RelabelledKeys(AfterSetkeys)
    <3>1. SupShape(sup[t]) /\ DownOK(down[t], sm[t], rand)  BY KeysNow
    <3>2. PICK m, u, r : m = sm[t] /\ u = up[t] /\ r = rand  OBVIOUS
    <3>3. DownOK(down[t], m, r) /\ Keys(m, sup[t], down[t], u, r)  BY <2>1, <3>1, <3>2
    <3>4. Keys(m, w[t], v[t], u, r)  BY <2>3, <3>1, <3>3, RelabelledMatched
    <3> QED BY <3>2, <3>4
  <2> QED BY <1>2, <1>3, <2>2, <2>3
<1>5. Matched'  BY <1>1, <1>3, <1>4 DEF Matched
<1> QED BY <1>5 DEF KeyInv

(* wpa_sm_step.                                                            *)
LEMMA StepMatched ==
  ASSUME KeyInv, TimerInv', NEW s \in Stations, wpa_sm_step(s)
  PROVE  KeyInv'
<1>1. PICK ok, x, y, z :
        /\ x = [sm |-> sm[s], done |-> group.done, out |-> <<>>, rand |-> rand]
        /\ y = PtkRound(x, CurrentGtk, ok)
        /\ z = GroupRound(y, CurrentGtk)
        /\ Round(s, z)
  BY DEF wpa_sm_step
<1>2. PICK m, p, q, b, c, g : /\ m = sm[s] /\ p = sup[s] /\ q = down[s] /\ b = up[s]
                              /\ c = Crossing(s) /\ g = CurrentGtk
  OBVIOUS
<1>3. /\ rand \in Nat /\ rand > 0 /\ InOrder(q) /\ SupShape(p) /\ Station(m, c, rand)
      /\ Agreed(m, p, Downward(q), Upward(b), rand) /\ DownOK(q, m, rand)
  BY <1>2, KeysNow
<1>4. q \in Seq(Elements(q)) /\ c \in BOOLEAN  BY <1>2, <1>3 DEF DownOK, Crossing
<1>5. Given(x, c)
  <2>1. XOK(x) /\ x.rand = rand /\ x.sm = m /\ x.out = <<>>
    BY <1>1, <1>2 DEF XOK, XShape, KeyInv, TimerInv, Inv, StationsOK, GroupShape
  <2>2. DownOK(<<>>, m, rand)  BY DEF DownOK, Elements
  <2> QED BY <1>3, <1>4, <2>1, <2>2 DEF Given
<1>6. PICK S, U : S = Elements(q) /\ U = Upward(b)  OBVIOUS
<1>7. Keyed(x, p, q, U)
  <2>1. q \o x.out = q  BY <1>1, <1>4
  <2>2. x.sm = m /\ x.rand = rand  BY <1>1, <1>2
  <2> QED BY <1>3, <1>6, <2>1, <2>2 DEF Keyed
<1>8. Keyed(z, p, q, U) /\ Queued(q, z) /\ Made(x, z, TRUE)
  <2>1. y = PtkRound(x, g, ok) /\ z = GroupRound(y, g)  BY <1>1, <1>2
  <2>2. q \in Seq(S)  BY <1>4, <1>6
  <2>3. Made(x, z, TRUE)
    <3>1. PICK e : e = TRUE  OBVIOUS
    <3>2. Made(x, z, e)  BY <1>4, <1>5, <2>1, <3>1, RoundMade
    <3> QED BY <3>1, <3>2
  <2> QED BY <1>5, <1>7, <2>1, <2>2, <2>3, RoundKeyed
<1>9. PICK k, r, d : k = z.sm /\ r = z.rand /\ d = Put(q, z.out)  OBVIOUS
<1>10. rand' = r /\ r \in Nat /\ r > 0 /\ rand <= r
  <2>1. rand' = r  BY <1>1, <1>9 DEF Round
  <2>2. rand' \in Nat /\ rand' > 0  BY DEF TimerInv, Shapes
  <2>3. rand <= r  BY <1>1, <1>8, <1>9 DEF Made
  <2> QED BY <2>1, <2>2, <2>3
<1>11. Keys(k, p, d, b, r)
  <2>1. PICK T : q \in Seq(T) /\ z.out \in Seq(T)  BY <1>8 DEF Queued
  <2>2. InOrder(d) /\ Downward(d) \subseteq Downward(q \o z.out)
    BY <1>8, <1>9, <2>1, PutFrames DEF Keyed
  <2>3. Agreed(k, p, Downward(q \o z.out), U, r)  BY <1>8, <1>9 DEF Keyed
  <2>4. Agreed(k, p, Downward(d), U, r)  BY <2>2, <2>3, AgreedShrink
  <2> QED BY <1>6, <2>2, <2>4 DEF Keys
<1>12. PICK n : n = IF (PtkTarget(k) = None /\ GroupTarget(k) = None) /\ run.free
                    THEN NoStation ELSE k
  OBVIOUS
<1>13. sm' = [sm EXCEPT ![s] = n] /\ up' = up  BY <1>1, <1>9, <1>12 DEF Round
<1>14. Keys(n, p, d, b, r)
  <2>1. CASE n = k  BY <1>11, <2>1
  <2>2. CASE n = NoStation
    <3>1. InOrder(d) /\ Agreed(k, p, Downward(d), Upward(b), r)  BY <1>11 DEF Keys
    <3>2. Agreed(n, p, Downward(d), Upward(b), r)  BY <1>10, <2>2, <3>1, NoStationAgreed
    <3> QED BY <3>1, <3>2 DEF Keys
  <2> QED BY <1>12, <2>1, <2>2
<1>15. PICK sent : sent = [down EXCEPT ![s] = d]  OBVIOUS
<1>16. sent[s] = d /\ \A t \in Stations \ {s} : sent[t] = down[t]
  BY <1>15 DEF KeyInv, TimerInv, Shapes
<1>17. /\ Keys(n, sup[s], sent[s], up'[s], r)
       /\ \A t \in Stations \ {s} : Keys(sm[t], sup[t], sent[t], up'[t], rand)
  BY <1>2, <1>13, <1>14, <1>16 DEF KeyInv, Matched
<1>18. /\ Keys(n, sup'[s], down'[s], up'[s], r)
       /\ \A t \in Stations \ {s} : Keys(sm[t], sup'[t], down'[t], up'[t], rand)
  <2>1. CASE down' = sent /\ sup' = sup  BY <1>17, <2>1
  <2>2. CASE /\ down' = Relabelled(AfterSetkeysdone, sent)
             /\ sup' = RelabelledKeys(AfterSetkeysdone)
    <3>1. PICK v, w : v = down' /\ w = sup'  OBVIOUS
    <3>2. v = Relabelled(AfterSetkeysdone, sent) /\ w = RelabelledKeys(AfterSetkeysdone)
      BY <2>2, <3>1
    <3>3. \A t \in Stations : SupShape(sup[t])  BY DEF KeyInv, TimerInv, Settled, Linked
    <3>4. \A t \in Stations : \E h, j : DownOK(sent[t], h, j)
      <4>1. \A t \in Stations \ {s} : DownOK(sent[t], sm[t], rand)
        BY <1>16 DEF KeyInv, TimerInv, Settled, Linked
      <4>2. \E h, j : DownOK(sent[s], h, j)
        <5>1. Ages(m, rand, k, r) /\ DownOK(z.out, k, r)
          BY <1>1, <1>2, <1>8, <1>9 DEF Made, Given
        <5>2. DownOK(q, k, r)  BY <1>3, <5>1, AgesDown
        <5>3. DownOK(d, k, r)  BY <1>9, <5>1, <5>2, PutDown
        <5> QED BY <1>16, <5>3
      <4> QED BY <4>1, <4>2
    <3>5. ASSUME NEW t \in Stations, NEW h, NEW u, NEW a, Keys(h, sup[t], sent[t], u, a)
          PROVE  Keys(h, w[t], v[t], u, a)
      BY <3>2, <3>3, <3>4, <3>5, RelabelledMatched
    <3> QED BY <1>17, <3>1, <3>5
  <2>3. sent = [down EXCEPT ![s] = Put(@, z.out)]  BY <1>2, <1>9, <1>15
  <2> QED BY <1>1, <2>1, <2>2, <2>3 DEF Round
<1>19. rand <= rand' /\ Keys(n, sup'[s], down'[s], up'[s], rand')  BY <1>10, <1>18
<1> QED BY <1>13, <1>18, <1>19, OneMatched

(* Every step keeps the invariant.                                         *)
LEMMA NextKey ==
  ASSUME KeyInv, [Next]_vars
  PROVE  KeyInv'
<1>1. TimerInv'  BY NextTimer DEF KeyInv
<1>2. CASE wpa_group_sm_step \/ wpa_rekey_gtk \/ UNCHANGED vars
  BY <1>1, <1>2, GroupStepMatched
<1>3. ASSUME NEW s \in Stations, wpa_sm_step(s) PROVE KeyInv'
  BY <1>1, <1>3, StepMatched
<1>4. ASSUME NEW s \in Stations, Timeout(s) \/ wpa_rekey_ptk(s) \/ wpa_group_update_sta(s)
      PROVE  KeyInv'
  BY <1>1, <1>4, EventMatched
<1>5. ASSUME NEW s \in Stations, Associate(s) \/ APReceive(s) PROVE KeyInv'
  BY <1>1, <1>5, AssociateMatched, APReceiveMatched
<1>6. ASSUME NEW s \in Stations, StaReceive(s) \/ Lose(s) \/ KeyRequest(s) \/ Leave(s)
      PROVE  KeyInv'
  BY <1>1, <1>6, StaReceiveMatched, LoseMatched, StationSendsMatched
<1>7. ASSUME NEW s \in Stations, ap_handle_timer(s) \/ ap_handle_session_timer(s)
      PROVE  KeyInv'
  BY <1>1, <1>7, FreedMatched
<1> QED BY <1>2, <1>3, <1>4, <1>5, <1>6, <1>7 DEF Next

(* No key that wpa_supplicant_install_ptk gives to the driver has been     *)
(* zeroed before, though message 3/4 is processed whenever it comes again, *)
(* and a 1/4 may come between.                                             *)
THEOREM KeyNeverCleared == Spec => []NoClearedKey
<1>1. KeyInv => NoClearedKey
  <2> SUFFICES ASSUME KeyInv, NEW s \in Stations PROVE sup[s].key # ClearedKey
    BY DEF NoClearedKey
  <2>1. PICK p : p = sup[s]  OBVIOUS
  <2>2. SuppKeys(p, rand) /\ rand \in Nat  BY <2>1, KeysNow DEF Agreed, Links
  <2>3. CASE p.ptk = NoKey  BY <2>1, <2>2, <2>3 DEF SuppKeys, NoKey, ClearedKey
  <2>4. CASE p.ptk # NoKey
    <3>1. IsKey(p.key, rand)  BY <2>2, <2>4 DEF SuppKeys
    <3> QED BY <2>1, <3>1 DEF IsKey, ClearedKey
  <2> QED BY <2>3, <2>4
<1>2. Spec => []KeyInv  BY InitKey, NextKey, PTL DEF Spec
<1> QED BY <1>1, <1>2, PTL

(* A station and the authenticator that both take the 4-way handshake for  *)
(* completed have set the same key, made from the right master key: for    *)
(* every number of stations, of associations and of renewed keys, every    *)
(* kind of supplicant, every length of the links, and every number of      *)
(* tries, whatever was lost or left of an earlier handshake.               *)
THEOREM SameKeyAlways == Spec => []SamePairwiseKey
<1>1. KeyInv => SamePairwiseKey
  <2> SUFFICES ASSUME KeyInv, NEW s \in Stations, Idle, sm[s].ptk = "PTKINITDONE", sup[s].assoc
               PROVE  sm[s].key = sup[s].key /\ sm[s].key # NoKey /\ sm[s].key[1] = PSK
    BY DEF SamePairwiseKey
  <2>1. PICK m, p, D, U : /\ m = sm[s] /\ p = sup[s]
                          /\ D = Downward(down[s]) /\ U = Upward(up[s])
    OBVIOUS
  <2>2. s # run.st  BY HandshakeAssumption DEF Idle
  <2>3. Agreed(m, p, D, U, rand) /\ AtEase(m)  BY <2>1, <2>2, KeysNow
  <2>4. p.assoc = TRUE /\ p.key = p.ptk  BY <2>1, <2>3 DEF Agreed, Links, SuppKeys
  <2>5. ApKeys(m, rand) /\ Confirmed(m, p, D)  BY <2>3 DEF Agreed, Tied
  <2>6. m.PTK_valid = TRUE  BY <2>1, <2>3, <2>5 DEF ApKeys, AtEase
  <2>7. IsKey(m.PTK, rand) /\ m.PTK[1] = PSK  BY <2>5, <2>6 DEF ApKeys
  <2>8. Accepted(m) /\ m.ptk = "PTKINITDONE"  BY <2>1, <2>6 DEF Accepted
  <2>9. Held(m.PTK, p, D) /\ m.key = m.PTK  BY <2>5, <2>8 DEF Confirmed
  <2>10. p.ptk = m.PTK  BY <2>4, <2>9 DEF Held
  <2>11. m.PTK # NoKey  BY <2>7, KeyNotEmpty
  <2> QED BY <2>1, <2>4, <2>7, <2>9, <2>10, <2>11
<1>2. Spec => []KeyInv  BY InitKey, NextKey, PTL DEF Spec
<1> QED BY <1>1, <1>2, PTL
=================================================================================
