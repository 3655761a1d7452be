----------------------------- MODULE WpaGroupProofs -----------------------------
(***************************************************************************)
(* A station whose handshakes the authenticator takes for completed has    *)
(* the group key in use, for every number of stations, of rekeyings, of    *)
(* retries and of frames under way (GroupKeyHeld).                         *)
(*                                                                         *)
(* An answer does not say which group key it is an answer for: it has the  *)
(* replay counter of the frame it answers, and that frame brought the key. *)
(* The invariant (Shared) therefore speaks of the frames whose answer      *)
(* would be accepted now (Counts).  Coming: such a frame brings the        *)
(* current key, and so does every later one.  Answering: if such an answer *)
(* is on its way, the supplicant has the key.  Quiet: without a group key  *)
(* handshake no counter is valid, so nothing is an answer to one.  A       *)
(* station the walk of a rekeying has yet to reach has the earlier key.    *)
(*                                                                         *)
(* The lemmas go from the records to the code, as in WpaKeyProofs: what a  *)
(* change of a record or of the frames does to Shared, then each entry     *)
(* function of the authenticator, each function of the supplicant, each    *)
(* event and each action.                                                  *)
(***************************************************************************)
EXTENDS WpaKeyProofs

-----------------------------------------------------------------------------
(* The group key.  Which frames carry one, and which answer them.          *)
Gtks(q) == {f \in Elements(q) : f.msg \in {"3/4", "1/2"}}
Replies(q) == {f \in Elements(q) : f.msg \in {"4/4", "2/2"}}

(* The answer to the frame f, or f as an answer, would be accepted: in the *)
(* pairwise handshake with the counters of the SNonce workaround too.      *)
Counts(f, m) ==
  /\ An(f) = m.ANonce
  /\ \/ /\ Armed(m) /\ f.msg \in {"3/4", "4/4"}
        /\ f.rc \in m.valid \/ (HasAlt(m) /\ f.rc = m.alt_rc)
     \/ /\ m.ptk = "PTKINITDONE" /\ m.PTK_valid = TRUE /\ f.msg \in {"1/2", "2/2"}
        /\ f.rc \in m.valid

(* The supplicant has the group key g, and no frame will replace it.       *)
Served(p, D, g) ==
  p.assoc = TRUE => p.gtk[g.idx] = g.key /\ \A f \in D : f.gtk = {g}

(* What the supplicant may still answer brings g, and so does all that     *)
(* follows it; what it has answered did.                                   *)
Coming(m, D, g) ==
  \A f \in D : Counts(f, m) =>
    f.gtk = {g} /\ \A h \in D : Before(f, h) => h.gtk = {g}
Answering(m, p, D, U, g) == \A f \in U : Counts(f, m) => Served(p, D, g)

(* The authenticator takes the group key for delivered.                    *)
Complete(m) ==
  /\ Accepted(m) /\ "Disconnect" \notin m.requests
  /\ m.GUpdateStationKeys = FALSE \/ m.rx = "group"
(* Without a group key handshake no answer to one is accepted.             *)
Quiet(m) ==
  m.ptk = "PTKINITDONE" /\ m.PTK_valid = TRUE /\ m.requests = {}
  /\ (m.grp # "REKEYNEGOTIATING" \/ m.rx = "group") => m.valid = {}

(* The ends of a station share g, unless the walk of a rekeying has yet to *)
(* reach it (w).                                                           *)
Shared(m, p, D, U, g, w) ==
  /\ Coming(m, D, g) /\ Answering(m, p, D, U, g)
  /\ Complete(m) /\ w = FALSE => Served(p, D, g)
  /\ Quiet(m)

(* PtkGroupInit is set together with a request to start anew.              *)
Reset(m) == m.PtkGroupInit = TRUE => "ReAuthentication" \in m.requests
(* A rekeying visits every station that is known.                          *)
Begun(m) == m.started = TRUE \/ m = NoStation

(* Fewer frames are under way.                                             *)
LEMMA SharedShrink ==
  ASSUME NEW m, NEW p, NEW D, NEW U, NEW g, NEW w, Shared(m, p, D, U, g, w),
         NEW E, E \subseteq D, NEW V, V \subseteq U
  PROVE  Shared(m, p, E, V, g, w)
<1>1. Served(p, D, g) => Served(p, E, g)  BY DEF Served
<1>2. Coming(m, E, g)  BY DEF Shared, Coming
<1>3. Answering(m, p, E, V, g)  BY <1>1 DEF Shared, Answering
<1> QED BY <1>1, <1>2, <1>3 DEF Shared

(* No key is in use, and nothing is accepted for it.                       *)
Vacant(n) == n.PTK_valid = FALSE \/ n.ptk \notin Negotiating \cup {"PTKINITDONE"}

(* Such a record is not said to share anything.                            *)
LEMMA VacantShared ==
  ASSUME NEW n, Vacant(n), NEW p, NEW D, NEW U, NEW g, NEW w
  PROVE  Shared(n, p, D, U, g, w)
<1>1. ~Armed(n) /\ ~Accepted(n)  BY DEF Vacant, Armed, Accepted, Negotiating
<1>2. \A f : ~Counts(f, n)  BY <1>1 DEF Vacant, Counts
<1>3. ~Complete(n) /\ Quiet(n)  BY <1>1 DEF Complete, Quiet, Vacant
<1> QED BY <1>2, <1>3 DEF Shared, Coming, Answering

(* The record n accepts no more than m, and claims no more.                *)
Follows(m, n) ==
  /\ \A f : Counts(f, n) => Counts(f, m)
  /\ Complete(n) => Complete(m)
  /\ Quiet(m) => Quiet(n)

(* Such a step keeps the key shared.                                       *)
LEMMA FollowsShared ==
  ASSUME NEW m, NEW p, NEW D, NEW U, NEW g, NEW w, Shared(m, p, D, U, g, w),
         NEW n, Follows(m, n)
  PROVE  Shared(n, p, D, U, g, w)
<1>1. Coming(n, D, g)  BY DEF Shared, Coming, Follows
<1>2. Answering(n, p, D, U, g)  BY DEF Shared, Answering, Follows
<1> QED BY <1>1, <1>2 DEF Shared, Follows

(* A frame f with the key g is sent: none of the others follows it.        *)
LEMMA SentShared ==
  ASSUME NEW m, NEW p, NEW D, NEW U, NEW g, NEW w, Shared(m, p, D, U, g, w),
         NEW f, f.gtk = {g}, \A h \in D : ~Before(f, h),
         NEW n, \A h \in D \cup U : Counts(h, n) => Counts(h, m),
         Complete(n) => Complete(m), Quiet(n)
  PROVE  Shared(n, p, D \cup {f}, U, g, w)
<1>1. Served(p, D, g) => Served(p, D \cup {f}, g)  BY DEF Served
<1>2. Coming(n, D \cup {f}, g)  BY DEF Shared, Coming
<1>3. Answering(n, p, D \cup {f}, U, g)  BY <1>1 DEF Shared, Answering
<1> QED BY <1>1, <1>2, <1>3 DEF Shared

-----------------------------------------------------------------------------
(* The group key in the states of WPA_PTK.  V: the answers under way, all  *)
(* of them known to the authenticator m.                                   *)
Known(V, U, m, r) ==
  \A f \in V : \/ f.msg = "4/4" /\ f \in U
               \/ f.msg = "2/2" /\ Old(f, m, r)
OnLink(d, x) == Gtks(d \o x.out)
Supplied(x, p, d, V, g, w) == Shared(x.sm, p, OnLink(d, x), V, g, w)

(* PTKCALCNEGOTIATING: what counts for the new key counted before.         *)
LEMMA PtkcalcSupplied ==
  ASSUME NEW x, NEW c, Given(x, c), PtkTarget(x.sm) = "PTKCALCNEGOTIATING",
         NEW y, y = PTKCALCNEGOTIATING(x),
         NEW p, NEW d, NEW U, Keyed(x, p, d, U)
  PROVE  Follows(x.sm, y.sm) /\ y.out = x.out
<1>1. PICK m, n, D, r : m = x.sm /\ n = y.sm /\ D = Downward(d \o x.out) /\ r = x.rand  OBVIOUS
<1>2. SmOK(m) /\ SmShape(m) /\ Station(m, c, r) /\ SmTyped(m)
      /\ XShape(x) /\ ApKeys(m, r)
  BY <1>1, GivenFacts
<1>3. /\ m.requests = {}
      /\ \/ m.ptk \in {"PTKSTART", "PTKCALCNEGOTIATING"} /\ m.rx = "pairwise"
         \/ m.ptk = "PTKINITNEGOTIATING" /\ m.update_snonce = TRUE
  BY <1>1, <1>2, PtkTargets
<1>4. /\ m.valid = {}
      /\ m.ptk = "PTKSTART" \/ (m.ptk = "PTKINITNEGOTIATING" /\ m.update_snonce = TRUE)
  BY <1>2, <1>3 DEF Station, RxOK
<1>5. HasAlt(m) => Armed(m)  BY <1>2, <1>3, <1>4 DEF HasAlt, ApKeys, Armed, Negotiating
<1>6. PICK k : k = [m EXCEPT !.ptk = "PTKCALCNEGOTIATING", !.rx = "none", !.update_snonce = FALSE]
  OBVIOUS
<1>7. /\ SmShape(k) /\ k.ANonce = m.ANonce /\ k.alt_SNonce = m.alt_SNonce
      /\ k.alt_rc = m.alt_rc /\ k.valid = m.valid /\ k.ptk = "PTKCALCNEGOTIATING"
  BY <1>2, <1>6 DEF SmShape
<1>8. PICK key : key = Ptk(PSK, m.ANonce, m.SNonce)  OBVIOUS
<1>9. y.out = x.out /\ (n = k \/ n = [k EXCEPT !.timers = 0, !.MICVerified = TRUE,
                                               !.PTK = key, !.PTK_valid = TRUE])
  BY <1>1, <1>2, <1>6, <1>8 DEF XShape, PTKCALCNEGOTIATING
<1>10. /\ n.ANonce = m.ANonce /\ n.alt_SNonce = m.alt_SNonce /\ n.alt_rc = m.alt_rc
       /\ n.valid = m.valid /\ n.ptk = "PTKCALCNEGOTIATING"
  <2>1. CASE n = k  BY <1>7, <2>1
  <2>2. CASE n = [k EXCEPT !.timers = 0, !.MICVerified = TRUE, !.PTK = key, !.PTK_valid = TRUE]
    BY <1>7, <2>2 DEF SmShape
  <2> QED BY <1>9, <2>1, <2>2
<1>11. \A f : Counts(f, n) => Counts(f, m)
  BY <1>4, <1>5, <1>10 DEF Counts, HasAlt
<1>12. ~Complete(n) /\ Quiet(n)  BY <1>10 DEF Complete, Accepted, Quiet
<1> QED BY <1>1, <1>9, <1>11, <1>12 DEF Follows

(* PTKCALCNEGOTIATING2.                                                    *)
LEMMA Ptkcalc2Supplied ==
  ASSUME NEW x, NEW c, Given(x, c), PtkTarget(x.sm) = "PTKCALCNEGOTIATING2",
         NEW y, y = PTKCALCNEGOTIATING2(x),
         NEW p, NEW d, NEW U, Keyed(x, p, d, U)
  PROVE  Follows(x.sm, y.sm) /\ y.out = x.out
<1>1. PICK m, n, D, r : m = x.sm /\ n = y.sm /\ D = Downward(d \o x.out) /\ r = x.rand  OBVIOUS
<1>2. SmOK(m) /\ SmShape(m) /\ SmTyped(m) /\ XShape(x) /\ ApKeys(m, r)
  BY <1>1, GivenFacts
<1>3. m.requests = {} /\ m.ptk = "PTKCALCNEGOTIATING" /\ m.MICVerified = TRUE
  BY <1>1, <1>2, PtkTargets
<1>4. Armed(m)  BY <1>2, <1>3 DEF Armed, Negotiating, ApKeys
<1>5. n = [m EXCEPT !.ptk = "PTKCALCNEGOTIATING2", !.TimeoutCtr = 0] /\ y.out = x.out
  BY <1>1, <1>2 DEF XShape, SmShape, PTKCALCNEGOTIATING2
<1>6. /\ n.ANonce = m.ANonce /\ n.alt_SNonce = m.alt_SNonce /\ n.alt_rc = m.alt_rc
      /\ n.valid = m.valid /\ n.ptk = "PTKCALCNEGOTIATING2"
  BY <1>2, <1>5 DEF SmShape
<1>7. \A f : Counts(f, n) => Counts(f, m)
  BY <1>4, <1>6 DEF Counts, HasAlt
<1>8. ~Complete(n) /\ Quiet(n)  BY <1>6 DEF Complete, Accepted, Quiet
<1> QED BY <1>1, <1>5, <1>7, <1>8 DEF Follows

(* PTKINITDONE: message 4/4 was an answer.                                 *)
LEMMA PtkinitdoneSupplied ==
  ASSUME NEW x, NEW c, Given(x, c), PtkTarget(x.sm) = "PTKINITDONE",
         NEW ok, NEW y, y = PTKINITDONE(x, ok)
  PROVE  \/ Vacant(y.sm) /\ y.out = Append(x.out, DeauthFrame)
         \/ Follows(x.sm, y.sm) /\ y.out = x.out
<1>1. PICK m, n, r : m = x.sm /\ n = y.sm /\ r = x.rand  OBVIOUS
<1>2. SmOK(m) /\ SmShape(m) /\ SmTyped(m) /\ XShape(x) /\ RxOK(m) /\ XOK(x)
  BY <1>1 DEF Given, XOK, SmOK, Station
<1>3. /\ m.requests = {} /\ m.ptk = "PTKINITNEGOTIATING" /\ m.update_snonce = FALSE
      /\ m.rx = "pairwise"
  BY <1>1, <1>2, PtkTargets
<1>4. m.valid = {}  BY <1>2, <1>3 DEF RxOK
<1>5. PICK z : z = [x EXCEPT !.sm.ptk = "PTKINITDONE", !.sm.rx = "none"]  OBVIOUS
<1>6. PICK k : k = [m EXCEPT !.ptk = "PTKINITDONE", !.rx = "none"]  OBVIOUS
<1>7. XShape(z) /\ z.sm = k /\ z.out = x.out /\ z.done = x.done
  BY <1>1, <1>2, <1>5, <1>6 DEF XShape, SmShape
<1>8. /\ SmShape(k) /\ k.ptk = "PTKINITDONE" /\ k.valid = m.valid /\ k.requests = m.requests
      /\ k.PTK_valid = m.PTK_valid /\ k.GUpdateStationKeys = m.GUpdateStationKeys
      /\ k.rx = "none"
  BY <1>2, <1>6 DEF SmShape
<1>9. CASE y = wpa_sta_disconnect(z)
  <2>1. XOK(z)  BY <1>2, <1>7, <1>8 DEF XOK, SmOK
  <2>2. NoKeyPart(z.sm, n) /\ y.out = Append(z.out, DeauthFrame)
    BY <1>1, <1>9, <2>1, DisconnectEffect
  <2> QED BY <1>1, <1>7, <2>2 DEF NoKeyPart, Vacant
<1>10. CASE y = [z EXCEPT !.sm = [z.sm EXCEPT !.key = z.sm.PTK, !.rekey = TRUE, !.has_GTK = TRUE]]
  <2>1. n = [k EXCEPT !.key = k.PTK, !.rekey = TRUE, !.has_GTK = TRUE] /\ y.out = x.out
    BY <1>1, <1>7, <1>10 DEF XShape
  <2>2. /\ n.ptk = "PTKINITDONE" /\ n.valid = {} /\ n.requests = m.requests
        /\ n.PTK_valid = m.PTK_valid /\ n.GUpdateStationKeys = m.GUpdateStationKeys
        /\ n.rx = "none"
    BY <1>4, <1>8, <2>1 DEF SmShape
  <2>3. ~Armed(n)  BY <2>2 DEF Armed, Negotiating
  <2>4. \A f : ~Counts(f, n)  BY <2>2, <2>3 DEF Counts
  <2>5. Complete(n) => Complete(m)
    BY <1>3, <2>2 DEF Complete, Accepted
  <2>6. Quiet(n)  BY <2>2 DEF Quiet
  <2> QED BY <1>1, <2>1, <2>4, <2>5, <2>6 DEF Follows
<1> QED BY <1>5, <1>9, <1>10 DEF PTKINITDONE

-----------------------------------------------------------------------------
(* The frames of a queue.                                                  *)

(* A frame is put at the end.                                              *)
LEMMA AppendElements ==
  ASSUME NEW S, NEW q \in Seq(S), NEW f
  PROVE  Elements(Append(q, f)) = Elements(q) \cup {f}
<1>1. PICK a : a = Append(q, f)  OBVIOUS
<1>2. /\ Len(q) \in Nat /\ DOMAIN q = 1 .. Len(q) /\ DOMAIN a = 1 .. Len(q) + 1
      /\ \A i \in 1 .. Len(q) : a[i] = q[i]
      /\ a[Len(q) + 1] = f
  BY <1>1
<1>3. Elements(a) \subseteq Elements(q) \cup {f}
  <2> SUFFICES ASSUME NEW i \in DOMAIN a PROVE a[i] \in Elements(q) \cup {f}
    BY DEF Elements
  <2>1. i \in 1 .. Len(q) \/ i = Len(q) + 1  BY <1>2
  <2> QED BY <1>2, <2>1 DEF Elements
<1>4. Elements(q) \cup {f} \subseteq Elements(a)
  <2>1. Len(q) + 1 \in DOMAIN a /\ \A i \in DOMAIN q : i \in DOMAIN a /\ a[i] = q[i]
    BY <1>2
  <2> QED BY <1>2, <2>1 DEF Elements
<1> QED BY <1>1, <1>3, <1>4

(* Frames with a group key are sent, or others.                            *)
LEMMA SentGtks ==
  ASSUME NEW d, NEW x, Queued(d, x), NEW f, NEW y, y.out = Append(x.out, f)
  PROVE  /\ f.msg \in {"3/4", "1/2"} => OnLink(d, y) = OnLink(d, x) \cup {f}
         /\ f.msg \notin {"3/4", "1/2"} => OnLink(d, y) = OnLink(d, x)
<1>1. PICK S : d \in Seq(S) /\ x.out \in Seq(S)  BY DEF Queued
<1>2. PICK o, T : o = x.out /\ T = S \cup {f}  OBVIOUS
<1>3. d \in Seq(T) /\ o \in Seq(T) /\ f \in T  BY <1>1, <1>2
<1>4. d \o Append(o, f) = Append(d \o o, f) /\ d \o o \in Seq(T)  BY <1>3
<1>5. PICK q, w : q = d \o o /\ w = Append(q, f)  OBVIOUS
<1>6. Elements(w) = Elements(q) \cup {f}  BY <1>4, <1>5, AppendElements
<1>7. /\ f.msg \in {"3/4", "1/2"} => Gtks(w) = Gtks(q) \cup {f}
      /\ f.msg \notin {"3/4", "1/2"} => Gtks(w) = Gtks(q)
  BY <1>6 DEF Gtks
<1>8. d \o x.out = q /\ d \o y.out = w  BY <1>2, <1>4, <1>5
<1> QED BY <1>7, <1>8 DEF OnLink

(* What a link holds when frames are sent.                                 *)
LEMMA PutElements ==
  ASSUME NEW S, NEW q \in Seq(S), NEW o \in Seq(S)
  PROVE  /\ Elements(Put(q, o)) \subseteq Elements(q \o o)
         /\ Elements(q \o o) \subseteq Elements(q) \cup Elements(o)
<1>1. PICK a : a = q \o o  OBVIOUS
<1>2. a \in Seq(S) /\ Len(a) \in Nat  BY <1>1
<1>3. PICK n : n = IF Len(a) < CAP THEN Len(a) ELSE CAP  OBVIOUS
<1>4. n \in 0 .. Len(a)  BY <1>2, <1>3, HandshakeAssumption
<1>5. Put(q, o) = SubSeq(a, 1, n)  BY <1>1, <1>3 DEF Put
<1>6. Elements(Put(q, o)) \subseteq Elements(a)  BY <1>2, <1>4, <1>5, PrefixFrames
<1>7. /\ Len(q) \in Nat /\ Len(o) \in Nat /\ DOMAIN q = 1 .. Len(q) /\ DOMAIN o = 1 .. Len(o)
      /\ DOMAIN a = 1 .. Len(q) + Len(o)
      /\ \A i \in 1 .. Len(q) + Len(o) : a[i] = IF i <= Len(q) THEN q[i] ELSE o[i - Len(q)]
  BY <1>1
<1>8. \A i \in DOMAIN a : a[i] \in Elements(q) \cup Elements(o)
  <2> SUFFICES ASSUME NEW i \in DOMAIN a PROVE a[i] \in Elements(q) \cup Elements(o)
    OBVIOUS
  <2>1. CASE i <= Len(q)
    <3>1. i \in DOMAIN q /\ a[i] = q[i]  BY <1>7, <2>1
    <3> QED BY <3>1 DEF Elements
  <2>2. CASE ~(i <= Len(q))
    <3>1. i - Len(q) \in DOMAIN o /\ a[i] = o[i - Len(q)]  BY <1>7, <2>2
    <3> QED BY <3>1 DEF Elements
  <2> QED BY <2>1, <2>2
<1>9. Elements(a) \subseteq Elements(q) \cup Elements(o)  BY <1>8 DEF Elements
<1> QED BY <1>1, <1>6, <1>9

(* The same for the frames of the group key.                               *)
LEMMA PutGtks ==
  ASSUME NEW S, NEW q \in Seq(S), NEW o \in Seq(S)
  PROVE  /\ Gtks(Put(q, o)) \subseteq Gtks(q \o o)
         /\ Replies(Put(q, o)) \subseteq Replies(q) \cup Replies(o)
  BY PutElements DEF Gtks, Replies

(* The first frame is taken.                                               *)
LEMMA TailGtks ==
  ASSUME NEW S, NEW q \in Seq(S), q # <<>>
  PROVE  /\ Gtks(Tail(q)) \subseteq Gtks(q) /\ Replies(Tail(q)) \subseteq Replies(q)
         /\ Head(q).msg \in {"3/4", "1/2"} => Head(q) \in Gtks(q)
         /\ Head(q).msg \in {"4/4", "2/2"} => Head(q) \in Replies(q)
         /\ InOrder(q) /\ Head(q).msg # "deauth" =>
              \A h \in Gtks(Tail(q)) : Before(Head(q), h)
<1>1. PICK t, f : t = Tail(q) /\ f = Head(q)  OBVIOUS
<1>2. /\ Len(q) \in Nat /\ Len(q) > 0 /\ DOMAIN q = 1 .. Len(q) /\ DOMAIN t = 1 .. Len(q) - 1
      /\ \A i \in 1 .. Len(q) - 1 : t[i] = q[i + 1]
      /\ f = q[1]
  BY <1>1
<1>3. \A i \in DOMAIN t : i + 1 \in DOMAIN q /\ 1 < i + 1 /\ t[i] = q[i + 1] /\ i \in Nat
  BY <1>2
<1>4. 1 \in DOMAIN q /\ f \in Elements(q)  BY <1>2 DEF Elements
<1>5. Elements(t) \subseteq Elements(q)  BY <1>3 DEF Elements
<1>6. ASSUME InOrder(q), f.msg # "deauth", NEW h \in Gtks(t)
      PROVE  Before(f, h)
  <2>1. PICK i \in DOMAIN t : h = t[i]  BY DEF Gtks, Elements
  <2>2. h.msg # "deauth" /\ h = q[i + 1]  BY <1>3, <2>1 DEF Gtks
  <2> QED BY <1>2, <1>3, <1>4, <1>6, <2>1, <2>2 DEF InOrder
<1> QED BY <1>1, <1>4, <1>5, <1>6 DEF Gtks, Replies

(* The core of a frame with a group key is a frame to the supplicant.      *)
LEMMA GtksDown ==
  ASSUME NEW q, NEW f \in Gtks(q)
  PROVE  Core(f) \in Downward(q)
  BY DEF Gtks, Downward

-----------------------------------------------------------------------------
(* Sending a frame with a group key: __wpa_send_eapol.                     *)
LEMMA SendGtk ==
  ASSUME NEW x, XOK(x), x.sm.PTK_valid \in BOOLEAN, NEW msg, NEW gtk,
         NEW y, y = Send(x, msg, gtk)
  PROVE  \/ y.out = x.out /\ NoFrame(x.sm, msg)
         \/ \E f : y.out = Append(x.out, f) /\ NextFrame(f, x.sm, msg) /\ f.gtk = gtk
<1>1. PICK m : m = x.sm  OBVIOUS
<1>2. PICK f : f = [msg |-> msg, rc |-> m.ctr + 1,
                    mic |-> IF msg = "1/4" THEN NoKey ELSE m.PTK, gtk |-> gtk,
                    nonce |-> IF msg = "1/2" THEN NoNonce ELSE m.ANonce]
  OBVIOUS
<1>3. y.out = IF msg = "1/4" \/ m.PTK_valid THEN Append(x.out, f) ELSE x.out
  BY <1>1, <1>2 DEF XOK, XShape, Send
<1>4. NextFrame(f, m, msg) \/ NoFrame(m, msg)
  BY <1>1, <1>2 DEF NextFrame, NoFrame
<1>5. f.gtk = gtk  BY <1>2
<1>6. CASE msg = "1/4" \/ m.PTK_valid
  <2>1. ~NoFrame(m, msg)  BY <1>1, <1>6 DEF NoFrame
  <2> QED BY <1>1, <1>3, <1>4, <1>5, <1>6, <2>1
<1>7. CASE ~(msg = "1/4" \/ m.PTK_valid)
  BY <1>1, <1>3, <1>7 DEF NoFrame
<1> QED BY <1>6, <1>7

(* Nothing under way follows a frame with the next counter.                *)
LEMMA NewLast ==
  ASSUME NEW m, NEW p, NEW q, NEW U, NEW r, Agreed(m, p, Downward(q), U, r), m.ctr \in Nat,
         m.ANonce \in Nat, m.ANonce > 0, m.valid \subseteq Nat,
         "ReAuthentication" \notin m.requests,
         NEW f, An(f) = m.ANonce, f.rc = m.ctr + 1, NEW h \in Gtks(q)
  PROVE  /\ ~Before(f, h)
         /\ An(h) = m.ANonce => h.rc \in Nat /\ h.rc <= m.ctr
<1>1. PICK e, D : e = Core(h) /\ D = Downward(q)  OBVIOUS
<1>2. e \in D /\ An(e) = An(h) /\ e.rc = h.rc  BY <1>1, GtksDown, CoreOrder
<1>3. An(e) \in Nat /\ An(e) <= m.ANonce
  BY <1>1, <1>2 DEF Agreed, Links, Typed, DownTyped, Recent, Used
<1>4. An(e) = m.ANonce => e.rc \in Nat /\ e.rc <= m.ctr
  BY <1>1, <1>2, NoneOpen
<1> QED BY <1>2, <1>3, <1>4 DEF Before, Past

(* The states without a key: PTK_valid is FALSE, or the handshake is yet   *)
(* to be begun.                                                            *)
Started(x, y) ==
  /\ Vacant(y.sm)
  /\ y.out = x.out \/ \E f : y.out = Append(x.out, f) /\ f.msg \in {"1/4", "deauth"}
Early == {"INITIALIZE", "DISCONNECT", "DISCONNECTED", "AUTHENTICATION",
          "AUTHENTICATION2", "INITPSK", "PTKSTART"}

(* Entering one of them.                                                   *)
LEMMA EarlyStarted ==
  ASSUME NEW x, NEW c, Given(x, c), NEW t, t \in Early,
         NEW gtk, NEW ok, NEW y, y = EnterPtk(x, t, gtk, ok)
  PROVE  Started(x, y)
<1>1. XShape(x) /\ SmShape(x.sm) /\ XOK(x)  BY DEF Given, XOK, SmOK
<1>2. PICK m, n : m = x.sm /\ n = y.sm  OBVIOUS
<1>3. SmShape(m) /\ SmOK(m)  BY <1>1, <1>2 DEF XOK
<1>4. CASE t = "INITIALIZE"
  <2>1. PICK z : z = Discount(x)  OBVIOUS
  <2>2. XShape(z) /\ z.out = x.out /\ z.sm = [m EXCEPT !.GUpdateStationKeys = FALSE]
    BY <1>1, <1>2, <2>1 DEF XShape, Discount
  <2>3. PICK k : k = z.sm  OBVIOUS
  <2>4. SmShape(k)  BY <1>3, <2>2, <2>3 DEF SmShape
  <2>5. y = INITIALIZE(x)  BY <1>4 DEF EnterPtk
  <2>6. PICK l : l = [k EXCEPT !.PTK_valid = FALSE, !.PTK = NoKey, !.key = NoKey, !.rekey = FALSE]
    OBVIOUS
  <2>7. n = [l EXCEPT !.ptk = "INITIALIZE", !.TimeoutCtr = 0] /\ y.out = z.out
    BY <1>2, <2>1, <2>2, <2>3, <2>5, <2>6 DEF XShape, INITIALIZE, wpa_remove_ptk
  <2>8. SmShape(l)  BY <2>4, <2>6 DEF SmShape
  <2>9. n.ptk = "INITIALIZE"  BY <2>7, <2>8 DEF SmShape
  <2> QED BY <1>2, <2>2, <2>7, <2>9 DEF Started, Vacant, Negotiating
<1>5. CASE t = "DISCONNECT"
  <2>1. PICK z : z = [x EXCEPT !.sm.ptk = "DISCONNECT", !.sm.requests = @ \ {"Disconnect"}]
    OBVIOUS
  <2>2. y = wpa_sta_disconnect(z)  BY <1>5, <2>1 DEF EnterPtk, DISCONNECT
  <2>3. XShape(z) /\ z.out = x.out /\ z.done = x.done
        /\ z.sm = [m EXCEPT !.ptk = "DISCONNECT", !.requests = @ \ {"Disconnect"}]
    BY <1>1, <1>2, <2>1 DEF XShape
  <2>4. PICK k : k = z.sm  OBVIOUS
  <2>5. SmShape(k) /\ k.requests = m.requests \ {"Disconnect"}
        /\ k.GUpdateStationKeys = m.GUpdateStationKeys
    BY <1>3, <2>3, <2>4 DEF SmShape
  <2>6. XOK(z)  BY <1>1, <1>3, <2>3, <2>4, <2>5 DEF XOK, SmOK
  <2>7. n.PTK_valid = FALSE /\ y.out = Append(x.out, DeauthFrame)
    <3>1. NoKeyPart(z.sm, y.sm) /\ y.out = Append(z.out, DeauthFrame)
      BY <2>2, <2>6, DisconnectEffect
    <3> QED BY <1>2, <2>3, <3>1 DEF NoKeyPart
  <2>8. DeauthFrame.msg = "deauth"  BY DEF DeauthFrame
  <2> QED BY <1>2, <2>7, <2>8 DEF Started, Vacant
<1>6. CASE t = "DISCONNECTED"
  <2>1. n = [m EXCEPT !.ptk = "DISCONNECTED", !.requests = @ \ {"Deauthentication"}]
        /\ y.out = x.out
    BY <1>1, <1>2, <1>3, <1>6 DEF EnterPtk, DISCONNECTED, XShape, SmShape
  <2>2. n.ptk = "DISCONNECTED"  BY <1>3, <2>1 DEF SmShape
  <2> QED BY <1>2, <2>1, <2>2 DEF Started, Vacant, Negotiating
<1>7. CASE t = "AUTHENTICATION"
  <2>1. n = [m EXCEPT !.ptk = "AUTHENTICATION", !.PTK = NoKey, !.PTK_valid = FALSE,
                      !.requests = @ \ {"Authentication"}] /\ y.out = x.out
    BY <1>1, <1>2, <1>7 DEF EnterPtk, AUTHENTICATION, XShape
  <2>2. n.ptk = "AUTHENTICATION"  BY <1>3, <2>1 DEF SmShape
  <2> QED BY <1>2, <2>1, <2>2 DEF Started, Vacant, Negotiating
<1>8. CASE t = "AUTHENTICATION2"
  <2>1. n = [m EXCEPT !.ptk = "AUTHENTICATION2", !.ANonce = x.rand, !.TimeoutCtr = 0,
                      !.requests = @ \ {"ReAuthentication"}] /\ y.out = x.out
    BY <1>1, <1>2, <1>8 DEF EnterPtk, AUTHENTICATION2, XShape
  <2>2. n.ptk = "AUTHENTICATION2"  BY <1>3, <2>1 DEF SmShape
  <2> QED BY <1>2, <2>1, <2>2 DEF Started, Vacant, Negotiating
<1>9. CASE t = "INITPSK"
  <2>1. n = [m EXCEPT !.ptk = "INITPSK", !.req_counter = 0] /\ y.out = x.out
    BY <1>1, <1>2, <1>3, <1>9 DEF EnterPtk, INITPSK, XShape, SmShape
  <2>2. n.ptk = "INITPSK"  BY <1>3, <2>1 DEF SmShape
  <2> QED BY <1>2, <2>1, <2>2 DEF Started, Vacant, Negotiating
<1>10. CASE t = "PTKSTART"
  <2>1. PICK z : z = [x EXCEPT !.sm = [x.sm EXCEPT
            !.ptk = "PTKSTART", !.requests = @ \ {"PTK"}, !.TimeoutEvt = FALSE,
            !.alt_SNonce = NoNonce, !.TimeoutCtr = @ + 1]]
    OBVIOUS
  <2>2. y = z \/ y = Send(z, "1/4", {})  BY <1>10, <2>1 DEF EnterPtk, PTKSTART
  <2>3. XShape(z) /\ z.out = x.out /\ z.done = x.done
        /\ z.sm = [m EXCEPT !.ptk = "PTKSTART", !.requests = @ \ {"PTK"},
                    !.TimeoutEvt = FALSE, !.alt_SNonce = NoNonce, !.TimeoutCtr = @ + 1]
    BY <1>1, <1>2, <1>3, <2>1 DEF XShape, SmShape
  <2>4. PICK k : k = z.sm  OBVIOUS
  <2>5. SmShape(k) /\ k.ptk = "PTKSTART" /\ k.requests = m.requests \ {"PTK"}
        /\ k.GUpdateStationKeys = m.GUpdateStationKeys
    BY <1>3, <2>3, <2>4 DEF SmShape
  <2>6. XOK(z)  BY <1>1, <1>3, <2>3, <2>4, <2>5 DEF XOK, SmOK
  <2>7. CASE y = z  BY <2>3, <2>4, <2>5, <2>7 DEF Started, Vacant, Negotiating
  <2>8. CASE y = Send(z, "1/4", {})
    <3>1. PICK a, b : a = "1/4" /\ b = {}  OBVIOUS
    <3>2. y = Send(z, a, b)  BY <2>8, <3>1
    <3>3. y.sm.ptk = z.sm.ptk
          /\ (y.out = z.out \/ \E f : y.out = Append(z.out, f) /\ SentFrame(f, z.sm, a))
      BY <2>6, <3>2, SendEffect
    <3> QED BY <2>3, <2>4, <2>5, <3>1, <3>3 DEF Started, Vacant, Negotiating, SentFrame
  <2> QED BY <2>2, <2>7, <2>8
<1> QED BY <1>4, <1>5, <1>6, <1>7, <1>8, <1>9, <1>10 DEF Early

(* Nothing is shared then.                                                 *)
LEMMA StartedSupplied ==
  ASSUME NEW x, NEW y, Started(x, y), NEW p, NEW d, NEW V, NEW g, NEW w
  PROVE  Supplied(y, p, d, V, g, w)
  BY VacantShared DEF Started, Supplied

(* PTKINITNEGOTIATING: message 3/4 brings the group key.                   *)
LEMMA PtkinitSupplied ==
  ASSUME NEW x, NEW c, Given(x, c), PtkTarget(x.sm) = "PTKINITNEGOTIATING",
         NEW g, NEW y, y = PTKINITNEGOTIATING(x, g),
         NEW p, NEW d, NEW U, Queued(d, x), Keyed(x, p, d, U),
         NEW V, Known(V, U, x.sm, x.rand), NEW w, Supplied(x, p, d, V, g, w)
  PROVE  Supplied(y, p, d, V, g, w) /\ y.sm.PtkGroupInit = x.sm.PtkGroupInit
<1>1. PICK m, n, D, r : m = x.sm /\ n = y.sm /\ D = Downward(d \o x.out) /\ r = x.rand  OBVIOUS
<1>2. SmOK(m) /\ SmShape(m) /\ Station(m, c, r) /\ SmTyped(m) /\ r \in Nat
      /\ XShape(x) /\ Agreed(m, p, D, U, r) /\ ApKeys(m, r) /\ KeyOK(m, r) /\ m.ctr \in Nat
      /\ m.ANonce \in Nat /\ m.valid \subseteq Nat
  BY <1>1, GivenFacts
<1>3. m.rx # "pairwise" /\ m.update_snonce = FALSE  BY <1>1, <1>2, PtkMoves DEF None
<1>4. m.requests = {} /\ m.ptk \in {"PTKCALCNEGOTIATING2", "PTKINITNEGOTIATING"}
  BY <1>1, <1>2, PtkTargets
<1>5. m.PTK_valid = TRUE /\ Armed(m)  BY <1>2, <1>4 DEF ApKeys, Armed, Negotiating
<1>6. PICK z : z = [x EXCEPT !.sm = [x.sm EXCEPT
            !.ptk = "PTKINITNEGOTIATING", !.TimeoutEvt = FALSE, !.TimeoutCtr = @ + 1]]
  OBVIOUS
<1>7. XShape(z) /\ z.rand = r /\ z.out = x.out /\ z.done = x.done
      /\ z.sm = [m EXCEPT !.ptk = "PTKINITNEGOTIATING", !.TimeoutEvt = FALSE,
                          !.TimeoutCtr = @ + 1]
  BY <1>1, <1>2, <1>6 DEF XShape, SmShape
<1>8. PICK k : k = z.sm  OBVIOUS
<1>9. /\ SmShape(k) /\ k.ptk = "PTKINITNEGOTIATING" /\ k.requests = m.requests
      /\ Memory(m, k) /\ RxPart(m, k) /\ k.ctr = m.ctr /\ k.valid = m.valid
      /\ k.GUpdateStationKeys = m.GUpdateStationKeys /\ k.PtkGroupInit = m.PtkGroupInit
  <2>1. k = [m EXCEPT !.ptk = "PTKINITNEGOTIATING", !.TimeoutEvt = FALSE,
                      !.TimeoutCtr = @ + 1]
    BY <1>7, <1>8
  <2> QED BY <1>2, <2>1 DEF SmShape, RxPart, Memory, SameSecrets
<1>10. \A v : /\ v.ptk = "PTKINITNEGOTIATING" /\ v.rx = m.rx
              => ~Complete(v) /\ Quiet(v)
  BY <1>3 DEF Complete, Accepted, Quiet
<1>11. CASE y = z
  <2>1. \A f : Counts(f, k) => Counts(f, m)
    BY <1>5, <1>9 DEF Counts, Memory, SameSecrets, HasAlt
  <2>2. Follows(m, k)  BY <1>9, <1>10, <2>1 DEF Follows, RxPart
  <2>3. OnLink(d, y) = OnLink(d, x)  BY <1>7, <1>11 DEF OnLink
  <2> QED BY <1>1, <1>8, <1>9, <1>11, <2>2, <2>3, FollowsShared DEF Supplied
<1>12. CASE y = Send(z, "3/4", {g})
  <2>1. XOK(z)  BY <1>2, <1>7, <1>8, <1>9 DEF Given, XOK, SmOK
  <2>2. PICK a, b : a = "3/4" /\ b = {g}  OBVIOUS
  <2>3. y = Send(z, a, b) /\ z.sm.PTK_valid \in BOOLEAN /\ z.sm.ctr \in Nat
    BY <1>2, <1>5, <1>8, <1>9, <1>12, <2>2 DEF Memory, SameSecrets
  <2>4. NextSent(k, n) /\ n.PtkGroupInit = k.PtkGroupInit
    <3>1. NextSent(z.sm, y.sm)  BY <2>1, <2>3, SendKeys
    <3>2. GroupPart(z.sm, y.sm)  BY <2>1, <2>3, SendEffect
    <3> QED BY <1>1, <1>8, <3>1, <3>2 DEF GroupPart
  <2>5. PICK f : y.out = Append(x.out, f) /\ NextFrame(f, k, a) /\ f.gtk = b
    <3>1. \/ y.out = z.out /\ NoFrame(z.sm, a)
          \/ \E f : y.out = Append(z.out, f) /\ NextFrame(f, z.sm, a) /\ f.gtk = b
      BY <2>1, <2>3, SendGtk
    <3>2. ~NoFrame(z.sm, a)  BY <1>5, <1>8, <1>9 DEF NoFrame, Memory, SameSecrets
    <3> QED BY <1>7, <1>8, <3>1, <3>2
  <2>6. f.msg = "3/4" /\ f.mic = m.PTK /\ f.rc = m.ctr + 1 /\ f.gtk = {g}
    BY <1>9, <2>2, <2>5 DEF NextFrame, Memory, SameSecrets
  <2>7. An(f) = m.ANonce /\ m.ANonce > 0
    BY <1>2, <1>5, <2>6 DEF An, ApKeys, KeyOK
  <2>8. PICK q, G : q = d \o x.out /\ G = Gtks(q) /\ G = OnLink(d, x)  BY DEF OnLink
  <2>9. \A h \in G : ~Before(f, h) /\ (An(h) = m.ANonce => h.rc \in Nat /\ h.rc <= m.ctr)
    <3>1. Agreed(m, p, Downward(q), U, r) /\ "ReAuthentication" \notin m.requests
      BY <1>1, <1>2, <1>4, <2>8
    <3> QED BY <1>2, <2>6, <2>7, <2>8, <3>1, NewLast
  <2>10. \A h \in V : h.msg = "4/4" /\ An(h) = m.ANonce => h.rc \in Nat /\ h.rc <= m.ctr
    <3>1. \A h \in V : h.msg = "4/4" => h \in U  BY DEF Known
    <3> QED BY <1>2, <1>4, <3>1, NoneOpen
  <2>11. /\ n.ptk = "PTKINITNEGOTIATING" /\ n.rx = m.rx /\ n.ANonce = m.ANonce
         /\ n.alt_SNonce = m.alt_SNonce /\ n.alt_rc = m.alt_rc
         /\ n.valid \subseteq m.valid \cup {m.ctr + 1}
    BY <1>9, <2>4 DEF NextSent, Memory, SameSecrets, RxPart
  <2>12. \A h \in G \cup V : Counts(h, n) => Counts(h, m)
    <3> SUFFICES ASSUME NEW h \in G \cup V, Counts(h, n) PROVE Counts(h, m)  OBVIOUS
    <3>1. /\ An(h) = m.ANonce /\ h.msg \in {"3/4", "4/4"}
          /\ h.rc \in n.valid \/ (HasAlt(n) /\ h.rc = n.alt_rc)
      BY <2>11 DEF Counts
    <3>2. h.rc \in Nat /\ h.rc <= m.ctr
      <4>1. h \in V => h.msg = "4/4"  BY <3>1 DEF Known
      <4> QED BY <2>9, <2>10, <3>1, <4>1
    <3>3. h.rc \in n.valid => h.rc \in m.valid  BY <1>2, <2>11, <3>2
    <3> QED BY <1>5, <2>11, <3>1, <3>3 DEF Counts, HasAlt
  <2>13. Shared(n, p, G \cup {f}, V, g, w)
    <3>1. Shared(m, p, G, V, g, w)  BY <1>1, <2>8 DEF Supplied
    <3>2. ~Complete(n) /\ Quiet(n)  BY <1>10, <2>11
    <3> QED BY <2>6, <2>9, <2>12, <3>1, <3>2, SentShared
  <2>14. OnLink(d, y) = G \cup {f}
    <3>1. y.out = Append(x.out, f) /\ f.msg \in {"3/4", "1/2"}  BY <2>5, <2>6
    <3>2. OnLink(d, y) = OnLink(d, x) \cup {f}  BY <3>1, SentGtks
    <3> QED BY <2>8, <3>2
  <2> QED BY <1>1, <1>9, <2>4, <2>13, <2>14 DEF Supplied
<1> QED BY <1>6, <1>11, <1>12 DEF PTKINITNEGOTIATING

(* Nothing is sent, and the record follows.                                *)
LEMMA FollowsSupplied ==
  ASSUME NEW x, NEW y, Follows(x.sm, y.sm), y.out = x.out,
         NEW p, NEW d, NEW V, NEW g, NEW w, Supplied(x, p, d, V, g, w)
  PROVE  Supplied(y, p, d, V, g, w)
<1>1. OnLink(d, y) = OnLink(d, x)  BY DEF OnLink
<1> QED BY <1>1, FollowsShared DEF Supplied

(* A request to start anew is heard first.                                 *)
LEMMA ResetEarly ==
  ASSUME NEW m, Reset(m), m.PtkGroupInit = TRUE
  PROVE  PtkTarget(m) \in Early
  BY DEF Reset, PtkTarget, Early

(* The states of a handshake leave PtkGroupInit alone.                     *)
LEMMA LateInit ==
  ASSUME NEW x, NEW c, Given(x, c), NEW ok, NEW y,
         y \in {PTKCALCNEGOTIATING(x), PTKCALCNEGOTIATING2(x), PTKINITDONE(x, ok)}
  PROVE  y.sm.PtkGroupInit = x.sm.PtkGroupInit
<1>1. PICK m, n : m = x.sm /\ n = y.sm  OBVIOUS
<1>2. XShape(x) /\ SmShape(m) /\ XOK(x) /\ SmOK(m)  BY <1>1 DEF Given, XOK, SmOK
<1>3. CASE y = PTKCALCNEGOTIATING(x)
  <2>1. PICK k : k = [m EXCEPT !.ptk = "PTKCALCNEGOTIATING", !.rx = "none", !.update_snonce = FALSE]
    OBVIOUS
  <2>2. SmShape(k) /\ k.PtkGroupInit = m.PtkGroupInit  BY <1>2, <2>1 DEF SmShape
  <2>3. PICK key : key = Ptk(PSK, m.ANonce, m.SNonce)  OBVIOUS
  <2>4. n = k \/ n = [k EXCEPT !.timers = 0, !.MICVerified = TRUE, !.PTK = key, !.PTK_valid = TRUE]
    BY <1>1, <1>2, <1>3, <2>1, <2>3 DEF XShape, PTKCALCNEGOTIATING
  <2>5. CASE n = [k EXCEPT !.timers = 0, !.MICVerified = TRUE, !.PTK = key, !.PTK_valid = TRUE]
    <3>1. n.PtkGroupInit = k.PtkGroupInit  BY <2>2, <2>5 DEF SmShape
    <3> QED BY <1>1, <2>2, <3>1
  <2> QED BY <1>1, <2>2, <2>4, <2>5
<1>4. CASE y = PTKCALCNEGOTIATING2(x)
  <2>1. n = [m EXCEPT !.ptk = "PTKCALCNEGOTIATING2", !.TimeoutCtr = 0]
    BY <1>1, <1>2, <1>4 DEF XShape, SmShape, PTKCALCNEGOTIATING2
  <2> QED BY <1>1, <1>2, <2>1 DEF SmShape
<1>5. CASE y = PTKINITDONE(x, ok)
  <2>1. PICK z : z = [x EXCEPT !.sm.ptk = "PTKINITDONE", !.sm.rx = "none"]  OBVIOUS
  <2>2. PICK k : k = [m EXCEPT !.ptk = "PTKINITDONE", !.rx = "none"]  OBVIOUS
  <2>3. XShape(z) /\ z.sm = k /\ z.done = x.done
    BY <1>1, <1>2, <2>1, <2>2 DEF XShape, SmShape
  <2>4. SmShape(k) /\ k.PtkGroupInit = m.PtkGroupInit /\ k.requests = m.requests
        /\ k.GUpdateStationKeys = m.GUpdateStationKeys
    BY <1>2, <2>2 DEF SmShape
  <2>5. CASE y = wpa_sta_disconnect(z)
    <3>1. XOK(z)  BY <1>2, <2>3, <2>4 DEF XOK, SmOK
    <3>2. GroupPart(z.sm, y.sm)  BY <2>5, <3>1, DisconnectEffect
    <3> QED BY <1>1, <2>3, <2>4, <3>2 DEF GroupPart
  <2>6. CASE y = [z EXCEPT !.sm = [z.sm EXCEPT !.key = z.sm.PTK, !.rekey = TRUE, !.has_GTK = TRUE]]
    <3>1. n = [k EXCEPT !.key = k.PTK, !.rekey = TRUE, !.has_GTK = TRUE]
      BY <1>1, <2>3, <2>6 DEF XShape
    <3>2. n.PtkGroupInit = k.PtkGroupInit  BY <2>4, <3>1 DEF SmShape
    <3> QED BY <1>1, <2>4, <3>2
  <2> QED BY <1>5, <2>1, <2>5, <2>6 DEF PTKINITDONE
<1> QED BY <1>3, <1>4, <1>5

(* A round of WPA_PTK.                                                     *)
LEMMA PtkRoundSupplied ==
  ASSUME NEW x, NEW c, Given(x, c), Reset(x.sm),
         NEW g, NEW ok, NEW y, y = PtkRound(x, g, ok),
         NEW p, NEW d, NEW U, Queued(d, x), Keyed(x, p, d, U),
         NEW V, Known(V, U, x.sm, x.rand), NEW w, Supplied(x, p, d, V, g, w)
  PROVE  Supplied(y, p, d, V, g, w) /\ (y.sm.PtkGroupInit = TRUE => Vacant(y.sm))
<1>1. PICK t : t = PtkTarget(x.sm) /\ y = EnterPtk(x, t, g, ok)  BY DEF PtkRound
<1>2. x.sm.PtkGroupInit = TRUE => t \in Early  BY <1>1, ResetEarly
<1>3. CASE t \in Early
  <2>1. Started(x, y)  BY <1>1, <1>3, EarlyStarted
  <2>2. Supplied(y, p, d, V, g, w)  BY <2>1, StartedSupplied
  <2> QED BY <2>1, <2>2 DEF Started
<1>4. CASE t = "PTKCALCNEGOTIATING"
  <2>1. y = PTKCALCNEGOTIATING(x)  BY <1>1, <1>4 DEF EnterPtk
  <2>2. Follows(x.sm, y.sm) /\ y.out = x.out  BY <1>1, <1>4, <2>1, PtkcalcSupplied
  <2>3. Supplied(y, p, d, V, g, w)  BY <2>2, FollowsSupplied
  <2>4. y.sm.PtkGroupInit = x.sm.PtkGroupInit  BY <2>1, LateInit
  <2> QED BY <1>2, <1>4, <2>3, <2>4 DEF Early
<1>5. CASE t = "PTKCALCNEGOTIATING2"
  <2>1. y = PTKCALCNEGOTIATING2(x)  BY <1>1, <1>5 DEF EnterPtk
  <2>2. Follows(x.sm, y.sm) /\ y.out = x.out  BY <1>1, <1>5, <2>1, Ptkcalc2Supplied
  <2>3. Supplied(y, p, d, V, g, w)  BY <2>2, FollowsSupplied
  <2>4. y.sm.PtkGroupInit = x.sm.PtkGroupInit  BY <2>1, LateInit
  <2> QED BY <1>2, <1>5, <2>3, <2>4 DEF Early
<1>6. CASE t = "PTKINITNEGOTIATING"
  <2>1. y = PTKINITNEGOTIATING(x, g)  BY <1>1, <1>6 DEF EnterPtk
  <2>2. Supplied(y, p, d, V, g, w) /\ y.sm.PtkGroupInit = x.sm.PtkGroupInit
    BY <1>1, <1>6, <2>1, PtkinitSupplied
  <2> QED BY <1>2, <1>6, <2>2 DEF Early
<1>7. CASE t = "PTKINITDONE"
  <2>1. y = PTKINITDONE(x, ok)  BY <1>1, <1>7 DEF EnterPtk
  <2>2. Vacant(y.sm) \/ (Follows(x.sm, y.sm) /\ y.out = x.out)
    BY <1>1, <1>7, <2>1, PtkinitdoneSupplied
  <2>3. Supplied(y, p, d, V, g, w)  BY <2>2, FollowsSupplied, VacantShared DEF Supplied
  <2>4. y.sm.PtkGroupInit = x.sm.PtkGroupInit  BY <2>1, LateInit
  <2> QED BY <1>2, <1>7, <2>3, <2>4 DEF Early
<1>8. CASE t \notin Early \cup {"PTKCALCNEGOTIATING", "PTKCALCNEGOTIATING2",
                                "PTKINITNEGOTIATING", "PTKINITDONE"}
  <2>1. y = x  BY <1>1, <1>8 DEF EnterPtk, Early
  <2> QED BY <1>2, <1>8, <2>1
<1> QED BY <1>3, <1>4, <1>5, <1>6, <1>7, <1>8

-----------------------------------------------------------------------------
(* The group key in the states of WPA_PTK_GROUP.                           *)

(* IDLE.                                                                   *)
LEMMA IdleSupplied ==
  ASSUME NEW x, NEW c, Given(x, c), GroupTarget(x.sm) = "IDLE",
         x.sm.PtkGroupInit = TRUE => Vacant(x.sm), NEW y, y = GROUP_IDLE(x)
  PROVE  (Vacant(y.sm) \/ Follows(x.sm, y.sm)) /\ y.out = x.out /\ y.sm.PtkGroupInit = FALSE
<1>1. PICK m, n : m = x.sm /\ n = y.sm  OBVIOUS
<1>2. XShape(x) /\ SmShape(m) /\ SmOK(m) /\ SmTyped(m)
  BY <1>1 DEF Given, XOK, SmOK, Station
<1>3. n = [m EXCEPT !.grp = "IDLE", !.GTimeoutCtr = 0, !.PtkGroupInit = FALSE] /\ y.out = x.out
  BY <1>1, <1>2 DEF XShape, SmShape, GROUP_IDLE
<1>4. /\ n.ANonce = m.ANonce /\ n.alt_SNonce = m.alt_SNonce /\ n.alt_rc = m.alt_rc
      /\ n.valid = m.valid /\ n.ptk = m.ptk /\ n.PTK_valid = m.PTK_valid
      /\ n.MICVerified = m.MICVerified /\ n.rx = m.rx /\ n.update_snonce = m.update_snonce
      /\ n.requests = m.requests /\ n.GUpdateStationKeys = m.GUpdateStationKeys
      /\ n.grp = "IDLE" /\ n.PtkGroupInit = FALSE
  BY <1>2, <1>3 DEF SmShape
<1>5. m.PtkGroupInit = TRUE \/ m.grp \in {"REKEYESTABLISHED", "KEYERROR"}
  BY <1>1, <1>2, GroupTargets DEF SmTyped, SmOK
<1>6. CASE m.PtkGroupInit = TRUE
  BY <1>1, <1>3, <1>4, <1>6 DEF Vacant
<1>7. CASE m.grp \in {"REKEYESTABLISHED", "KEYERROR"}
  <2>1. \A f : Counts(f, n) => Counts(f, m)  BY <1>4 DEF Counts, Armed, Negotiating, HasAlt
  <2>2. Complete(n) => Complete(m)  BY <1>4 DEF Complete, Accepted
  <2>3. Quiet(m) => Quiet(n)  BY <1>4, <1>7 DEF Quiet
  <2> QED BY <1>1, <1>3, <1>4, <2>1, <2>2, <2>3 DEF Follows
<1> QED BY <1>5, <1>6, <1>7

(* REKEYESTABLISHED: message 2/2 was an answer.                            *)
LEMMA EstablishedSupplied ==
  ASSUME NEW x, NEW c, Given(x, c), GroupTarget(x.sm) = "REKEYESTABLISHED",
         NEW y, y = REKEYESTABLISHED(x)
  PROVE  Follows(x.sm, y.sm) /\ y.out = x.out /\ y.sm.PtkGroupInit = x.sm.PtkGroupInit
<1>1. PICK m, n : m = x.sm /\ n = y.sm  OBVIOUS
<1>2. XShape(x) /\ SmShape(m) /\ SmOK(m) /\ SmTyped(m) /\ RxOK(m)
  BY <1>1 DEF Given, XOK, SmOK, Station
<1>3. PICK k : k = [m EXCEPT !.GUpdateStationKeys = FALSE]  OBVIOUS
<1>4. n = [k EXCEPT !.grp = "REKEYESTABLISHED", !.rx = "none", !.GTimeoutCtr = 0,
                    !.has_GTK = TRUE] /\ y.out = x.out
  <2>1. PICK z : z = Discount(x)  OBVIOUS
  <2>2. XShape(z) /\ z.sm = k /\ z.out = x.out
    BY <1>1, <1>2, <1>3, <2>1 DEF XShape, Discount
  <2> QED BY <1>1, <2>1, <2>2 DEF XShape, REKEYESTABLISHED
<1>5. SmShape(k)  BY <1>2, <1>3 DEF SmShape
<1>6. /\ k.ANonce = m.ANonce /\ k.alt_SNonce = m.alt_SNonce /\ k.alt_rc = m.alt_rc
      /\ k.valid = m.valid /\ k.ptk = m.ptk /\ k.PTK_valid = m.PTK_valid
      /\ k.MICVerified = m.MICVerified /\ k.update_snonce = m.update_snonce
      /\ k.requests = m.requests /\ k.PtkGroupInit = m.PtkGroupInit
  BY <1>2, <1>3 DEF SmShape
<1>7. /\ n.ANonce = k.ANonce /\ n.alt_SNonce = k.alt_SNonce /\ n.alt_rc = k.alt_rc
      /\ n.valid = k.valid /\ n.ptk = k.ptk /\ n.PTK_valid = k.PTK_valid
      /\ n.MICVerified = k.MICVerified /\ n.update_snonce = k.update_snonce
      /\ n.requests = k.requests /\ n.PtkGroupInit = k.PtkGroupInit
  BY <1>4, <1>5 DEF SmShape
<1>8. m.rx = "group"  BY <1>1, <1>2, GroupTargets DEF SmTyped, SmOK
<1>9. m.ptk = "PTKINITDONE" /\ m.requests = {}  BY <1>2, <1>8 DEF RxOK
<1>10. \A f : Counts(f, n) => Counts(f, m)  BY <1>6, <1>7 DEF Counts, Armed, Negotiating, HasAlt
<1>11. Complete(n) => Complete(m)  BY <1>6, <1>7, <1>8, <1>9 DEF Complete, Accepted
<1>12. Quiet(m) => Quiet(n)  BY <1>6, <1>7, <1>8 DEF Quiet
<1> QED BY <1>1, <1>4, <1>6, <1>7, <1>10, <1>11, <1>12 DEF Follows

(* KEYERROR: the station is to be disconnected.                            *)
LEMMA KeyerrorSupplied ==
  ASSUME NEW x, NEW c, Given(x, c), NEW y, y = KEYERROR(x)
  PROVE  Follows(x.sm, y.sm) /\ y.out = x.out /\ y.sm.PtkGroupInit = x.sm.PtkGroupInit
<1>1. PICK m, n : m = x.sm /\ n = y.sm  OBVIOUS
<1>2. XShape(x) /\ SmShape(m)  BY <1>1 DEF Given, XOK, SmOK
<1>3. PICK k : k = [m EXCEPT !.GUpdateStationKeys = FALSE]  OBVIOUS
<1>4. SmShape(k)  BY <1>2, <1>3 DEF SmShape
<1>5. n = [k EXCEPT !.grp = "KEYERROR", !.requests = @ \cup {"Disconnect"}] /\ y.out = x.out
  <2>1. PICK z : z = Discount(x)  OBVIOUS
  <2>2. XShape(z) /\ z.sm = k /\ z.out = x.out
    BY <1>1, <1>2, <1>3, <2>1 DEF XShape, Discount
  <2> QED BY <1>1, <1>4, <2>1, <2>2 DEF XShape, SmShape, KEYERROR
<1>6. /\ k.ANonce = m.ANonce /\ k.alt_SNonce = m.alt_SNonce /\ k.alt_rc = m.alt_rc
      /\ k.valid = m.valid /\ k.ptk = m.ptk /\ k.PTK_valid = m.PTK_valid
      /\ k.MICVerified = m.MICVerified /\ k.PtkGroupInit = m.PtkGroupInit
  BY <1>2, <1>3 DEF SmShape
<1>7. /\ n.ANonce = k.ANonce /\ n.alt_SNonce = k.alt_SNonce /\ n.alt_rc = k.alt_rc
      /\ n.valid = k.valid /\ n.ptk = k.ptk /\ n.PTK_valid = k.PTK_valid
      /\ n.MICVerified = k.MICVerified /\ n.PtkGroupInit = k.PtkGroupInit
      /\ n.requests = k.requests \cup {"Disconnect"}
  BY <1>4, <1>5 DEF SmShape
<1>8. \A f : Counts(f, n) => Counts(f, m)  BY <1>6, <1>7 DEF Counts, Armed, Negotiating, HasAlt
<1>9. ~Complete(n) /\ Quiet(n)  BY <1>7 DEF Complete, Quiet
<1> QED BY <1>1, <1>5, <1>6, <1>7, <1>8, <1>9 DEF Follows

(* REKEYNEGOTIATING: message 1/2 brings the group key.                     *)
LEMMA RekeySupplied ==
  ASSUME NEW x, NEW c, Given(x, c), Calm(x.sm), GroupTarget(x.sm) = "REKEYNEGOTIATING",
         NEW g, NEW y, y = REKEYNEGOTIATING(x, g),
         NEW p, NEW d, NEW U, Queued(d, x), Keyed(x, p, d, U),
         NEW V, Known(V, U, x.sm, x.rand), NEW w, Supplied(x, p, d, V, g, w)
  PROVE  Supplied(y, p, d, V, g, w) /\ y.sm.PtkGroupInit = x.sm.PtkGroupInit
<1>1. PICK m, n, D, r : m = x.sm /\ n = y.sm /\ D = Downward(d \o x.out) /\ r = x.rand  OBVIOUS
<1>2. SmOK(m) /\ SmShape(m) /\ Station(m, c, r) /\ SmTyped(m) /\ r \in Nat
      /\ XShape(x) /\ Agreed(m, p, D, U, r) /\ ApKeys(m, r) /\ KeyOK(m, r) /\ m.ctr \in Nat
      /\ m.ANonce \in Nat /\ m.ANonce < r /\ m.valid \subseteq Nat
  BY <1>1, GivenFacts
<1>3. /\ \/ m.grp = "IDLE" /\ m.GUpdateStationKeys = TRUE
         \/ m.grp = "REKEYNEGOTIATING" /\ m.TimeoutEvt = TRUE
      /\ m.grp = "REKEYNEGOTIATING" => ~(m.rx = "group" /\ m.MICVerified = TRUE)
  BY <1>1, <1>2, GroupTargets DEF SmTyped, SmOK
<1>4. m.PTK_valid = TRUE => m.ptk = "PTKINITDONE" /\ "ReAuthentication" \notin m.requests
  <2>1. m.ptk = "PTKINITDONE" \/ m.ptk \notin Handshake
    BY <1>1, <1>2, <1>3 DEF Station, GrpOK, Calm
  <2> QED BY <1>2, <2>1 DEF ApKeys, Handshake, Awaiting, Negotiating
<1>5. m.rx # "group" /\ m.rx # "pairwise"
  <2>1. RxOK(m)  BY <1>2 DEF Station
  <2> QED BY <1>1, <1>3, <2>1 DEF RxOK, Calm
<1>6. PICK z : z = [x EXCEPT !.sm.grp = "REKEYNEGOTIATING", !.sm.GTimeoutCtr = @ + 1]
  OBVIOUS
<1>7. XShape(z) /\ z.out = x.out /\ z.done = x.done
      /\ z.sm = [m EXCEPT !.grp = "REKEYNEGOTIATING", !.GTimeoutCtr = @ + 1]
  BY <1>1, <1>2, <1>6 DEF XShape
<1>8. PICK k : k = z.sm  OBVIOUS
<1>9. /\ SmShape(k) /\ Memory(m, k) /\ RxPart(m, k) /\ k.GUpdateStationKeys = m.GUpdateStationKeys
      /\ k.requests = m.requests /\ k.grp = "REKEYNEGOTIATING" /\ k.ptk = m.ptk /\ k.ctr = m.ctr
      /\ k.valid = m.valid /\ k.PtkGroupInit = m.PtkGroupInit
  <2>1. k = [m EXCEPT !.grp = "REKEYNEGOTIATING", !.GTimeoutCtr = @ + 1]  BY <1>7, <1>8
  <2> QED BY <1>2, <2>1 DEF SmShape, Memory, SameSecrets, RxPart
<1>10. CASE y = z
  <2>1. \A f : Counts(f, k) => Counts(f, m)
    BY <1>9 DEF Counts, Memory, SameSecrets, HasAlt, Armed, Negotiating, RxPart
  <2>2. Complete(k) => Complete(m)  BY <1>9 DEF Complete, Accepted, Memory, SameSecrets, RxPart
  <2>3. Quiet(k)  BY <1>5, <1>9 DEF Quiet, RxPart
  <2>4. Follows(x.sm, y.sm) /\ y.out = x.out
    BY <1>1, <1>7, <1>8, <1>10, <2>1, <2>2, <2>3 DEF Follows
  <2>5. Supplied(y, p, d, V, g, w)  BY <2>4, FollowsSupplied
  <2> QED BY <1>1, <1>8, <1>9, <1>10, <2>5
<1>11. CASE y = Send([z EXCEPT !.sm.TimeoutEvt = FALSE], "1/2", {g})
  <2>1. PICK u, e, a : u = [z EXCEPT !.sm.TimeoutEvt = FALSE] /\ e = {g} /\ a = "1/2"  OBVIOUS
  <2>2. PICK l : l = u.sm  OBVIOUS
  <2>3. l = [k EXCEPT !.TimeoutEvt = FALSE] /\ XShape(u) /\ u.out = z.out /\ u.done = z.done
    BY <1>7, <1>8, <1>9, <2>1, <2>2 DEF XShape, SmShape
  <2>4. /\ SmShape(l) /\ Memory(k, l) /\ RxPart(k, l)
        /\ l.GUpdateStationKeys = k.GUpdateStationKeys /\ l.requests = k.requests
        /\ l.grp = k.grp /\ l.ptk = k.ptk /\ l.ctr = k.ctr
        /\ l.valid = k.valid /\ l.PtkGroupInit = k.PtkGroupInit
    BY <1>9, <2>3 DEF SmShape, Memory, SameSecrets, RxPart
  <2>5. XOK(u)
    BY <1>2, <1>7, <1>9, <2>2, <2>3, <2>4 DEF Given, XOK, SmOK
  <2>6. Memory(m, l) /\ RxPart(m, l)  BY <1>9, <2>4 DEF Memory, SameSecrets, RxPart
  <2>7. u.sm.ctr \in Nat /\ u.sm.PTK_valid \in BOOLEAN /\ y = Send(u, a, e)
    BY <1>2, <1>9, <1>11, <2>1, <2>2, <2>4, <2>6 DEF Memory, SameSecrets, SmTyped, SmFlags
  <2>8. NextSent(l, n) /\ GroupPart(l, n)
    <3>1. NextSent(u.sm, y.sm)  BY <2>5, <2>7, SendKeys
    <3>2. GroupPart(u.sm, y.sm)  BY <2>5, <2>7, SendEffect
    <3> QED BY <1>1, <2>2, <3>1, <3>2
  <2>9. \/ y.out = x.out /\ NoFrame(l, a)
        \/ \E f : y.out = Append(x.out, f) /\ NextFrame(f, l, a) /\ f.gtk = e
    <3>1. \/ y.out = u.out /\ NoFrame(u.sm, a)
          \/ \E f : y.out = Append(u.out, f) /\ NextFrame(f, u.sm, a) /\ f.gtk = e
      BY <2>5, <2>7, SendGtk
    <3> QED BY <1>7, <2>2, <2>3, <3>1
  <2>10. /\ Memory(m, n) /\ RxPart(m, n) /\ n.ptk = m.ptk /\ n.requests = m.requests
         /\ n.valid \subseteq m.valid \cup {m.ctr + 1} /\ n.grp = "REKEYNEGOTIATING"
         /\ n.GUpdateStationKeys = m.GUpdateStationKeys /\ n.PtkGroupInit = m.PtkGroupInit
    <3>1. Memory(m, n) /\ RxPart(m, n)  BY <2>6, <2>8 DEF NextSent, Memory, SameSecrets, RxPart
    <3> QED BY <1>9, <2>4, <2>8, <3>1 DEF NextSent, GroupPart
  <2>11. CASE NoFrame(l, a)
    <3>1. Vacant(y.sm)  BY <1>1, <2>6, <2>10, <2>11 DEF NoFrame, Memory, SameSecrets, Vacant
    <3> QED BY <1>1, <2>10, <3>1, VacantShared DEF Supplied
  <2>12. CASE \E f : y.out = Append(x.out, f) /\ NextFrame(f, l, a) /\ f.gtk = e
    <3>1. PICK f : y.out = Append(x.out, f) /\ NextFrame(f, l, a) /\ f.gtk = e  BY <2>12
    <3>2. /\ f.msg = "1/2" /\ f.mic = m.PTK /\ f.rc = m.ctr + 1 /\ m.PTK_valid = TRUE
          /\ f.gtk = {g}
      BY <1>9, <2>1, <2>4, <2>6, <3>1 DEF NextFrame, Memory, SameSecrets
    <3>3. An(f) = m.ANonce /\ m.ANonce > 0 /\ m.ptk = "PTKINITDONE"
          /\ "ReAuthentication" \notin m.requests
      BY <1>2, <1>4, <3>2 DEF An, ApKeys, KeyOK
    <3>4. PICK q, G : q = d \o x.out /\ G = Gtks(q) /\ G = OnLink(d, x)  BY DEF OnLink
    <3>5. \A h \in G : ~Before(f, h) /\ (An(h) = m.ANonce => h.rc \in Nat /\ h.rc <= m.ctr)
      <4>1. Agreed(m, p, Downward(q), U, r)  BY <1>1, <1>2, <3>4
      <4> QED BY <1>2, <3>2, <3>3, <3>4, <4>1, NewLast
    <3>6. \A h \in V : h.msg = "2/2" /\ An(h) = m.ANonce => h.rc \in Nat /\ h.rc <= m.ctr
      BY <1>1, <3>3 DEF Known, Old, An
    <3>7. \A h \in G \cup V : Counts(h, n) => Counts(h, m)
      <4> SUFFICES ASSUME NEW h \in G \cup V, Counts(h, n) PROVE Counts(h, m)  OBVIOUS
      <4>1. n.ptk = "PTKINITDONE" /\ n.ANonce = m.ANonce /\ m.PTK_valid = TRUE
        BY <2>10, <3>2, <3>3 DEF Memory, SameSecrets
      <4>2. ~Armed(n)  BY <4>1 DEF Armed, Negotiating
      <4>3. An(h) = m.ANonce /\ h.msg \in {"1/2", "2/2"} /\ h.rc \in n.valid
        BY <4>1, <4>2 DEF Counts
      <4>4. h.rc \in Nat /\ h.rc <= m.ctr
        <5>1. h \in V => h.msg = "2/2"  BY <4>3 DEF Known
        <5> QED BY <3>5, <3>6, <4>3, <5>1
      <4>5. h.rc \in m.valid  BY <1>2, <2>10, <4>3, <4>4
      <4> QED BY <3>3, <4>1, <4>3, <4>5 DEF Counts
    <3>8. Complete(n) => Complete(m)  BY <2>10 DEF Complete, Accepted, Memory, SameSecrets, RxPart
    <3>9. Quiet(n)  BY <1>5, <2>10 DEF Quiet, RxPart
    <3>10. Shared(n, p, G \cup {f}, V, g, w)
      <4>1. Shared(m, p, G, V, g, w)  BY <1>1, <3>4 DEF Supplied
      <4> QED BY <3>2, <3>5, <3>7, <3>8, <3>9, <4>1, SentShared
    <3>11. OnLink(d, y) = OnLink(d, x) \cup {f}
      <4>1. y.out = Append(x.out, f) /\ f.msg \in {"3/4", "1/2"}  BY <3>1, <3>2
      <4> QED BY <4>1, SentGtks
    <3> QED BY <1>1, <2>10, <3>4, <3>10, <3>11 DEF Supplied
  <2> QED BY <2>9, <2>11, <2>12
<1> QED BY <1>6, <1>10, <1>11 DEF REKEYNEGOTIATING

(* A round of WPA_PTK_GROUP.                                               *)
LEMMA GroupRoundSupplied ==
  ASSUME NEW x, NEW c, Given(x, c), Calm(x.sm), x.sm.PtkGroupInit = TRUE => Vacant(x.sm),
         NEW g, NEW y, y = GroupRound(x, g),
         NEW p, NEW d, NEW U, Queued(d, x), Keyed(x, p, d, U),
         NEW V, Known(V, U, x.sm, x.rand), NEW w, Supplied(x, p, d, V, g, w)
  PROVE  Supplied(y, p, d, V, g, w) /\ y.sm.PtkGroupInit = FALSE
<1>1. PICK t : t = GroupTarget(x.sm) /\ y = EnterGroup(x, t, g)  BY DEF GroupRound
<1>2. t # "IDLE" => x.sm.PtkGroupInit = FALSE
  <2>1. x.sm.PtkGroupInit \in BOOLEAN  BY DEF Given, Station, SmTyped, SmFlags
  <2> QED BY <1>1, <2>1 DEF GroupTarget
<1>3. CASE t = "IDLE"
  <2>1. y = GROUP_IDLE(x)  BY <1>1, <1>3 DEF EnterGroup
  <2>2. /\ Vacant(y.sm) \/ Follows(x.sm, y.sm)
        /\ y.out = x.out /\ y.sm.PtkGroupInit = FALSE
    BY <1>1, <1>3, <2>1, IdleSupplied
  <2>3. Supplied(y, p, d, V, g, w)  BY <2>2, FollowsSupplied, VacantShared DEF Supplied
  <2> QED BY <2>2, <2>3
<1>4. CASE t = "REKEYNEGOTIATING"
  <2>1. y = REKEYNEGOTIATING(x, g)  BY <1>1, <1>4 DEF EnterGroup
  <2>2. Supplied(y, p, d, V, g, w) /\ y.sm.PtkGroupInit = x.sm.PtkGroupInit
    BY <1>1, <1>4, <2>1, RekeySupplied
  <2> QED BY <1>2, <1>4, <2>2
<1>5. CASE t = "REKEYESTABLISHED"
  <2>1. y = REKEYESTABLISHED(x)  BY <1>1, <1>5 DEF EnterGroup
  <2>2. Follows(x.sm, y.sm) /\ y.out = x.out /\ y.sm.PtkGroupInit = x.sm.PtkGroupInit
    BY <1>1, <1>5, <2>1, EstablishedSupplied
  <2>3. Supplied(y, p, d, V, g, w)  BY <2>2, FollowsSupplied
  <2> QED BY <1>2, <1>5, <2>2, <2>3
<1>6. CASE t = "KEYERROR"
  <2>1. y = KEYERROR(x)  BY <1>1, <1>6 DEF EnterGroup
  <2>2. Follows(x.sm, y.sm) /\ y.out = x.out /\ y.sm.PtkGroupInit = x.sm.PtkGroupInit
    BY <2>1, KeyerrorSupplied
  <2>3. Supplied(y, p, d, V, g, w)  BY <2>2, FollowsSupplied
  <2> QED BY <1>2, <1>6, <2>2, <2>3
<1>7. CASE t \notin {"IDLE", "REKEYNEGOTIATING", "REKEYESTABLISHED", "KEYERROR"}
  <2>1. y = x  BY <1>1, <1>7 DEF EnterGroup
  <2> QED BY <1>2, <1>7, <2>1
<1> QED BY <1>3, <1>4, <1>5, <1>6, <1>7

(* A round of both machines.                                               *)
LEMMA RoundSupplied ==
  ASSUME NEW x, NEW c, Given(x, c), Reset(x.sm), NEW g, NEW ok,
         NEW y, y = PtkRound(x, g, ok), NEW z, z = GroupRound(y, g),
         NEW p, NEW d, NEW U, NEW S, d \in Seq(S), Keyed(x, p, d, U),
         NEW V, Known(V, U, x.sm, x.rand), NEW w, Supplied(x, p, d, V, g, w)
  PROVE  Supplied(z, p, d, V, g, w) /\ Reset(z.sm)
<1>1. PtkMade(x, y, c) \/ PtkMade(x, y, TRUE)  BY PtkRoundMade
<1>2. PICK e : Given(y, e) /\ Calm(y.sm) /\ Ages(x.sm, x.rand, y.sm, y.rand)
  BY <1>1 DEF PtkMade, Made
<1>3. \A u, b : Given(u, b) => Queued(d, u)
  <2> SUFFICES ASSUME NEW u, NEW b, Given(u, b) PROVE Queued(d, u)  OBVIOUS
  <2>1. PICK o, T : o = u.out /\ T = Elements(o)  OBVIOUS
  <2>2. o \in Seq(T)  BY <2>1 DEF Given, DownOK
  <2>3. PICK W : W = S \cup T  OBVIOUS
  <2>4. d \in Seq(W) /\ o \in Seq(W)  BY <2>2, <2>3
  <2> QED BY <2>1, <2>4 DEF Queued
<1>4. Queued(d, x) /\ Queued(d, y)  BY <1>2, <1>3
<1>5. Keyed(y, p, d, U)  BY <1>4, PtkRoundKeyed
<1>6. Supplied(y, p, d, V, g, w) /\ (y.sm.PtkGroupInit = TRUE => Vacant(y.sm))
  BY <1>4, PtkRoundSupplied
<1>7. Known(V, U, y.sm, y.rand)  BY <1>2 DEF Known, Ages
<1>8. Supplied(z, p, d, V, g, w) /\ z.sm.PtkGroupInit = FALSE
  BY <1>2, <1>4, <1>5, <1>6, <1>7, GroupRoundSupplied
<1> QED BY <1>8 DEF Reset

-----------------------------------------------------------------------------
(* The group key and what happens to a station whose machines are at rest. *)

(* The record n has no key, and no group request that is left alone.       *)
Emptied(m, n) == Vacant(n) /\ Reset(n) /\ (m.started = TRUE => n.started = TRUE)
(* The record n follows m, and is at rest as m is.                         *)
Carried(m, n) == Follows(m, n) /\ n.PtkGroupInit = m.PtkGroupInit /\ n.started = m.started

(* The station left.                                                       *)
LEMMA DeauthEmptied ==
  ASSUME NEW m, SmOK(m), AtEase(m), NEW n, n = [EventDeauth(m) EXCEPT !.assoc = FALSE]
  PROVE  Emptied(m, n)
<1>1. SmShape(m) /\ m.PtkGroupInit = FALSE  BY DEF SmOK, AtEase
<1>2. PICK k : k = wpa_remove_ptk(m)  OBVIOUS
<1>3. SmShape(k) /\ k.PTK_valid = FALSE /\ k.PtkGroupInit = m.PtkGroupInit
  BY <1>1, <1>2 DEF SmShape, wpa_remove_ptk
<1>4. PICK j : j = [k EXCEPT !.requests = @ \cup {"Deauthentication"}]  OBVIOUS
<1>5. SmShape(j) /\ j.PTK_valid = FALSE /\ j.PtkGroupInit = FALSE
  BY <1>1, <1>3, <1>4 DEF SmShape
<1>6. n = [j EXCEPT !.assoc = FALSE]  BY <1>2, <1>4 DEF EventDeauth
<1>7. n.PTK_valid = FALSE /\ n.PtkGroupInit = FALSE  BY <1>5, <1>6 DEF SmShape
<1>8. Same(m, n)  BY DeauthSame
<1> QED BY <1>7, <1>8 DEF Emptied, Vacant, Reset, Same

(* A new pairwise key is asked for.                                        *)
LEMMA NewPtkEmptied ==
  ASSUME NEW m, SmOK(m), AtEase(m), NEW n, n = wpa_request_new_ptk(m)
  PROVE  Emptied(m, n)
<1>1. SmShape(m) /\ m.PtkGroupInit = FALSE  BY DEF SmOK, AtEase
<1>2. n.PTK_valid = FALSE /\ n.PtkGroupInit = FALSE
  BY <1>1 DEF SmShape, wpa_request_new_ptk
<1>3. Same(m, n)  BY NewPtkSame
<1> QED BY <1>2, <1>3 DEF Emptied, Vacant, Reset, Same

(* The station associates again.                                           *)
LEMMA ReauthEmptied ==
  ASSUME NEW m, SmOK(m), NEW x, XOK(x), x.sm = wpa_remove_ptk(m),
         NEW n, n = EventReauth(x).sm
  PROVE  Emptied(m, n)
<1>1. PICK k : k = wpa_remove_ptk(m)  OBVIOUS
<1>2. SmShape(k) /\ k.started = m.started
  BY <1>1 DEF SmOK, SmShape, wpa_remove_ptk
<1>3. PICK y : y = IF k.GUpdateStationKeys
                   THEN [Discount(x) EXCEPT !.sm.PtkGroupInit = TRUE] ELSE x
  OBVIOUS
<1>4. PICK l : l = y.sm  OBVIOUS
<1>5. XShape(y) /\ SmShape(l)
  <2>1. CASE k.GUpdateStationKeys
    <3>1. PICK z, j : z = Discount(x) /\ j = [k EXCEPT !.GUpdateStationKeys = FALSE]  OBVIOUS
    <3>2. XShape(z) /\ z.sm = j  BY <1>1, <3>1 DEF XOK, XShape, Discount
    <3>3. SmShape(j)  BY <1>2, <3>1 DEF SmShape
    <3>4. XShape(y) /\ l = [j EXCEPT !.PtkGroupInit = TRUE]
      BY <1>3, <1>4, <2>1, <3>1, <3>2, <3>3 DEF XShape, SmShape
    <3> QED BY <3>3, <3>4 DEF SmShape
  <2>2. CASE ~k.GUpdateStationKeys  BY <1>1, <1>2, <1>3, <1>4, <2>2 DEF XOK
  <2> QED BY <2>1, <2>2
<1>6. n = [wpa_remove_ptk(l) EXCEPT !.requests = @ \cup {"ReAuthentication"}]
  BY <1>1, <1>3, <1>4, <1>5 DEF XShape, EventReauth
<1>7. PICK j : j = wpa_remove_ptk(l)  OBVIOUS
<1>8. SmShape(j) /\ j.PTK_valid = FALSE  BY <1>5, <1>7 DEF SmShape, wpa_remove_ptk
<1>9. n.PTK_valid = FALSE /\ "ReAuthentication" \in n.requests
  BY <1>6, <1>7, <1>8 DEF SmShape
<1>10. n.started = m.started
  <2>1. PICK u : u = EventReauth(x)  OBVIOUS
  <2>2. Kept(x, u)  BY <2>1, ReauthKept
  <2> QED BY <1>1, <1>2, <2>1, <2>2 DEF Kept
<1> QED BY <1>9, <1>10 DEF Emptied, Vacant, Reset

(* It associates, for the first time or when it was disconnected.          *)
LEMMA AssociatedEmptied ==
  ASSUME NEW m, SmOK(m), AtEase(m), Begun(m),
         NEW n, n = [wpa_auth_sta_associated(wpa_remove_ptk(m)) EXCEPT !.assoc = TRUE]
  PROVE  Emptied(m, n) /\ n.started = TRUE
<1>1. SmShape(m) /\ m.PtkGroupInit = FALSE /\ m.started \in BOOLEAN
  <2>1. NoStation.started = FALSE  BY DEF NoStation
  <2> QED BY <2>1 DEF SmOK, AtEase, Begun
<1>2. PICK k : k = wpa_remove_ptk(m)  OBVIOUS
<1>3. SmShape(k) /\ k.PTK_valid = FALSE /\ k.PtkGroupInit = FALSE /\ k.started = m.started
  BY <1>1, <1>2 DEF SmShape, wpa_remove_ptk
<1>4. PICK j : j = wpa_auth_sta_associated(k)  OBVIOUS
<1>5. SmShape(j) /\ j.PTK_valid = FALSE /\ j.PtkGroupInit = FALSE /\ j.started = TRUE
  <2>1. CASE k.started = TRUE
    <3>1. j = [k EXCEPT !.ctr = 0, !.valid = {}, !.requests = @ \cup {"ReAuthentication"}]
      BY <1>4, <2>1 DEF wpa_auth_sta_associated
    <3> QED BY <1>3, <2>1, <3>1 DEF SmShape
  <2>2. CASE k.started = FALSE
    <3>1. j = [k EXCEPT !.started = TRUE, !.requests = @ \cup {"Authentication"}]
      BY <1>4, <2>2 DEF wpa_auth_sta_associated
    <3> QED BY <1>3, <2>2, <3>1 DEF SmShape
  <2> QED BY <1>1, <1>3, <2>1, <2>2
<1>6. n.PTK_valid = FALSE /\ n.PtkGroupInit = FALSE /\ n.started = TRUE
  <2>1. n = [j EXCEPT !.assoc = TRUE]  BY <1>2, <1>4
  <2> QED BY <1>5, <2>1 DEF SmShape
<1> QED BY <1>6 DEF Emptied, Vacant, Reset

(* It is forgotten.                                                        *)
LEMMA NoStationVacant == Vacant(NoStation) /\ Reset(NoStation) /\ Begun(NoStation)
  BY DEF Vacant, Reset, Begun, NoStation, Negotiating

(* A timeout, or a frame that is refused.                                  *)
LEMMA IndifferentCarried ==
  ASSUME NEW m, SmOK(m), NEW n,
         n = wpa_send_eapol_timeout(m) \/ n = [m EXCEPT !.MICVerified = FALSE]
  PROVE  Carried(m, n)
<1>1. SmShape(m)  BY DEF SmOK
<1>2. /\ n.ANonce = m.ANonce /\ n.alt_SNonce = m.alt_SNonce /\ n.alt_rc = m.alt_rc
      /\ n.valid = m.valid /\ n.ptk = m.ptk /\ n.PTK_valid = m.PTK_valid
      /\ n.rx = m.rx /\ n.update_snonce = m.update_snonce
      /\ n.requests = m.requests /\ n.GUpdateStationKeys = m.GUpdateStationKeys
      /\ n.grp = m.grp /\ n.PtkGroupInit = m.PtkGroupInit /\ n.started = m.started
      /\ n.MICVerified \in {m.MICVerified, FALSE}
  <2>1. CASE n = [m EXCEPT !.MICVerified = FALSE]  BY <1>1, <2>1 DEF SmShape
  <2>2. CASE n = [m EXCEPT !.timers = @ - 1, !.TimeoutEvt = TRUE]  BY <1>1, <2>2 DEF SmShape
  <2> QED BY <2>1, <2>2 DEF wpa_send_eapol_timeout
<1>3. Armed(n) => Armed(m)  BY <1>2 DEF Armed, Negotiating
<1>4. \A f : Counts(f, n) => Counts(f, m)  BY <1>2, <1>3 DEF Counts, HasAlt
<1>5. Complete(n) => Complete(m)  BY <1>2 DEF Complete, Accepted
<1>6. Quiet(m) => Quiet(n)  BY <1>2 DEF Quiet
<1> QED BY <1>2, <1>4, <1>5, <1>6 DEF Carried, Follows

(* The walk of a rekeying reaches the station: it is to be given the new   *)
(* key, or a handshake gives it to it.                                     *)
LEMMA VisitCarried ==
  ASSUME NEW m, SmOK(m), AtEase(m), NEW v, NEW n, n = [m EXCEPT !.GUpdateStationKeys = v],
         IF m.ptk = "PTKINITDONE" THEN v = TRUE ELSE v = FALSE
  PROVE  Carried(m, n) /\ ~Complete(n)
<1>1. SmShape(m) /\ m.rx \notin {"group", "pairwise"}  BY DEF SmOK, AtEase
<1>2. /\ n.ANonce = m.ANonce /\ n.alt_SNonce = m.alt_SNonce /\ n.alt_rc = m.alt_rc
      /\ n.valid = m.valid /\ n.ptk = m.ptk /\ n.PTK_valid = m.PTK_valid
      /\ n.rx = m.rx /\ n.requests = m.requests /\ n.GUpdateStationKeys = v
      /\ n.grp = m.grp /\ n.PtkGroupInit = m.PtkGroupInit /\ n.started = m.started
      /\ n.MICVerified = m.MICVerified
  BY <1>1 DEF SmShape
<1>3. \A f : Counts(f, n) => Counts(f, m)  BY <1>2 DEF Counts, Armed, Negotiating, HasAlt
<1>4. ~Complete(n)  BY <1>1, <1>2 DEF Complete, Accepted
<1>5. Quiet(m) => Quiet(n)  BY <1>2 DEF Quiet
<1> QED BY <1>2, <1>3, <1>4, <1>5 DEF Carried, Follows

(* A frame is accepted.                                                    *)
LEMMA ReceiveShared ==
  ASSUME NEW m, SmOK(m), NEW c, NEW r \in Nat, r > 0, Station(m, c, r), AtEase(m),
         NEW p, NEW D, NEW U, Agreed(m, p, D, U, r),
         NEW f, UpFrame(f, m, r), Expected(m, f), ~MicRefused(m, f),
         NEW n, n = wpa_receive(m, f),
         NEW G, NEW V, f.msg \in {"4/4", "2/2"} => f \in V, NEW g, NEW w,
         Shared(m, p, G, V, g, w)
  PROVE  Shared(n, p, G, V, g, w) /\ Reset(n)
<1>1. /\ m.requests = {} /\ m.rx # "pairwise" /\ m.update_snonce = FALSE
      /\ m.ANonce \in Nat /\ ApKeys(m, r) /\ m.PTK_valid \in BOOLEAN /\ RxOK(m)
      /\ m.PtkGroupInit = FALSE
  BY EaseFacts DEF Station, AtEase
<1>2. Received(m, f, n)  BY <1>1, ReceiveEffect
<1>3. Taken(m, f, n) /\ TakenAlt(m, f, n)  BY ReceiveKeys
<1>4. RxOK(n)  BY ReceiveStruck DEF Struck, Station
<1>5. Reset(n)  BY <1>1, <1>2 DEF Received, GroupPart, Reset
<1>6. CASE f.msg = "request"
  <2>1. Vacant(n)  BY <1>2, <1>6 DEF Received, Vacant
  <2> QED BY <1>5, <2>1, VacantShared
<1>16. CASE f.msg = "grequest"
  <2>1. ~SNonceUpdate(m, f) /\ ~AltMic(m, f)  BY <1>16 DEF SNonceUpdate, AltMic
  <2>2. /\ n.ANonce = m.ANonce /\ n.valid = m.valid /\ n.ptk = m.ptk /\ n.rx = "grequest"
        /\ n.PTK_valid = m.PTK_valid /\ n.requests = m.requests /\ n.grp = m.grp
        /\ n.GUpdateStationKeys = m.GUpdateStationKeys
        /\ n.alt_SNonce = m.alt_SNonce /\ n.alt_rc = m.alt_rc
    BY <1>2, <1>3, <1>16, <2>1 DEF Received, GroupPart, TakenAlt
  <2>3. \A h : Counts(h, n) => Counts(h, m)  BY <2>2 DEF Counts, Armed, HasAlt
  <2>4. Complete(n) => Complete(m)  BY <2>2 DEF Complete, Accepted
  <2>5. Quiet(m) => Quiet(n)  BY <2>2 DEF Quiet
  <2> QED BY <1>5, <2>3, <2>4, <2>5, FollowsShared DEF Follows
<1>17. f.msg \in {"2/4", "4/4", "2/2"} => f.msg \notin Requests  BY DEF Requests
<1>7. CASE f.msg = "2/4" /\ ~SNonceUpdate(m, f)
  <2>1. n.ptk = "PTKSTART"  BY <1>1, <1>2, <1>7, <1>17 DEF Expected, RxOK, Received
  <2>2. Vacant(n)  BY <2>1 DEF Vacant, Negotiating
  <2> QED BY <1>5, <2>2, VacantShared
<1>8. CASE SNonceUpdate(m, f)
  <2>1. f.msg = "2/4" /\ m.ptk = "PTKINITNEGOTIATING"  BY <1>8 DEF SNonceUpdate
  <2>2. /\ n.ANonce = m.ANonce /\ n.valid = {} /\ n.ptk = m.ptk /\ n.rx = "pairwise"
        /\ n.PTK_valid = m.PTK_valid /\ n.update_snonce = TRUE /\ n.alt_rc = m.ctr
    BY <1>2, <1>3, <1>8, <1>17, <2>1 DEF Received, TakenAlt
  <2>3. Armed(m) /\ m.ctr \in m.valid  BY <1>1, <2>1 DEF ApKeys, Armed, Negotiating
  <2>4. \A h : Counts(h, n) => Counts(h, m)
    BY <2>1, <2>2, <2>3 DEF Counts
  <2>5. ~Complete(n) /\ Quiet(n)  BY <2>1, <2>2 DEF Complete, Accepted, Quiet
  <2>6. Follows(m, n)  BY <2>4, <2>5 DEF Follows
  <2> QED BY <1>5, <2>6, FollowsShared
<1>9. CASE f.msg = "4/4"
  <2>1. /\ m.ptk = "PTKINITNEGOTIATING" /\ m.PTK_valid = TRUE
        /\ f.rc \in m.valid \/ (HasAlt(m) /\ f.rc = m.alt_rc)
    BY <1>1, <1>9 DEF Expected, Requests, AltSNonce, HasAlt
  <2>2. ~SNonceUpdate(m, f) /\ Checked(m, f)  BY <1>9, <2>1 DEF SNonceUpdate, Checked
  <2>3. f.mic = m.PTK \/ f.mic = AltKey(m)  BY <2>2 DEF MicRefused, AltMic
  <2>4. An(f) = m.ANonce  BY <1>1, <1>9, <2>1, <2>3 DEF An, ApKeys, AltKey, Ptk
  <2>5. Armed(m)  BY <2>1 DEF Armed, Negotiating
  <2>6. Served(p, G, g)
    <3>1. Counts(f, m)  BY <1>9, <2>1, <2>4, <2>5 DEF Counts
    <3> QED BY <1>9, <3>1 DEF Shared, Answering
  <2>7. /\ n.ANonce = m.ANonce /\ n.valid = {} /\ n.ptk = m.ptk /\ n.rx = "pairwise"
        /\ n.PTK_valid = m.PTK_valid /\ n.alt_rc = m.alt_rc
        /\ n.alt_SNonce \in {m.alt_SNonce, NoNonce}
    BY <1>2, <1>3, <1>9, <1>17, <2>2 DEF Received, TakenAlt
  <2>8. \A h : Counts(h, n) => Counts(h, m)
    BY <2>1, <2>5, <2>7 DEF Counts, HasAlt
  <2>9. Quiet(n)  BY <2>1, <2>7 DEF Quiet
  <2>10. Coming(n, G, g) /\ Answering(n, p, G, V, g)
    BY <2>8 DEF Shared, Coming, Answering
  <2> QED BY <1>5, <2>6, <2>9, <2>10 DEF Shared
<1>10. CASE f.msg = "2/2"
  <2>1. f.rc \in m.valid /\ m.PTK_valid = TRUE  BY <1>1, <1>10 DEF Expected, Requests
  <2>2. ~SNonceUpdate(m, f) /\ Checked(m, f)  BY <1>10, <2>1 DEF SNonceUpdate, Checked
  <2>3. f.mic = m.PTK  BY <1>10, <2>2 DEF MicRefused, AltMic
  <2>4. An(f) = m.ANonce  BY <1>1, <1>10, <2>1, <2>3 DEF An, ApKeys
  <2>5. /\ n.valid = {} /\ n.ptk = m.ptk /\ n.rx = "group"
    BY <1>2, <1>10, <1>17 DEF Received
  <2>6. n.ptk = "PTKINITDONE"  BY <1>4, <2>5 DEF RxOK
  <2>7. Served(p, G, g)
    <3>1. Counts(f, m)  BY <1>10, <2>1, <2>4, <2>5, <2>6 DEF Counts
    <3> QED BY <1>10, <3>1 DEF Shared, Answering
  <2>8. ~Armed(n)  BY <2>6 DEF Armed, Negotiating
  <2>9. \A h : ~Counts(h, n)  BY <2>5, <2>8 DEF Counts
  <2>10. Coming(n, G, g) /\ Answering(n, p, G, V, g) /\ Quiet(n)
    BY <2>5, <2>9 DEF Coming, Answering, Quiet
  <2> QED BY <1>5, <2>7, <2>10 DEF Shared
<1> QED BY <1>6, <1>7, <1>8, <1>9, <1>10, <1>16 DEF Expected, Requests

-----------------------------------------------------------------------------
(* The group key and the supplicant.                                       *)

(* The supplicant p took the frame f: it is q now, and answered with R.    *)
Handled(p, f, q, R) ==
  \/ q.assoc = FALSE
  \/ q.gtk = p.gtk /\ q.assoc = p.assoc /\ R = {}
  \/ /\ f.msg \in {"3/4", "1/2"} /\ q.assoc = p.assoc
     /\ \A g : f.gtk = {g} /\ g.idx \in {1, 2} => q.gtk[g.idx] = g.key
     /\ \A e \in R : /\ e.rc = f.rc /\ e.mic = f.mic
                     /\ e.msg = IF f.msg = "3/4" THEN "4/4" ELSE "2/2"

(* Then the ends still share the key, if the frame was the first.          *)
LEMMA HandledShared ==
  ASSUME NEW m, NEW p, NEW D, NEW U, NEW g, NEW w, Shared(m, p, D, U, g, w), g.idx \in {1, 2},
         NEW f, f.msg \in {"3/4", "1/2"} => f \in D,
         NEW E, E \subseteq D, \A h \in E : Before(f, h),
         NEW q, NEW R, Handled(p, f, q, R)
  PROVE  Shared(m, q, E, U \cup R, g, w)
<1>1. CASE q.assoc = FALSE
  <2>1. Served(q, E, g)  BY <1>1 DEF Served
  <2> QED BY <2>1 DEF Shared, Coming, Answering
<1>2. CASE q.gtk = p.gtk /\ q.assoc = p.assoc /\ R = {}
  <2>1. Served(p, D, g) => Served(q, E, g)  BY <1>2 DEF Served
  <2> QED BY <1>2, <2>1 DEF Shared, Coming, Answering
<1>3. CASE /\ f.msg \in {"3/4", "1/2"} /\ q.assoc = p.assoc
           /\ \A k : f.gtk = {k} /\ k.idx \in {1, 2} => q.gtk[k.idx] = k.key
           /\ \A e \in R : /\ e.rc = f.rc /\ e.mic = f.mic
                           /\ e.msg = IF f.msg = "3/4" THEN "4/4" ELSE "2/2"
  <2>1. f \in D  BY <1>3
  <2>2. f.gtk = {g} => q.gtk[g.idx] = g.key  BY <1>3
  <2>3. Served(p, D, g) => Served(q, E, g)  BY <1>3, <2>1, <2>2 DEF Served
  <2>4. \A e \in R : Counts(e, m) => Served(q, E, g)
    <3> SUFFICES ASSUME NEW e \in R, Counts(e, m) PROVE Served(q, E, g)  OBVIOUS
    <3>1. /\ e.rc = f.rc /\ e.mic = f.mic
          /\ e.msg = IF f.msg = "3/4" THEN "4/4" ELSE "2/2"
      BY <1>3
    <3>2. An(e) = An(f)  BY <1>3, <3>1 DEF An
    <3>3. Counts(f, m)  BY <1>3, <3>1, <3>2 DEF Counts
    <3>4. f.gtk = {g} /\ \A h \in E : h.gtk = {g}
      BY <2>1, <3>3 DEF Shared, Coming
    <3> QED BY <2>2, <3>4 DEF Served
  <2>5. Coming(m, E, g) /\ Answering(m, q, E, U \cup R, g)
    BY <2>3, <2>4 DEF Shared, Coming, Answering
  <2> QED BY <2>3, <2>5 DEF Shared
<1> QED BY <1>1, <1>2, <1>3 DEF Handled

(* The driver has the group key of the frame.                              *)
LEMMA GtkInstalled ==
  ASSUME NEW p, SupShape(p), NEW f, NEW q, q = InstallGtk(p, f)
  PROVE  \A g : f.gtk = {g} /\ g.idx \in {1, 2} => q.gtk[g.idx] = g.key
<1> SUFFICES ASSUME NEW g, f.gtk = {g}, g.idx \in {1, 2} PROVE q.gtk[g.idx] = g.key
  OBVIOUS
<1>1. PICK a : a = p.gtk  OBVIOUS
<1>2. PICK t : t = [i \in {1, 2} |->
        IF \E h \in f.gtk : h.idx = i THEN (CHOOSE h \in f.gtk : h.idx = i).key ELSE a[i]]
  OBVIOUS
<1>3. q = [p EXCEPT !.gtk = t]  BY <1>1, <1>2 DEF InstallGtk
<1>4. q.gtk = t  BY <1>3 DEF SupShape
<1>5. PICK i : i = g.idx  OBVIOUS
<1>6. PICK h : h = CHOOSE k \in f.gtk : k.idx = i  OBVIOUS
<1>7. g \in f.gtk /\ g.idx = i  BY <1>5
<1>8. h \in f.gtk  BY <1>6, <1>7
<1>9. h = g  BY <1>8
<1>10. t[i] = h.key  BY <1>2, <1>5, <1>6, <1>7
<1> QED BY <1>4, <1>5, <1>9, <1>10

(* A frame is sent by the supplicant.                                      *)
LEMMA ReplyReplies ==
  ASSUME NEW x, NEW f, SuppOK(x, f), NEW msg, NEW rc, NEW nonce, NEW mic,
         NEW y, y = Reply(x, msg, rc, nonce, mic),
         NEW e, e = [msg |-> msg, rc |-> rc, nonce |-> nonce, mic |-> mic]
  PROVE  /\ y = [sup |-> x.sup, out |-> y.out, rand |-> x.rand]
         /\ Replies(y.out) \subseteq Replies(x.out) \cup {e}
         /\ msg \notin {"4/4", "2/2"} => Replies(y.out) \subseteq Replies(x.out)
<1>1. PICK q, a : q = x.out /\ a = Append(q, e)  OBVIOUS
<1>2. y = [sup |-> x.sup, out |-> a, rand |-> x.rand]  BY <1>1 DEF SuppOK, Reply
<1>3. PICK S : S = Elements(q) /\ q \in Seq(S)  BY <1>1 DEF SuppOK, Answers
<1>4. Elements(a) = Elements(q) \cup {e}  BY <1>1, <1>3, AppendElements
<1>5. e.msg = msg  OBVIOUS
<1> QED BY <1>1, <1>2, <1>4, <1>5 DEF Replies

(* It leaves.                                                              *)
LEMMA DeauthenticateLeft ==
  ASSUME NEW x, NEW f, SuppOK(x, f), NEW y, y = wpa_sm_deauthenticate(x)
  PROVE  y.sup.assoc = FALSE
<1>1. PICK z, e : /\ z = Reply(x, "deauth", 0, NoNonce, NoKey)
                  /\ e = [msg |-> "deauth", rc |-> 0, nonce |-> NoNonce, mic |-> NoKey]
  OBVIOUS
<1>2. z = [sup |-> x.sup, out |-> z.out, rand |-> x.rand]  BY <1>1, ReplyReplies
<1>3. PICK v, q : v = x.sup /\ q = wpa_sm_notify_disassoc(v)  OBVIOUS
<1>4. y = [z EXCEPT !.sup = q]  BY <1>1, <1>3 DEF wpa_sm_deauthenticate
<1>5. y.sup = q  BY <1>2, <1>4
<1>6. SupShape(v)  BY <1>3 DEF SuppOK
<1>7. q.assoc = FALSE  BY <1>3, <1>6 DEF SupShape, wpa_sm_notify_disassoc
<1> QED BY <1>5, <1>7

(* Message 1/4.                                                            *)
LEMMA Process1of4Handled ==
  ASSUME NEW x, NEW f, SuppOK(x, f), Replies(x.out) = {}, NEW y, y = process_1_of_4(x, f)
  PROVE  Handled(x.sup, f, y.sup, Replies(y.out))
<1>1. PICK p, r : p = x.sup /\ r = x.rand  OBVIOUS
<1>2. SupShape(p)  BY <1>1 DEF SuppOK
<1>3. PICK renew, s, k :
        /\ renew = (p.renew_snonce \/ p.kind # "steady")
        /\ s = IF renew THEN r ELSE p.snonce
        /\ k = Ptk(p.pmk, f.nonce, s)
  OBVIOUS
<1>4. PICK a, q, t, u :
        /\ a = IF p.kind = "first" /\ p.tptk # NoKey THEN p.tptk ELSE k
        /\ q = [p EXCEPT !.snonce = s, !.renew_snonce = FALSE, !.tptk = a,
                         !.tk_to_set = TRUE, !.anonce = f.nonce]
        /\ t = IF renew THEN r + 1 ELSE r
        /\ u = [x EXCEPT !.sup = q, !.rand = t]
  OBVIOUS
<1>5. y = Reply(u, "2/4", f.rc, s, k)
  BY <1>1, <1>3, <1>4 DEF process_1_of_4
<1>6. SupShape(q) /\ q.gtk = p.gtk /\ q.assoc = p.assoc  BY <1>2, <1>4 DEF SupShape
<1>7. SuppOK(u, f) /\ u.sup = q /\ u.out = x.out  BY <1>4, <1>6 DEF SuppOK
<1>8. PICK b, c : b = "2/4" /\ c = f.rc  OBVIOUS
<1>9. PICK e : e = [msg |-> b, rc |-> c, nonce |-> s, mic |-> k]  OBVIOUS
<1>10. y = Reply(u, b, c, s, k)  BY <1>5, <1>8
<1>11. /\ y = [sup |-> u.sup, out |-> y.out, rand |-> u.rand]
       /\ b \notin {"4/4", "2/2"} => Replies(y.out) \subseteq Replies(u.out)
  BY <1>7, <1>9, <1>10, ReplyReplies
<1>12. y.sup = q /\ Replies(y.out) = {}  BY <1>7, <1>8, <1>11
<1> QED BY <1>1, <1>6, <1>12 DEF Handled

(* Message 3/4, verified with the supplicant p.                            *)
LEMMA Process3of4Handled ==
  ASSUME NEW m, NEW p, SupShape(p), NEW r \in Nat, NEW f,
         NEW D, NEW U, Agreed(m, p, D, U, r), MicKnown(p, f), f.msg = "3/4", Core(f) \in D,
         NEW x, SuppOK(x, f), x.sup = Verified(p, f), x.rand = r, Replies(x.out) = {},
         NEW ok, NEW y, y = process_3_of_4(x, f, ok)
  PROVE  Handled(p, f, y.sup, Replies(y.out))
<1>1. PICK v, h : v = x.sup /\ h = Core(f)  OBVIOUS
<1>2. h.rc = f.rc /\ h \in D /\ v = Verified(p, f)  BY <1>1 DEF Core
<1>3. SuppKeys(p, r) /\ NotAgain(p, D) /\ Typed(D, U, r)  BY DEF Agreed, Links
<1>4. f.rc \in Nat  BY <1>2, <1>3 DEF Typed, DownTyped
<1>5. SupShape(v) /\ VerifiedAs(p, f, v) /\ Ready(v, f.mic)
  BY <1>2, <1>3, <1>4, VerifiedKeys
<1>6. CASE y = wpa_sm_deauthenticate(x)
  BY <1>6, DeauthenticateLeft DEF Handled
<1>7. PICK w, e : /\ w = Reply(x, "4/4", f.rc, NoNonce, v.ptk)
                  /\ e = [msg |-> "4/4", rc |-> f.rc, nonce |-> NoNonce, mic |-> v.ptk]
  OBVIOUS
<1>8. /\ SuppOK(w, f) /\ w = [sup |-> v, out |-> w.out, rand |-> r]
      /\ Replies(w.out) \subseteq {e}
  <2>1. SuppOK(w, f)  BY <1>7, ReplyOK
  <2>2. w = [sup |-> x.sup, out |-> w.out, rand |-> x.rand]
        /\ Replies(w.out) \subseteq Replies(x.out) \cup {e}
    BY <1>7, ReplyReplies
  <2> QED BY <1>1, <2>1, <2>2
<1>9. PICK a, z : a = [v EXCEPT !.renew_snonce = TRUE] /\ z = [w EXCEPT !.sup.renew_snonce = TRUE]
  OBVIOUS
<1>10. SupShape(a) /\ a.ptk = v.ptk /\ a.key = v.key /\ a.assoc = v.assoc
       /\ a.tk_to_set = v.tk_to_set /\ a.cleared = v.cleared
  BY <1>5, <1>9 DEF SupShape
<1>11. z = [sup |-> a, out |-> w.out, rand |-> r]
  <2>1. w.sup = v /\ w.rand = r  BY <1>8
  <2>2. z.sup = [v EXCEPT !.renew_snonce = TRUE]
        /\ z = [sup |-> z.sup, out |-> w.out, rand |-> w.rand]
    <3>1. w = [sup |-> w.sup, out |-> w.out, rand |-> w.rand]  BY <1>8 DEF SuppOK
    <3> QED BY <1>9, <2>1, <3>1
  <2> QED BY <1>9, <2>1, <2>2
<1>12. SuppOK(z, f)  BY <1>8, <1>10, <1>11 DEF SuppOK
<1>13. PICK b, d, q : /\ b = wpa_supplicant_install_ptk(a) /\ d = InstallGtk(b, f)
                      /\ q = [d EXCEPT !.msg_3_of_4_ok = TRUE]
  OBVIOUS
<1>14. InstalledAs(a, f.mic, q)
  <2>1. Ready(a, f.mic)  BY <1>5, <1>10 DEF Ready
  <2> QED BY <1>10, <1>13, <2>1, InstalledKeys
<1>15. CASE y = wpa_sm_deauthenticate(z)
  BY <1>12, <1>15, DeauthenticateLeft DEF Handled
<1>16. CASE y = [z EXCEPT !.sup = q]
  <2>1. y.sup = q /\ y.out = w.out  BY <1>11, <1>16
  <2>2. SupShape(b) /\ SupShape(d)  BY <1>10, <1>13, InstallShape
  <2>3. \A g : f.gtk = {g} /\ g.idx \in {1, 2} => d.gtk[g.idx] = g.key
    BY <1>13, <2>2, GtkInstalled
  <2>4. q.gtk = d.gtk  BY <1>13, <2>2 DEF SupShape
  <2>5. q.assoc = p.assoc  BY <1>5, <1>10, <1>14 DEF InstalledAs, VerifiedAs
  <2>6. \A k \in Replies(y.out) : k.rc = f.rc /\ k.mic = f.mic /\ k.msg = "4/4"
    BY <1>5, <1>7, <1>8, <2>1 DEF Ready
  <2> QED BY <2>1, <2>3, <2>4, <2>5, <2>6 DEF Handled
<1>17. \/ y = wpa_sm_deauthenticate(x) \/ y = wpa_sm_deauthenticate(z)
       \/ y = [z EXCEPT !.sup = q]
  <2>1. \/ y = wpa_sm_deauthenticate(x) \/ y = wpa_sm_deauthenticate(z)
        \/ y = [z EXCEPT !.sup = [InstallGtk(wpa_supplicant_install_ptk(z.sup), f)
                                    EXCEPT !.msg_3_of_4_ok = TRUE]]
    BY <1>1, <1>7, <1>9 DEF process_3_of_4
  <2>2. z.sup = a  BY <1>11
  <2> QED BY <1>13, <2>1, <2>2
<1> QED BY <1>6, <1>15, <1>16, <1>17

(* Message 1/2, verified with the supplicant p.                            *)
LEMMA Process1of2Handled ==
  ASSUME NEW m, NEW p, SupShape(p), NEW r \in Nat, NEW f,
         NEW D, NEW U, Agreed(m, p, D, U, r), MicKnown(p, f), f.msg = "1/2", Core(f) \in D,
         NEW x, SuppOK(x, f), x.sup = Verified(p, f), Replies(x.out) = {},
         NEW ok, NEW y, y = process_1_of_2(x, f, ok)
  PROVE  Handled(p, f, y.sup, Replies(y.out))
<1>1. PICK v, h : v = x.sup /\ h = Core(f)  OBVIOUS
<1>2. h.msg = "1/2" /\ h.mic = f.mic /\ h \in D /\ v = Verified(p, f)  BY <1>1 DEF Core
<1>3. SpentKeys(p, D, U)  BY DEF Agreed, Links
<1>4. f.mic # p.tptk  BY <1>2, <1>3 DEF SpentKeys, Spent
<1>5. f.mic = p.ptk  BY <1>4 DEF MicKnown
<1>6. v = [p EXCEPT !.rx_replay_counter = f.rc]  BY <1>2, <1>4 DEF Verified
<1>7. SupShape(v) /\ v.ptk = p.ptk /\ v.assoc = p.assoc  BY <1>6 DEF SupShape
<1>8. CASE y = wpa_sm_deauthenticate(x)
  BY <1>8, DeauthenticateLeft DEF Handled
<1>9. PICK q, z, c, k, a :
         /\ q = InstallGtk(v, f) /\ z = [x EXCEPT !.sup = q] /\ c = f.rc /\ k = v.ptk /\ a = "2/2"
  OBVIOUS
<1>10. SupShape(q)  BY <1>7, <1>9, InstallShape
<1>11. SuppOK(z, f) /\ z.sup = q /\ z.out = x.out  BY <1>9, <1>10 DEF SuppOK
<1>12. CASE y = Reply(z, a, c, NoNonce, k)
  <2>1. PICK e : e = [msg |-> a, rc |-> c, nonce |-> NoNonce, mic |-> k]  OBVIOUS
  <2>2. /\ y = [sup |-> z.sup, out |-> y.out, rand |-> z.rand]
        /\ Replies(y.out) \subseteq Replies(z.out) \cup {e}
    BY <1>11, <1>12, <2>1, ReplyReplies
  <2>3. y.sup = q /\ Replies(y.out) \subseteq {e}  BY <1>11, <2>2
  <2>4. \A g : f.gtk = {g} /\ g.idx \in {1, 2} => q.gtk[g.idx] = g.key
    BY <1>7, <1>9, GtkInstalled
  <2>5. q.assoc = p.assoc
    <3>1. PICK g : q = [v EXCEPT !.gtk = g]  BY <1>9 DEF InstallGtk
    <3> QED BY <1>7, <3>1 DEF SupShape
  <2>6. e.rc = f.rc /\ e.mic = f.mic /\ e.msg = "2/2"  BY <1>5, <1>7, <1>9, <2>1
  <2> QED BY <2>3, <2>4, <2>5, <2>6 DEF Handled
<1>13. y = wpa_sm_deauthenticate(x) \/ y = Reply(z, a, c, NoNonce, k)
  BY <1>1, <1>9 DEF process_1_of_2
<1> QED BY <1>8, <1>12, <1>13

(* Any frame.                                                              *)
LEMMA RxEapolHandled ==
  ASSUME NEW m, NEW x, NEW f, SuppOK(x, f), Replies(x.out) = {}, x.rand \in Nat,
         NEW D, NEW U, Agreed(m, x.sup, D, U, x.rand), f.msg \in {"1/4", "3/4", "1/2"},
         Core(f) \in D, NEW ok, NEW y, y = wpa_sm_rx_eapol(x, f, ok)
  PROVE  Handled(x.sup, f, y.sup, Replies(y.out))
<1>1. PICK p, r, q, z : /\ p = x.sup /\ r = x.rand
                        /\ q = Verified(p, f) /\ z = [x EXCEPT !.sup = q]
  OBVIOUS
<1>2. SupShape(p) /\ Agreed(m, p, D, U, r) /\ r \in Nat  BY <1>1 DEF SuppOK
<1>3. CASE y = x  BY <1>3 DEF Handled
<1>4. CASE f.msg = "1/4" /\ y = process_1_of_4(x, f)  BY <1>4, Process1of4Handled
<1>5. ASSUME MicKnown(p, f)
      PROVE  SuppOK(z, f) /\ z.rand = r /\ z.sup = Verified(p, f) /\ Replies(z.out) = {}
  <2>1. SupShape(q)  BY <1>1, <1>2, <1>5, VerifiedEffect
  <2>2. z = [sup |-> q, out |-> x.out, rand |-> x.rand]  BY <1>1 DEF SuppOK
  <2> QED BY <1>1, <2>1, <2>2 DEF SuppOK
<1>6. CASE MicKnown(p, f) /\ f.msg = "3/4" /\ y = process_3_of_4(z, f, ok)
  <2>1. Handled(p, f, y.sup, Replies(y.out))
    BY <1>2, <1>5, <1>6, Process3of4Handled
  <2> QED BY <1>1, <2>1
<1>7. CASE MicKnown(p, f) /\ f.msg = "1/2" /\ y = process_1_of_2(z, f, ok)
  <2>1. Handled(p, f, y.sup, Replies(y.out))
    BY <1>2, <1>5, <1>7, Process1of2Handled
  <2> QED BY <1>1, <2>1
<1>8. \/ y = x \/ (f.msg = "1/4" /\ y = process_1_of_4(x, f))
      \/ MicKnown(p, f) /\ f.msg = "3/4" /\ y = process_3_of_4(z, f, ok)
      \/ MicKnown(p, f) /\ f.msg = "1/2" /\ y = process_1_of_2(z, f, ok)
  BY <1>1 DEF wpa_sm_rx_eapol
<1> QED BY <1>3, <1>4, <1>6, <1>7, <1>8

(* A new key is asked for.                                                 *)
LEMMA KeyRequestHandled ==
  ASSUME NEW x, NEW f, SuppOK(x, f), Replies(x.out) = {}, NEW a \in Requests,
         NEW y, y = wpa_sm_key_request(x, a)
  PROVE  y.sup.gtk = x.sup.gtk /\ y.sup.assoc = x.sup.assoc /\ Replies(y.out) = {}
<1>1. PICK p, z : p = x.sup /\ z = [x EXCEPT !.sup.request_counter = @ + 1]  OBVIOUS
<1>2. PICK q : q = [p EXCEPT !.request_counter = @ + 1]  OBVIOUS
<1>3. z.sup = q /\ z = [sup |-> z.sup, out |-> x.out, rand |-> x.rand]
  BY <1>1, <1>2 DEF SuppOK
<1>4. SupShape(q) /\ q.gtk = p.gtk /\ q.assoc = p.assoc
  <2>1. SupShape(p)  BY <1>1 DEF SuppOK
  <2> QED BY <1>2, <2>1 DEF SupShape
<1>5. SuppOK(z, f) /\ z.out = x.out  BY <1>3, <1>4 DEF SuppOK
<1>6. PICK k, b : k = x.sup.request_counter + 1 /\ b = x.sup.ptk  OBVIOUS
<1>7. PICK e : e = [msg |-> a, rc |-> k, nonce |-> NoNonce, mic |-> b]  OBVIOUS
<1>8. y = Reply(z, a, k, NoNonce, b)  BY <1>1, <1>6 DEF wpa_sm_key_request
<1>9. /\ y = [sup |-> z.sup, out |-> y.out, rand |-> z.rand]
      /\ a \notin {"4/4", "2/2"} => Replies(y.out) \subseteq Replies(z.out)
  BY <1>5, <1>7, <1>8, ReplyReplies
<1>10. a \notin {"4/4", "2/2"}  BY DEF Requests
<1> QED BY <1>1, <1>3, <1>4, <1>5, <1>9, <1>10

-----------------------------------------------------------------------------
(* The invariant: the ends of every station share the group key that is    *)
(* handed out, unless it was replaced while on its way to them.            *)
Waited(s) == IF s \in run.todo THEN TRUE ELSE FALSE
GShared ==
  \A s \in Stations \ crossed.gtk :
    Shared(sm[s], sup[s], Gtks(down[s]), Replies(up[s]), CurrentGtk, Waited(s))
GReset == \A s \in Stations : Reset(sm[s]) /\ Begun(sm[s])
GroupInv == KeyInv /\ GShared /\ GReset

(* At first there are no stations.                                         *)
LEMMA InitGroup == Init => GroupInv
<1> SUFFICES ASSUME Init PROVE GroupInv  OBVIOUS
<1>1. KeyInv  BY InitKey
<1>2. \A s \in Stations : sm[s] = NoStation  BY DEF Init
<1>3. GReset  BY <1>2, NoStationVacant DEF GReset
<1>4. GShared
  <2> SUFFICES ASSUME NEW s \in Stations \ crossed.gtk
               PROVE  Shared(sm[s], sup[s], Gtks(down[s]), Replies(up[s]), CurrentGtk, Waited(s))
    BY DEF GShared
  <2>1. Vacant(sm[s])  BY <1>2, NoStationVacant
  <2> QED BY <2>1, VacantShared
<1> QED BY <1>1, <1>3, <1>4 DEF GroupInv

(* What is known of a station.                                             *)
LEMMA GroupNow ==
  ASSUME GroupInv, NEW s \in Stations
  PROVE  /\ KeyInv /\ Reset(sm[s]) /\ Begun(sm[s])
         /\ s \notin crossed.gtk =>
              Shared(sm[s], sup[s], Gtks(down[s]), Replies(up[s]), CurrentGtk, Waited(s))
BY DEF GroupInv, GShared, GReset

(* Whoever has a record was started.                                       *)
LEMMA BegunStarted ==
  ASSUME NEW m, Begun(m), m.started \/ m.timers > 0 \/ m.rekey \/ m.assoc
  PROVE  m.started = TRUE
<1>1. CASE m = NoStation
  <2>1. m.started = FALSE /\ m.timers = 0 /\ m.rekey = FALSE /\ m.assoc = FALSE
    BY <1>1 DEF NoStation
  <2> QED BY <2>1
<1> QED BY <1>1 DEF Begun

(* A step that concerns one station only.                                  *)
LEMMA AloneShared ==
  ASSUME GroupInv, KeyInv', NEW s \in Stations, NEW n, NEW p, NEW d, NEW u,
         sm' = [sm EXCEPT ![s] = n], sup' = [sup EXCEPT ![s] = p],
         down' = [down EXCEPT ![s] = d], up' = [up EXCEPT ![s] = u],
         group'.gn = group.gn, group'.state = group.state, crossed'.gtk = crossed.gtk,
         run'.todo \in {run.todo, run.todo \ {s}}, Reset(n), Begun(n),
         s \notin crossed.gtk =>
           Shared(n, p, Gtks(d), Replies(u), CurrentGtk, Waited(s)')
  PROVE  GroupInv'
<1>1. /\ sm'[s] = n /\ sup'[s] = p /\ down'[s] = d /\ up'[s] = u
      /\ \A t \in Stations \ {s} : /\ sm'[t] = sm[t] /\ sup'[t] = sup[t]
                                   /\ down'[t] = down[t] /\ up'[t] = up[t]
  BY DEF GroupInv, KeyInv, TimerInv, Shapes, Inv, StationsOK
<1>2. CurrentGtk' = CurrentGtk  BY DEF CurrentGtk
<1>3. \A t \in Stations \ {s} : Waited(t)' = Waited(t)  BY DEF Waited
<1>4. GReset'  BY <1>1 DEF GroupInv, GReset
<1>5. GShared'
  <2> SUFFICES ASSUME NEW t \in Stations, t \notin crossed.gtk
               PROVE  Shared(sm'[t], sup'[t], Gtks(down'[t]), Replies(up'[t]), CurrentGtk', Waited(t)')
    BY DEF GShared
  <2>1. CASE t = s  BY <1>1, <1>2, <2>1
  <2>2. CASE t # s
    <3>1. Shared(sm[t], sup[t], Gtks(down[t]), Replies(up[t]), CurrentGtk, Waited(t))
      BY GroupNow
    <3> QED BY <1>1, <1>2, <1>3, <2>2, <3>1
  <2> QED BY <2>1, <2>2
<1> QED BY <1>4, <1>5 DEF GroupInv

(* Only the record of a station changes.                                   *)
LEMMA RecordShared ==
  ASSUME GroupInv, KeyInv', NEW s \in Stations, NEW n, sm' = [sm EXCEPT ![s] = n],
         UNCHANGED <<sup, down, up>>,
         group'.gn = group.gn, group'.state = group.state, crossed'.gtk = crossed.gtk,
         run'.todo \in {run.todo, run.todo \ {s}}, Reset(n), Begun(n),
         s \notin crossed.gtk =>
           Shared(n, sup[s], Gtks(down[s]), Replies(up[s]), CurrentGtk, Waited(s)')
  PROVE  GroupInv'
<1>1. PICK p, d, u : p = sup[s] /\ d = down[s] /\ u = up[s]  OBVIOUS
<1>2. sup' = [sup EXCEPT ![s] = p] /\ down' = [down EXCEPT ![s] = d]
      /\ up' = [up EXCEPT ![s] = u]
  BY <1>1, SameLinks DEF GroupInv, KeyInv
<1>3. s \notin crossed.gtk =>
        Shared(n, p, Gtks(d), Replies(u), CurrentGtk, Waited(s)')  BY <1>1
<1> QED BY <1>2, <1>3, AloneShared

(* run but for the station in its loop.                                    *)
LEMMA RunTodo ==
  ASSUME GroupInv, NEW s, NEW free,
         \/ run' = run
         \/ run' = [run EXCEPT !.st = s]
         \/ run' = [run EXCEPT !.st = s, !.free = free]
  PROVE  run'.todo = run.todo /\ \A t : Waited(t)' = Waited(t)
<1>1. run = [st |-> run.st, free |-> run.free, todo |-> run.todo, rekey |-> run.rekey,
             next |-> run.next]
  BY DEF GroupInv, KeyInv, TimerInv, Inv, RunOK
<1>2. run'.todo = run.todo  BY <1>1
<1> QED BY <1>2 DEF Waited

(* A timeout, a new pairwise key.                                          *)
LEMMA EventShared ==
  ASSUME GroupInv, KeyInv', NEW s \in Stations, Timeout(s) \/ wpa_rekey_ptk(s)
  PROVE  GroupInv'
<1>1. run.st = NoOne /\ s # run.st
  BY HandshakeAssumption DEF Timeout, wpa_rekey_ptk, Idle
<1>2. PICK m : m = sm[s]  OBVIOUS
<1>3. KeyInv /\ SmOK(m) /\ AtEase(m) /\ Reset(m) /\ Begun(m)
  BY <1>1, <1>2, KeysNow, GroupNow
<1>4. UNCHANGED <<sup, down, up, group, crossed>>  BY DEF Timeout, wpa_rekey_ptk
<1>5. PICK n : /\ Begin(s, n)
               /\ \/ n = wpa_send_eapol_timeout(m) /\ m.timers > 0
                  \/ n = wpa_request_new_ptk(m) /\ m.rekey
  BY <1>2 DEF Timeout, wpa_rekey_ptk
<1>6. m.started = TRUE  BY <1>3, <1>5, BegunStarted
<1>7. sm' = [sm EXCEPT ![s] = n] /\ run' = [run EXCEPT !.st = s]  BY <1>5 DEF Begin
<1>8. run'.todo = run.todo /\ Waited(s)' = Waited(s)  BY <1>7, RunTodo
<1>9. /\ Reset(n) /\ Begun(n)
      /\ s \notin crossed.gtk =>
           Shared(n, sup[s], Gtks(down[s]), Replies(up[s]), CurrentGtk, Waited(s)')
  <2>1. PICK p, D, U, g, w : /\ p = sup[s] /\ D = Gtks(down[s]) /\ U = Replies(up[s])
                             /\ g = CurrentGtk /\ w = Waited(s)
    OBVIOUS
  <2>2. s \notin crossed.gtk => Shared(m, p, D, U, g, w)  BY <1>2, <2>1, GroupNow
  <2>3. CASE n = wpa_send_eapol_timeout(m)
    <3>1. Carried(m, n)  BY <1>3, <2>3, IndifferentCarried
    <3>2. Reset(n) /\ Begun(n)  BY <1>3, <1>6, <3>1 DEF Carried, Reset, Begun, AtEase
    <3>3. s \notin crossed.gtk => Shared(n, p, D, U, g, w)
      BY <2>2, <3>1, FollowsShared DEF Carried
    <3> QED BY <1>8, <2>1, <3>2, <3>3
  <2>4. CASE n = wpa_request_new_ptk(m)
    <3>1. Emptied(m, n)  BY <1>3, <2>4, NewPtkEmptied
    <3>2. Reset(n) /\ Begun(n)  BY <1>6, <3>1 DEF Emptied, Begun
    <3>3. Shared(n, p, D, U, g, w)  BY <3>1, VacantShared DEF Emptied
    <3> QED BY <1>8, <2>1, <3>2, <3>3
  <2> QED BY <1>5, <2>3, <2>4
<1> QED BY <1>4, <1>7, <1>8, <1>9, RecordShared

(* A station is visited.                                                   *)
LEMMA VisitShared ==
  ASSUME GroupInv, KeyInv', NEW s \in Stations, wpa_group_update_sta(s)
  PROVE  GroupInv'
<1>1. run.st = NoOne /\ s # run.st /\ s \in run.todo
  BY HandshakeAssumption DEF wpa_group_update_sta
<1>2. PICK m : m = sm[s]  OBVIOUS
<1>3. /\ KeyInv /\ SmOK(m) /\ AtEase(m) /\ Reset(m) /\ Begun(m) /\ m.started
  BY <1>1, <1>2, KeysNow, GroupNow DEF KeyInv, TimerInv, Inv, RunOK
<1>4. UNCHANGED <<sup, down, up, crossed>>  BY DEF wpa_group_update_sta
<1>5. m.started = TRUE  BY <1>3, BegunStarted
<1>6. group'.gn = group.gn /\ group'.state = group.state
  <2>1. group = [state |-> group.state, GTKReKey |-> group.GTKReKey,
                 done |-> group.done, gn |-> group.gn]
    BY <1>3 DEF KeyInv, TimerInv, Inv, GroupShape
  <2>2. group' = group \/ group' = [group EXCEPT !.done = @ + 1]
    BY DEF wpa_group_update_sta
  <2> QED BY <2>1, <2>2
<1>7. run'.todo = run.todo \ {s}
  <2>1. run = [st |-> run.st, free |-> run.free, todo |-> run.todo, rekey |-> run.rekey,
               next |-> run.next]
    BY <1>3 DEF KeyInv, TimerInv, Inv, RunOK
  <2>2. run' = [run EXCEPT !.todo = @ \ {s}] \/ run' = [run EXCEPT !.todo = @ \ {s}, !.st = s]
    BY DEF wpa_group_update_sta
  <2> QED BY <2>1, <2>2
<1>8. PICK v, n : /\ n = [m EXCEPT !.GUpdateStationKeys = v] /\ sm' = [sm EXCEPT ![s] = n]
                  /\ IF m.ptk = "PTKINITDONE" THEN v = TRUE ELSE v = FALSE
  <2>1. PICK v : /\ sm' = [sm EXCEPT ![s].GUpdateStationKeys = v]
                 /\ IF m.ptk = "PTKINITDONE" THEN v = TRUE ELSE v = FALSE
    BY <1>2 DEF wpa_group_update_sta
  <2>2. PICK n : n = [m EXCEPT !.GUpdateStationKeys = v]  OBVIOUS
  <2>3. sm' = [sm EXCEPT ![s] = n]  BY <1>2, <2>1, <2>2
  <2> QED BY <2>1, <2>2, <2>3
<1>9. Carried(m, n) /\ ~Complete(n)  BY <1>3, <1>8, VisitCarried
<1>10. Reset(n) /\ Begun(n)  BY <1>3, <1>5, <1>9 DEF Carried, Reset, Begun, AtEase
<1>11. s \notin crossed.gtk =>
         Shared(n, sup[s], Gtks(down[s]), Replies(up[s]), CurrentGtk, Waited(s)')
  <2>1. PICK p, D, U, g, w : /\ p = sup[s] /\ D = Gtks(down[s]) /\ U = Replies(up[s])
                             /\ g = CurrentGtk /\ w = Waited(s)
    OBVIOUS
  <2>2. s \notin crossed.gtk => Shared(m, p, D, U, g, w)  BY <1>2, <2>1, GroupNow
  <2>3. s \notin crossed.gtk => Shared(n, p, D, U, g, w)
    BY <1>9, <2>2, FollowsShared DEF Carried
  <2>4. ASSUME NEW e, s \notin crossed.gtk PROVE Shared(n, p, D, U, g, e)
    BY <1>9, <2>3, <2>4 DEF Shared
  <2> QED BY <2>1, <2>4
<1> QED BY <1>4, <1>6, <1>7, <1>8, <1>10, <1>11, RecordShared

(* A frame arrives at the access point.                                    *)
LEMMA APReceiveShared ==
  ASSUME GroupInv, KeyInv', NEW s \in Stations, APReceive(s)
  PROVE  GroupInv'
<1>1. PICK m, f, c, g, v : /\ m = sm[s] /\ f = Head(up[s]) /\ c = Crossing(s)
                           /\ g = CurrentGtk /\ v = Waited(s)
  OBVIOUS
<1>2. /\ run.st = NoOne /\ s # run.st /\ up[s] # <<>>
      /\ UNCHANGED <<sup, down, crossed, rand>>
  BY HandshakeAssumption DEF APReceive, Idle
<1>3. PICK p, d, q, u : p = sup[s] /\ d = down[s] /\ q = up[s] /\ u = Tail(q)  OBVIOUS
<1>4. /\ KeyInv /\ SmOK(m) /\ AtEase(m) /\ rand \in Nat /\ rand > 0 /\ Station(m, c, rand)
      /\ Agreed(m, p, Downward(d), Upward(q), rand) /\ UpOK(q, m, rand)
      /\ Reset(m) /\ Begun(m)
  BY <1>1, <1>2, <1>3, KeysNow, GroupNow
<1>5. UpFrame(f, m, rand)
  <2>1. Len(q) <= CAP  BY <1>1, <1>3, <1>4 DEF KeyInv, TimerInv, Settled, Linked
  <2> QED BY <1>1, <1>2, <1>3, <1>4, <2>1, TailUp
<1>6. Replies(u) \subseteq Replies(q) /\ (f.msg \in {"4/4", "2/2"} => f \in Replies(q))
  <2>1. q \in Seq(Elements(q)) /\ q # <<>>  BY <1>2, <1>3, <1>4 DEF UpOK
  <2> QED BY <1>1, <1>3, <2>1, TailGtks
<1>7. down' = [down EXCEPT ![s] = d] /\ up' = [up EXCEPT ![s] = u]
      /\ sup' = [sup EXCEPT ![s] = p]
  <2>1. up' = [up EXCEPT ![s] = u]  BY <1>3 DEF APReceive
  <2> QED BY <1>2, <1>3, <1>4, <2>1, SameLinks DEF KeyInv
<1>8. run'.todo = run.todo /\ Waited(s)' = v
  <2>1. \/ run' = run \/ run' = [run EXCEPT !.st = s]
        \/ run' = [run EXCEPT !.st = s, !.free = TRUE]
        \/ run' = [run EXCEPT !.rekey = TRUE, !.next = s]
    BY DEF APReceive, Begin
  <2>2. run = [st |-> run.st, free |-> run.free, todo |-> run.todo, rekey |-> run.rekey,
               next |-> run.next]
    BY <1>4 DEF KeyInv, TimerInv, Inv, RunOK
  <2>3. run'.todo = run.todo  BY <2>1, <2>2
  <2> QED BY <1>1, <2>3 DEF Waited
<1>15. group'.gn = group.gn /\ group'.state = group.state
  <2>1. group' = group \/ group' = [group EXCEPT !.GTKReKey = TRUE]  BY DEF APReceive
  <2>2. group = [state |-> group.state, GTKReKey |-> group.GTKReKey,
                 done |-> group.done, gn |-> group.gn]
    BY <1>4 DEF KeyInv, TimerInv, Inv, GroupShape
  <2> QED BY <2>1, <2>2
<1>9. s \notin crossed.gtk => Shared(m, p, Gtks(d), Replies(q), g, v)
  BY <1>1, <1>3, GroupNow
<1>10. ASSUME NEW n, sm' = [sm EXCEPT ![s] = n], Reset(n), Begun(n),
              s \notin crossed.gtk => Shared(n, p, Gtks(d), Replies(q), g, v)
       PROVE  GroupInv'
  <2>1. s \notin crossed.gtk => Shared(n, p, Gtks(d), Replies(u), CurrentGtk, Waited(s)')
    BY <1>1, <1>6, <1>8, <1>10, SharedShrink
  <2> QED BY <1>2, <1>7, <1>8, <1>10, <1>15, <2>1, AloneShared
<1>11. CASE m.started /\ sm' = [sm EXCEPT ![s] = [EventDeauth(@) EXCEPT !.assoc = FALSE]]
  <2>1. PICK n : n = [EventDeauth(m) EXCEPT !.assoc = FALSE]  OBVIOUS
  <2>2. sm' = [sm EXCEPT ![s] = n]  BY <1>1, <1>11, <2>1
  <2>3. Emptied(m, n)  BY <1>4, <2>1, DeauthEmptied
  <2>4. Reset(n) /\ Begun(n)  BY <1>4, <1>11, <2>3, BegunStarted DEF Emptied, Begun
  <2>5. Shared(n, p, Gtks(d), Replies(q), g, v)  BY <2>3, VacantShared DEF Emptied
  <2> QED BY <1>10, <2>2, <2>4, <2>5
<1>12. CASE m.assoc /\ sm' = [sm EXCEPT ![s].MICVerified = FALSE]
  <2>1. PICK n : n = [m EXCEPT !.MICVerified = FALSE]  OBVIOUS
  <2>2. sm' = [sm EXCEPT ![s] = n]  BY <1>1, <1>12, <2>1
  <2>3. Carried(m, n)  BY <1>4, <2>1, IndifferentCarried
  <2>4. m.started = TRUE  BY <1>4, <1>12, BegunStarted
  <2>5. Reset(n) /\ Begun(n)  BY <1>4, <2>3, <2>4 DEF Carried, Reset, Begun, AtEase
  <2>6. s \notin crossed.gtk => Shared(n, p, Gtks(d), Replies(q), g, v)
    BY <1>9, <2>3, FollowsShared DEF Carried
  <2> QED BY <1>10, <2>2, <2>5, <2>6
<1>13. CASE m.assoc /\ Expected(m, f) /\ ~MicRefused(m, f)
            /\ sm' = [sm EXCEPT ![s] = wpa_receive(m, f)]
  <2>1. PICK n, D, U, G, V : /\ n = wpa_receive(m, f) /\ D = Downward(d) /\ U = Upward(q)
                             /\ G = Gtks(d) /\ V = Replies(q)
    OBVIOUS
  <2>2. sm' = [sm EXCEPT ![s] = n]  BY <1>13, <2>1
  <2>3. m.started = TRUE  BY <1>4, <1>13, BegunStarted
  <2>4. Agreed(m, p, D, U, rand) /\ (f.msg \in {"4/4", "2/2"} => f \in V)
    BY <1>4, <1>6, <2>1
  <2>5. Begun(n) /\ Reset(n)
    <3>1. n.started = m.started  BY <1>4, <2>1, ReceiveSame DEF Same
    <3>2. n.PtkGroupInit = m.PtkGroupInit
      BY <1>4, <2>1 DEF SmOK, SmShape, wpa_receive
    <3> QED BY <1>4, <2>3, <3>1, <3>2 DEF Begun, Reset, AtEase
  <2>6. s \notin crossed.gtk => Shared(n, p, G, V, g, v)
    BY <1>4, <1>5, <1>9, <1>13, <2>1, <2>4, ReceiveShared
  <2> QED BY <1>10, <2>1, <2>2, <2>5, <2>6
<1>14. CASE UNCHANGED <<sm, run>>
  <2>1. sm' = [sm EXCEPT ![s] = m]  BY <1>1, <1>4, <1>14, SameLinks DEF KeyInv
  <2> QED BY <1>4, <1>9, <1>10, <2>1
<1> QED BY <1>1, <1>11, <1>12, <1>13, <1>14 DEF APReceive, Begin

(* A station associates, anew or again.                                    *)
LEMMA AssociateShared ==
  ASSUME GroupInv, KeyInv', NEW s \in Stations, Associate(s)
  PROVE  GroupInv'
<1>1. PICK m : m = sm[s]  OBVIOUS
<1>2. run.st = NoOne /\ s # run.st /\ UNCHANGED <<down, up, crossed>>
  BY HandshakeAssumption DEF Associate, Idle
<1>3. PICK d, u, p : d = down[s] /\ u = up[s]
                     /\ p = wpa_sm_notify_assoc(IF sup[s].assoc THEN wpa_sm_notify_disassoc(sup[s])
                                                ELSE sup[s])
  OBVIOUS
<1>4. KeyInv /\ SmOK(m) /\ AtEase(m) /\ Reset(m) /\ Begun(m)
  BY <1>1, <1>2, KeysNow, GroupNow
<1>5. down' = [down EXCEPT ![s] = d] /\ up' = [up EXCEPT ![s] = u]
      /\ sup' = [sup EXCEPT ![s] = p]
  <2>1. sup' = [sup EXCEPT ![s] = p]  BY <1>3 DEF Associate
  <2> QED BY <1>2, <1>3, <1>4, <2>1, SameLinks DEF KeyInv
<1>6. PICK x : x = [sm |-> wpa_remove_ptk(m), done |-> group.done, out |-> <<>>, rand |-> rand]
  OBVIOUS
<1>7. PICK n : Begin(s, n) /\ Vacant(n) /\ Reset(n) /\ n.started = TRUE
  <2>1. CASE m.assoc
    <3>1. PICK n : n = EventReauth(x).sm  OBVIOUS
    <3>2. Begin(s, n)  BY <1>1, <1>6, <2>1, <3>1 DEF Associate
    <3>3. SmOK(wpa_remove_ptk(m))  BY <1>4, RemovePtkSame
    <3>4. XOK(x) /\ x.sm = wpa_remove_ptk(m)
      BY <1>4, <1>6, <3>3 DEF XOK, XShape, KeyInv, TimerInv, Inv, GroupShape
    <3>5. Emptied(m, n)  BY <1>4, <3>1, <3>4, ReauthEmptied
    <3>6. m.started = TRUE  BY <1>4, <2>1, BegunStarted
    <3> QED BY <3>2, <3>5, <3>6 DEF Emptied
  <2>2. CASE ~m.assoc
    <3>1. PICK n : n = [wpa_auth_sta_associated(wpa_remove_ptk(m)) EXCEPT !.assoc = TRUE]
      OBVIOUS
    <3>2. Begin(s, n)  BY <1>1, <2>2, <3>1 DEF Associate
    <3>3. Emptied(m, n) /\ n.started = TRUE  BY <1>4, <3>1, AssociatedEmptied
    <3> QED BY <3>2, <3>3 DEF Emptied
  <2> QED BY <2>1, <2>2
<1>8. group'.gn = group.gn /\ group'.state = group.state
  <2>1. group = [state |-> group.state, GTKReKey |-> group.GTKReKey,
                 done |-> group.done, gn |-> group.gn]
    BY <1>4 DEF KeyInv, TimerInv, Inv, GroupShape
  <2>2. group' = group \/ \E e : group' = [group EXCEPT !.done = e]
    BY DEF Associate
  <2> QED BY <2>1, <2>2
<1>9. sm' = [sm EXCEPT ![s] = n] /\ run' = [run EXCEPT !.st = s]  BY <1>7 DEF Begin
<1>10. run'.todo = run.todo  BY <1>9, RunTodo
<1>11. Reset(n) /\ Begun(n) /\ crossed'.gtk = crossed.gtk  BY <1>2, <1>7 DEF Begun
<1>12. Shared(n, p, Gtks(d), Replies(u), CurrentGtk, Waited(s)')
  <2>1. PICK w : w = Waited(s)'  OBVIOUS
  <2>2. Shared(n, p, Gtks(d), Replies(u), CurrentGtk, w)  BY <1>7, VacantShared
  <2> QED BY <2>1, <2>2
<1> QED BY <1>5, <1>8, <1>9, <1>10, <1>11, <1>12, AloneShared

(* A station is forgotten.                                                 *)
LEMMA FreedShared ==
  ASSUME GroupInv, KeyInv', NEW s \in Stations, ap_handle_timer(s) \/ ap_handle_session_timer(s)
  PROVE  GroupInv'
<1>1. PICK n, p, q, u : n = NoStation /\ p = sup[s] /\ q = down[s] /\ u = up[s]
  OBVIOUS
<1>2. UNCHANGED <<sup, up, run, crossed>> /\ sm' = [sm EXCEPT ![s] = n]
  BY <1>1 DEF ap_handle_timer, ap_handle_session_timer, Freed
<1>3. KeyInv  BY GroupNow
<1>4. PICK d : down' = [down EXCEPT ![s] = d]
  <2>1. CASE ap_handle_timer(s)
    <3>1. down' = [down EXCEPT ![s] = q]  BY <1>1, <1>3, <2>1, SameLinks DEF ap_handle_timer, KeyInv
    <3> QED BY <3>1
  <2>2. CASE ap_handle_session_timer(s)
    <3>1. PICK d : d = Put(q, <<DeauthFrame>>)  OBVIOUS
    <3>2. down' = [down EXCEPT ![s] = d]  BY <1>1, <2>2, <3>1 DEF ap_handle_session_timer
    <3> QED BY <3>2
  <2> QED BY <2>1, <2>2
<1>5. group'.gn = group.gn /\ group'.state = group.state
  <2>1. group = [state |-> group.state, GTKReKey |-> group.GTKReKey,
                 done |-> group.done, gn |-> group.gn]
    BY <1>3 DEF KeyInv, TimerInv, Inv, GroupShape
  <2>2. \E e : group' = [group EXCEPT !.done = e]
    BY DEF ap_handle_timer, ap_handle_session_timer, Freed
  <2> QED BY <2>1, <2>2
<1>6. Vacant(n) /\ Reset(n) /\ Begun(n)  BY <1>1, NoStationVacant
<1>7. Shared(n, p, Gtks(d), Replies(u), CurrentGtk, Waited(s)')
  <2>1. PICK w : w = Waited(s)'  OBVIOUS
  <2>2. Shared(n, p, Gtks(d), Replies(u), CurrentGtk, w)  BY <1>6, VacantShared
  <2> QED BY <2>1, <2>2
<1>8. up' = [up EXCEPT ![s] = u] /\ sup' = [sup EXCEPT ![s] = p]
  BY <1>1, <1>2, <1>3, SameLinks DEF KeyInv
<1> QED BY <1>2, <1>4, <1>5, <1>6, <1>7, <1>8, AloneShared

(* A frame is lost.                                                        *)
LEMMA LoseShared ==
  ASSUME GroupInv, KeyInv', NEW s \in Stations, Lose(s)
  PROVE  GroupInv'
<1>1. PICK m, p, a, b : m = sm[s] /\ p = sup[s] /\ a = down[s] /\ b = up[s]  OBVIOUS
<1>2. /\ KeyInv /\ Reset(m) /\ Begun(m) /\ a \in Seq(Elements(a)) /\ b \in Seq(Elements(b))
  BY <1>1, KeysNow, GroupNow DEF DownOK, UpOK
<1>3. sm' = [sm EXCEPT ![s] = m] /\ sup' = [sup EXCEPT ![s] = p] /\ UNCHANGED <<group, run, crossed>>
  BY <1>1, <1>2, SameLinks DEF Lose, KeyInv
<1>4. PICK d, u : /\ down' = [down EXCEPT ![s] = d] /\ up' = [up EXCEPT ![s] = u]
                  /\ Gtks(d) \subseteq Gtks(a) /\ Replies(u) \subseteq Replies(b)
  <2>1. CASE down[s] # <<>> /\ down' = [down EXCEPT ![s] = Tail(@)] /\ up' = up
    <3>1. PICK d : d = Tail(a)  OBVIOUS
    <3>2. Gtks(d) \subseteq Gtks(a)  BY <1>1, <1>2, <2>1, <3>1, TailGtks
    <3>3. down' = [down EXCEPT ![s] = d] /\ up' = [up EXCEPT ![s] = b]
      BY <1>1, <1>2, <2>1, <3>1, SameLinks DEF KeyInv
    <3> QED BY <3>2, <3>3
  <2>2. CASE up[s] # <<>> /\ up' = [up EXCEPT ![s] = Tail(@)] /\ down' = down
    <3>1. PICK u : u = Tail(b)  OBVIOUS
    <3>2. Replies(u) \subseteq Replies(b)  BY <1>1, <1>2, <2>2, <3>1, TailGtks
    <3>3. down' = [down EXCEPT ![s] = a] /\ up' = [up EXCEPT ![s] = u]
      BY <1>1, <1>2, <2>2, <3>1, SameLinks DEF KeyInv
    <3> QED BY <3>2, <3>3
  <2> QED BY <2>1, <2>2 DEF Lose
<1>5. run'.todo = run.todo /\ Waited(s)' = Waited(s)  BY <1>3, RunTodo
<1>6. s \notin crossed.gtk => Shared(m, p, Gtks(a), Replies(b), CurrentGtk, Waited(s))
  BY <1>1, GroupNow
<1>7. s \notin crossed.gtk => Shared(m, p, Gtks(d), Replies(u), CurrentGtk, Waited(s)')
  BY <1>4, <1>5, <1>6, SharedShrink
<1> QED BY <1>2, <1>3, <1>4, <1>5, <1>7, AloneShared

(* What a station sends itself.                                            *)
LEMMA PutReplies ==
  ASSUME NEW b, b \in Seq(Elements(b)), NEW y, NEW f, SuppOK(y, f), NEW u, u = Put(b, y.out)
  PROVE  Replies(u) \subseteq Replies(b) \cup Replies(y.out)
<1>1. PICK o, S : o = y.out /\ S = Elements(b) \cup Elements(o)  OBVIOUS
<1>2. o \in Seq(Elements(o))  BY <1>1 DEF SuppOK, Answers
<1>3. b \in Seq(S) /\ o \in Seq(S)  BY <1>1, <1>2
<1>4. u = Put(b, o)  BY <1>1
<1>5. Replies(u) \subseteq Replies(b) \cup Replies(o)  BY <1>3, <1>4, PutGtks
<1> QED BY <1>1, <1>5

(* The station asks for a new pairwise key, or leaves.                     *)
LEMMA StationSendsShared ==
  ASSUME GroupInv, KeyInv', NEW s \in Stations, KeyRequest(s) \/ Leave(s)
  PROVE  GroupInv'
<1>1. PICK m, a, d, b, g, v : /\ m = sm[s] /\ a = sup[s] /\ d = down[s] /\ b = up[s]
                              /\ g = CurrentGtk /\ v = Waited(s)
  OBVIOUS
<1>2. KeyInv /\ SupShape(a) /\ b \in Seq(Elements(b)) /\ Reset(m) /\ Begun(m)
  BY <1>1, KeysNow, GroupNow DEF UpOK
<1>3. UNCHANGED <<sm, down, group, run, crossed>>  BY DEF KeyRequest, Leave
<1>4. PICK x, f : x = [sup |-> a, out |-> <<>>, rand |-> rand] /\ f = DeauthFrame  OBVIOUS
<1>5. SuppOK(x, f) /\ x.sup = a /\ Replies(x.out) = {}
  <2>1. Answers(<<>>, f)  BY NoAnswer
  <2>2. x.out = <<>>  BY <1>4
  <2>3. Replies(<<>>) = {}  BY DEF Replies, Elements
  <2> QED BY <1>2, <1>4, <2>1, <2>2, <2>3 DEF SuppOK
<1>6. PICK D, U : D = Gtks(d) /\ U = Replies(b)  OBVIOUS
<1>7. s \notin crossed.gtk => Shared(m, a, D, U, g, v)  BY <1>1, <1>6, GroupNow
<1>8. PICK y : /\ SuppOK(y, f) /\ sup' = [sup EXCEPT ![s] = y.sup]
               /\ up' = [up EXCEPT ![s] = Put(@, y.out)]
               /\ Handled(a, f, y.sup, Replies(y.out))
  <2>1. CASE KeyRequest(s)
    <3>0. PICK msg \in Requests :
            /\ sup' = [sup EXCEPT ![s] = wpa_sm_key_request(x, msg).sup]
            /\ up' = [up EXCEPT ![s] = Put(@, wpa_sm_key_request(x, msg).out)]
      BY <1>1, <1>4, <2>1 DEF KeyRequest
    <3>1. PICK y : y = wpa_sm_key_request(x, msg)  OBVIOUS
    <3>2. SuppOK(y, f)  BY <1>5, <3>1, KeyRequestOK
    <3>3. y.sup.gtk = x.sup.gtk /\ y.sup.assoc = x.sup.assoc /\ Replies(y.out) = {}
      BY <1>5, <3>1, KeyRequestHandled
    <3>4. Handled(a, f, y.sup, Replies(y.out))  BY <1>5, <3>3 DEF Handled
    <3>5. sup' = [sup EXCEPT ![s] = y.sup] /\ up' = [up EXCEPT ![s] = Put(@, y.out)]
      BY <3>0, <3>1
    <3> QED BY <3>2, <3>4, <3>5
  <2>2. CASE Leave(s)
    <3>1. PICK y : y = wpa_sm_deauthenticate(x)  OBVIOUS
    <3>2. SuppOK(y, f)  BY <1>5, <3>1, DeauthenticateOK
    <3>3. Handled(a, f, y.sup, Replies(y.out))
      BY <1>5, <3>1, DeauthenticateLeft DEF Handled
    <3>4. sup' = [sup EXCEPT ![s] = y.sup] /\ up' = [up EXCEPT ![s] = Put(@, y.out)]
      BY <1>1, <1>4, <2>2, <3>1 DEF Leave
    <3> QED BY <3>2, <3>3, <3>4
  <2> QED BY <2>1, <2>2
<1>9. PICK u, p : u = Put(b, y.out) /\ p = y.sup  OBVIOUS
<1>10. Replies(u) \subseteq U \cup Replies(y.out)  BY <1>2, <1>6, <1>8, <1>9, PutReplies
<1>11. s \notin crossed.gtk => Shared(m, p, D, Replies(u), g, v)
  <2>1. SUFFICES ASSUME s \notin crossed.gtk PROVE Shared(m, p, D, Replies(u), g, v)
    OBVIOUS
  <2>2. Shared(m, a, D, U, g, v)  BY <1>7, <2>1
  <2>3. f.msg = "deauth"  BY <1>4 DEF DeauthFrame
  <2>4. CASE p.assoc = FALSE
    <3>1. \A E : Served(p, E, g)  BY <2>4 DEF Served
    <3> QED BY <2>2, <3>1 DEF Shared, Answering
  <2>5. CASE p.gtk = a.gtk /\ p.assoc = a.assoc /\ Replies(y.out) = {}
    <3>1. Replies(u) \subseteq U  BY <1>10, <2>5
    <3>2. \A E : Served(a, E, g) => Served(p, E, g)  BY <2>5 DEF Served
    <3> QED BY <2>2, <3>1, <3>2 DEF Shared, Answering
  <2> QED BY <1>8, <1>9, <2>3, <2>4, <2>5 DEF Handled
<1>12. sm' = [sm EXCEPT ![s] = m] /\ down' = [down EXCEPT ![s] = d]
  BY <1>1, <1>2, <1>3, SameLinks DEF KeyInv
<1>13. sup' = [sup EXCEPT ![s] = p] /\ up' = [up EXCEPT ![s] = u]  BY <1>1, <1>8, <1>9
<1>14. run'.todo = run.todo /\ Waited(s)' = v  BY <1>1, <1>3, RunTodo
<1>15. s \notin crossed.gtk => Shared(m, p, Gtks(d), Replies(u), CurrentGtk, Waited(s)')
  BY <1>1, <1>6, <1>11, <1>14
<1> QED BY <1>2, <1>3, <1>12, <1>13, <1>14, <1>15, AloneShared

(* A frame arrives at the station.                                         *)
LEMMA StaReceiveShared ==
  ASSUME GroupInv, KeyInv', NEW s \in Stations, StaReceive(s)
  PROVE  GroupInv'
<1>1. PICK m, a, q, b, f, g, v :
        /\ m = sm[s] /\ a = sup[s] /\ q = down[s] /\ b = up[s] /\ f = Head(q)
        /\ g = CurrentGtk /\ v = Waited(s)
  OBVIOUS
<1>2. /\ KeyInv /\ rand \in Nat /\ InOrder(q) /\ SupShape(a)
      /\ Agreed(m, a, Downward(q), Upward(b), rand) /\ b \in Seq(Elements(b))
      /\ DownOK(q, m, rand) /\ Reset(m) /\ Begun(m)
  BY <1>1, KeysNow, GroupNow DEF UpOK
<1>3. /\ UNCHANGED <<sm, group, run, crossed>> /\ q # <<>>
      /\ down' = [down EXCEPT ![s] = Tail(@)]
  BY <1>1 DEF StaReceive
<1>4. PICK d, D, E, U : /\ d = Tail(q) /\ D = Gtks(q) /\ E = Gtks(d) /\ U = Replies(b)
  OBVIOUS
<1>5. q \in Seq(Elements(q)) /\ \A h \in Elements(q) : DownFrame(h, m, rand)
  BY <1>2 DEF DownOK
<1>6. /\ E \subseteq D /\ (f.msg \in {"3/4", "1/2"} => f \in D)
      /\ f.msg # "deauth" => \A h \in E : Before(f, h)
  BY <1>1, <1>2, <1>3, <1>4, <1>5, TailGtks
<1>7. f.msg # "deauth" => f.msg \in {"1/4", "3/4", "1/2"} /\ Core(f) \in Downward(q)
  <2>1. f \in Elements(q)
    <3>1. 1 \in DOMAIN q /\ f = q[1]  BY <1>1, <1>3, <1>5
    <3> QED BY <3>1 DEF Elements
  <2> QED BY <1>5, <2>1 DEF DownFrame, Downward
<1>8. PICK x : x = [sup |-> a, out |-> <<>>, rand |-> rand]  OBVIOUS
<1>9. SuppOK(x, f) /\ x.sup = a /\ x.rand = rand /\ Replies(x.out) = {}
  <2>1. Answers(<<>>, f)  BY NoAnswer
  <2>2. x.out = <<>>  BY <1>8
  <2>3. Replies(<<>>) = {}  BY DEF Replies, Elements
  <2> QED BY <1>2, <1>8, <2>1, <2>2, <2>3 DEF SuppOK
<1>10. PICK ok, y :
         /\ y = IF ~a.assoc THEN x
                ELSE IF f.msg = "deauth" THEN [x EXCEPT !.sup = wpa_sm_notify_disassoc(@)]
                ELSE wpa_sm_rx_eapol(x, f, ok)
         /\ sup' = [sup EXCEPT ![s] = y.sup]
         /\ up' = [up EXCEPT ![s] = Put(@, y.out)]
  <2>1. PICK ok \in BOOLEAN :
          \E y \in {IF ~a.assoc THEN x
                   ELSE IF f.msg = "deauth" THEN [x EXCEPT !.sup = wpa_sm_notify_disassoc(@)]
                   ELSE wpa_sm_rx_eapol(x, f, ok)} :
            /\ sup' = [sup EXCEPT ![s] = y.sup]
            /\ up' = [up EXCEPT ![s] = Put(@, y.out)]
            /\ rand' = y.rand
    BY <1>1, <1>8, Zenon DEF StaReceive
  <2> QED BY <2>1
<1>11. PICK u, p, R : u = Put(b, y.out) /\ p = y.sup /\ R = Replies(y.out)  OBVIOUS
<1>12. SuppOK(y, f) /\ (s \notin crossed.gtk => Shared(m, p, E, U \cup R, g, v))
  <2>1. s \notin crossed.gtk => Shared(m, a, D, U, g, v)  BY <1>1, <1>4, GroupNow
  <2>2. CASE y = x
    <3>1. U \cup R = U /\ p = a  BY <1>9, <1>11, <2>2
    <3>2. s \notin crossed.gtk => Shared(m, a, E, U, g, v)  BY <1>6, <2>1, SharedShrink
    <3> QED BY <1>9, <2>2, <3>1, <3>2
  <2>3. CASE y = [x EXCEPT !.sup = wpa_sm_notify_disassoc(@)]
    <3>1. PICK k : k = wpa_sm_notify_disassoc(a)  OBVIOUS
    <3>2. SupShape(k)  BY <1>2, <3>1, DisassocShape
    <3>3. y = [sup |-> k, out |-> <<>>, rand |-> rand]  BY <1>8, <2>3, <3>1
    <3>4. SuppOK(y, f) /\ p = k
      BY <1>8, <1>9, <1>11, <3>2, <3>3 DEF SuppOK
    <3>5. p.assoc = FALSE  BY <1>2, <3>1, <3>4 DEF SupShape, wpa_sm_notify_disassoc
    <3>6. \A F : Served(p, F, g)  BY <3>5 DEF Served
    <3>7. s \notin crossed.gtk => Shared(m, a, E, U, g, v)  BY <1>6, <2>1, SharedShrink
    <3> QED BY <3>4, <3>6, <3>7 DEF Shared, Answering
  <2>4. CASE f.msg # "deauth" /\ y = wpa_sm_rx_eapol(x, f, ok)
    <3>1. SuppOK(y, f)  BY <1>7, <1>9, <2>4, RxEapolOK
    <3>2. PICK A, B : A = Downward(q) /\ B = Upward(b)  OBVIOUS
    <3>3. Agreed(m, x.sup, A, B, x.rand) /\ Core(f) \in A /\ x.rand \in Nat
      BY <1>2, <1>7, <1>9, <2>4, <3>2
    <3>4. Handled(x.sup, f, y.sup, Replies(y.out))
      BY <1>7, <1>9, <2>4, <3>3, RxEapolHandled
    <3>5. Handled(a, f, p, R)  BY <1>9, <1>11, <3>4
    <3>6. g.idx \in {1, 2}
      BY <1>1, <1>2 DEF CurrentGtk, KeyInv, TimerInv, Shapes
    <3> QED BY <1>6, <2>1, <2>4, <3>1, <3>5, <3>6, HandledShared
  <2>5. a.assoc = TRUE \/ a.assoc = FALSE  BY <1>2 DEF Agreed, Links, SuppKeys
  <2> QED BY <1>10, <2>2, <2>3, <2>4, <2>5
<1>13. Replies(u) \subseteq U \cup R  BY <1>2, <1>4, <1>11, <1>12, PutReplies
<1>14. run'.todo = run.todo /\ Waited(s)' = v  BY <1>1, <1>3, RunTodo
<1>15. s \notin crossed.gtk => Shared(m, p, Gtks(d), Replies(u), CurrentGtk, Waited(s)')
  <2>1. s \notin crossed.gtk => Shared(m, p, E, Replies(u), g, v)
    BY <1>12, <1>13, SharedShrink
  <2> QED BY <1>1, <1>4, <1>14, <2>1
<1>16. sm' = [sm EXCEPT ![s] = m] /\ down' = [down EXCEPT ![s] = d]
  BY <1>1, <1>2, <1>3, <1>4, SameLinks DEF KeyInv
<1>17. sup' = [sup EXCEPT ![s] = p] /\ up' = [up EXCEPT ![s] = u]  BY <1>1, <1>10, <1>11
<1> QED BY <1>2, <1>3, <1>14, <1>15, <1>16, <1>17, AloneShared

-----------------------------------------------------------------------------
(* The group key when the group machine sets one.                          *)

(* h is f, but for the name of its key, k for g.                           *)
Renamed(f, h, g, k) ==
  /\ h.msg = f.msg /\ h.rc = f.rc /\ An(h) = An(f)
  /\ f.gtk = {g} => h.gtk = {k}

(* A key is named anew at both ends.                                       *)
LEMMA RenamedShared ==
  ASSUME NEW m, NEW p, NEW D, NEW U, NEW g, NEW w, Shared(m, p, D, U, g, w),
         NEW q, q.assoc = p.assoc, NEW k, p.gtk[g.idx] = g.key => q.gtk[k.idx] = k.key,
         NEW E, \A h \in E : \E f \in D : Renamed(f, h, g, k)
  PROVE  Shared(m, q, E, U, k, w)
<1>1. Served(p, D, g) => Served(q, E, k)  BY DEF Served, Renamed
<1>2. \A f, h : Renamed(f, h, g, k) /\ Counts(h, m) => Counts(f, m)
  BY DEF Renamed, Counts
<1>3. \A f, h, e, j : Renamed(f, h, g, k) /\ Renamed(e, j, g, k) /\ Before(h, j) => Before(f, e)
  BY DEF Renamed, Before, Past
<1>4. Coming(m, E, k)
  <2> SUFFICES ASSUME NEW h \in E, Counts(h, m)
               PROVE  h.gtk = {k} /\ \A j \in E : Before(h, j) => j.gtk = {k}
    BY DEF Coming
  <2>1. PICK f \in D : Renamed(f, h, g, k)  OBVIOUS
  <2>2. f.gtk = {g} /\ \A e \in D : Before(f, e) => e.gtk = {g}
    BY <1>2, <2>1 DEF Shared, Coming
  <2>3. ASSUME NEW j \in E, Before(h, j) PROVE j.gtk = {k}
    <3>1. PICK e \in D : Renamed(e, j, g, k)  OBVIOUS
    <3>2. Before(f, e)  BY <1>3, <2>1, <2>3, <3>1
    <3> QED BY <2>2, <3>1, <3>2 DEF Renamed
  <2> QED BY <2>1, <2>2, <2>3 DEF Renamed
<1>5. Answering(m, q, E, U, k)  BY <1>1 DEF Shared, Answering
<1> QED BY <1>1, <1>4, <1>5 DEF Shared

(* wpa_group_setkeysdone: the new key is the one in use.                   *)
NewGtk(i) == [idx |-> i, key |-> "new"]
UsedGtk(i) == [idx |-> i, key |-> "use"]

LEMMA SetkeysdoneShared ==
  ASSUME NEW queues, NEW v, v = Relabelled(AfterSetkeysdone, queues),
         NEW y, y = RelabelledKeys(AfterSetkeysdone),
         NEW t \in Stations, SupShape(sup[t]), NEW h, NEW j, DownOK(queues[t], h, j),
         NEW i \in {1, 2}, NEW g, g = NewGtk(i), NEW k, k = UsedGtk(i),
         NEW m, NEW U, NEW w, Shared(m, sup[t], Gtks(queues[t]), U, g, w)
  PROVE  Shared(m, y[t], Gtks(v[t]), U, k, w)
<1>1. PICK a, b, q, d : a = sup[t] /\ b = y[t] /\ q = queues[t] /\ d = v[t]  OBVIOUS
<1>2. b.assoc = a.assoc /\ (a.gtk[g.idx] = g.key => b.gtk[k.idx] = k.key)
  <2>1. PICK G : G = [e \in {1, 2} |-> AfterSetkeysdone(a.gtk[e])]  OBVIOUS
  <2>2. b = [a EXCEPT !.gtk = G]  BY <1>1, <2>1 DEF RelabelledKeys
  <2>3. SupShape(a)  BY <1>1
  <2>4. b.assoc = a.assoc /\ b.gtk = G  BY <2>2, <2>3 DEF SupShape
  <2>5. g.idx = i /\ g.key = "new" /\ k.idx = i /\ k.key = "use"
    BY DEF NewGtk, UsedGtk
  <2>6. a.gtk[i] = "new" => G[i] = "use"  BY <2>1 DEF AfterSetkeysdone
  <2> QED BY <2>4, <2>5, <2>6
<1>3. d = [e \in DOMAIN q |-> [q[e] EXCEPT !.gtk =
            {[c EXCEPT !.key = AfterSetkeysdone(c.key)] : c \in q[e].gtk}]]
  BY <1>1 DEF Relabelled
<1>4. ASSUME NEW e \in Gtks(d) PROVE \E f \in Gtks(q) : Renamed(f, e, g, k)
  <2>1. PICK n \in DOMAIN q : e = d[n]  BY <1>3 DEF Gtks, Elements
  <2>2. PICK f, H : f = q[n] /\ H = {[c EXCEPT !.key = AfterSetkeysdone(c.key)] : c \in f.gtk}
    OBVIOUS
  <2>3. e = [f EXCEPT !.gtk = H]  BY <1>3, <2>1, <2>2
  <2>4. f \in Elements(q) /\ DownOK(q, h, j)  BY <1>1, <2>2 DEF Elements
  <2>5. DownFrame(f, h, j)  BY <2>4 DEF DownOK
  <2>6. e = [msg |-> f.msg, rc |-> f.rc, mic |-> f.mic, gtk |-> H, nonce |-> f.nonce]
    BY <2>3, <2>5 DEF DownFrame
  <2>7. e.msg = f.msg /\ e.rc = f.rc /\ e.mic = f.mic /\ e.nonce = f.nonce /\ e.gtk = H
    BY <2>6
  <2>8. f \in Gtks(q)  BY <2>4, <2>7 DEF Gtks
  <2>9. f.gtk = {g} => H = {k}
    <3>1. g.key = "new" /\ AfterSetkeysdone("new") = "use"
      BY DEF AfterSetkeysdone, NewGtk
    <3>2. [g EXCEPT !.key = "use"] = k  BY DEF NewGtk, UsedGtk
    <3>3. [g EXCEPT !.key = AfterSetkeysdone(g.key)] = k  BY <3>1, <3>2
    <3> QED BY <2>2, <3>3
  <2>10. Renamed(f, e, g, k)  BY <2>7, <2>9 DEF Renamed, An
  <2> QED BY <2>8, <2>10
<1>5. Shared(m, a, Gtks(q), U, g, w)  BY <1>1
<1>6. Shared(m, b, Gtks(d), U, k, w)  BY <1>2, <1>4, <1>5, RenamedShared
<1> QED BY <1>1, <1>6

(* wpa_group_setkeys: no key is on its way to the station, and it is       *)
(* visited next.                                                           *)
LEMMA SetkeysShared ==
  ASSUME NEW m, AtEase(m), Begun(m), Quiet(m),
         ~(m.ptk \in {"PTKCALCNEGOTIATING", "PTKINITNEGOTIATING"} /\ m.PTK_valid),
         m.grp # "REKEYNEGOTIATING",
         NEW p, NEW D, NEW U, NEW g, NEW w, m.started = TRUE => w = TRUE
  PROVE  Shared(m, p, D, U, g, w)
<1>1. ~Armed(m)  BY DEF AtEase, Armed, Negotiating, Awaiting
<1>2. m.ptk = "PTKINITDONE" /\ m.PTK_valid = TRUE => m.valid = {}  BY DEF Quiet, AtEase
<1>3. \A f : ~Counts(f, m)  BY <1>1, <1>2 DEF Counts
<1>4. Complete(m) => w = TRUE
  <2>1. NoStation.PTK_valid = FALSE  BY DEF NoStation
  <2> QED BY <2>1 DEF Complete, Accepted, Begun
<1> QED BY <1>3, <1>4 DEF Shared, Coming, Answering

(* The group machine.                                                      *)
LEMMA GroupStepShared ==
  ASSUME GroupInv, KeyInv', wpa_group_sm_step \/ wpa_rekey_gtk \/ UNCHANGED vars
  PROVE  GroupInv'
<1>1. UNCHANGED <<sm, up>> /\ KeyInv
  BY DEF wpa_group_sm_step, wpa_group_setkeys, wpa_group_setkeysdone, wpa_rekey_gtk, vars,
         GroupInv
<1>2. GReset'  BY <1>1 DEF GroupInv, GReset
<1>3. /\ run = [st |-> run.st, free |-> run.free, todo |-> run.todo, rekey |-> run.rekey,
                next |-> run.next]
      /\ group = [state |-> group.state, GTKReKey |-> group.GTKReKey,
                  done |-> group.done, gn |-> group.gn]
      /\ crossed = [ptk |-> crossed.ptk, gtk |-> crossed.gtk] /\ group.gn \in {1, 2}
  BY <1>1 DEF KeyInv, TimerInv, Inv, RunOK, GroupShape, Shapes
<1>4. CASE /\ UNCHANGED <<sup, down, crossed>> /\ run'.todo = run.todo
           /\ group'.gn = group.gn /\ group'.state = group.state
  <2>1. CurrentGtk' = CurrentGtk /\ \A t : Waited(t)' = Waited(t)
    BY <1>4 DEF CurrentGtk, Waited
  <2>2. GShared'  BY <1>1, <1>4, <2>1 DEF GroupInv, GShared
  <2> QED BY <1>2, <2>2 DEF GroupInv
<1>5. CASE group.state = "SETKEYS" /\ wpa_group_setkeysdone
  <2>1. PICK v, y : v = down' /\ y = sup'  OBVIOUS
  <2>2. v = Relabelled(AfterSetkeysdone, down) /\ y = RelabelledKeys(AfterSetkeysdone)
        /\ UNCHANGED <<run, crossed>>
    BY <1>5, <2>1 DEF wpa_group_setkeysdone
  <2>3. PICK i, g, k : i = group.gn /\ g = NewGtk(i) /\ k = UsedGtk(i)  OBVIOUS
  <2>4. CurrentGtk = g /\ CurrentGtk' = k
    <3>1. group'.gn = group.gn /\ group'.state = "SETKEYSDONE"
      BY <1>3, <1>5 DEF wpa_group_setkeysdone
    <3> QED BY <1>5, <2>3, <3>1 DEF CurrentGtk, NewGtk, UsedGtk
  <2>5. ASSUME NEW t \in Stations, t \notin crossed.gtk
        PROVE  Shared(sm[t], y[t], Gtks(v[t]), Replies(up[t]), k, Waited(t))
    <3>1. PICK m, U, w, r : m = sm[t] /\ U = Replies(up[t]) /\ w = Waited(t) /\ r = rand  OBVIOUS
    <3>2. SupShape(sup[t]) /\ DownOK(down[t], m, r)  BY <1>1, <3>1, KeysNow
    <3>3. Shared(m, sup[t], Gtks(down[t]), U, g, w)  BY <2>4, <2>5, <3>1, GroupNow
    <3>4. i \in {1, 2}  BY <1>3, <2>3
    <3>5. Shared(m, y[t], Gtks(v[t]), U, k, w)
      BY <2>2, <2>3, <3>2, <3>3, <3>4, SetkeysdoneShared
    <3> QED BY <3>1, <3>5
  <2>6. \A t : Waited(t)' = Waited(t)  BY <2>2 DEF Waited
  <2>7. GShared'  BY <1>1, <2>1, <2>2, <2>4, <2>5, <2>6 DEF GShared
  <2> QED BY <1>2, <2>7 DEF GroupInv
<1>6. CASE run.st = NoOne /\ wpa_group_setkeys
  <2>1. /\ run'.todo = {s \in Stations : sm[s].started}
        /\ crossed'.gtk = crossed.gtk \cup
             {s \in Stations : \/ /\ sm[s].ptk \in {"PTKCALCNEGOTIATING", "PTKINITNEGOTIATING"}
                                  /\ sm[s].PTK_valid
                               \/ sm[s].grp = "REKEYNEGOTIATING"}
    BY <1>3, <1>6 DEF wpa_group_setkeys
  <2>2. ASSUME NEW t \in Stations, t \notin crossed'.gtk, NEW p, NEW D, NEW U, NEW g
        PROVE  Shared(sm[t], p, D, U, g, Waited(t)')
    <3>1. PICK m, w : m = sm[t] /\ w = Waited(t)'  OBVIOUS
    <3>2. t # run.st  BY <1>6, HandshakeAssumption
    <3>3. /\ t \notin crossed.gtk /\ m.grp # "REKEYNEGOTIATING"
          /\ ~(m.ptk \in {"PTKCALCNEGOTIATING", "PTKINITNEGOTIATING"} /\ m.PTK_valid)
      BY <2>1, <2>2, <3>1
    <3>4. AtEase(m) /\ Begun(m)  BY <1>1, <3>1, <3>2, KeysNow, GroupNow
    <3>5. Quiet(m)
      <4>1. Shared(sm[t], sup[t], Gtks(down[t]), Replies(up[t]), CurrentGtk, Waited(t))
        BY <3>3, GroupNow
      <4> QED BY <3>1, <4>1 DEF Shared
    <3>6. m.started = TRUE => w = TRUE  BY <2>1, <3>1 DEF Waited
    <3>7. Shared(m, p, D, U, g, w)  BY <3>3, <3>4, <3>5, <3>6, SetkeysShared
    <3> QED BY <3>1, <3>7
  <2>3. GShared'
    <3>1. ASSUME NEW t \in Stations, t \notin crossed'.gtk
          PROVE  Shared(sm[t], sup'[t], Gtks(down'[t]), Replies(up[t]), CurrentGtk', Waited(t)')
      <4>1. PICK p, D, U, g : /\ p = sup'[t] /\ D = Gtks(down'[t]) /\ U = Replies(up[t])
                              /\ g = CurrentGtk'
        OBVIOUS
      <4>2. Shared(sm[t], p, D, U, g, Waited(t)')  BY <2>2, <3>1
      <4> QED BY <4>1, <4>2
    <3> QED BY <1>1, <3>1 DEF GShared
  <2> QED BY <1>2, <2>3 DEF GroupInv
<1>7. CASE wpa_rekey_gtk \/ UNCHANGED vars
  BY <1>3, <1>4, <1>7 DEF wpa_rekey_gtk, vars
<1>8. CASE wpa_group_sm_step
  <2>1. CASE /\ run' = [run EXCEPT !.rekey = FALSE, !.st = run.next, !.next = NoOne]
             /\ UNCHANGED <<sm, sup, down, group, crossed>>
    BY <1>3, <1>4, <2>1
  <2> QED BY <1>5, <1>6, <1>8, <2>1 DEF wpa_group_sm_step
<1> QED BY <1>7, <1>8

(* A round leaves alone a record that is not there.                        *)
LEMMA RoundBegun ==
  ASSUME NEW x, XOK(x), Begun(x.sm), NEW g, NEW ok, NEW y, y = PtkRound(x, g, ok),
         NEW z, z = GroupRound(y, g)
  PROVE  Begun(z.sm)
<1>1. CASE x.sm.started = TRUE
  <2>1. Kept(x, y)  BY PtkRoundKept
  <2>2. XOK(y)  BY <2>1 DEF Kept
  <2>3. Kept(y, z)  BY <2>2, GroupRoundKept
  <2> QED BY <1>1, <2>1, <2>3 DEF Kept, Begun
<1>2. CASE x.sm = NoStation
  <2>1. PICK m : m = x.sm  OBVIOUS
  <2>2. /\ m.requests = {} /\ m.ptk = "INITIALIZE" /\ m.grp = "IDLE"
        /\ m.PtkGroupInit = FALSE /\ m.GUpdateStationKeys = FALSE
    BY <1>2, <2>1 DEF NoStation
  <2>3. PtkTarget(m) = "none" /\ GroupTarget(m) = "none"
    BY <2>2 DEF PtkTarget, GroupTarget, None
  <2>4. y = x  BY <2>1, <2>3 DEF PtkRound, EnterPtk
  <2>5. z = y  BY <2>1, <2>3, <2>4 DEF GroupRound, EnterGroup
  <2> QED BY <2>4, <2>5
<1> QED BY <1>1, <1>2 DEF Begun

(* After a round PtkGroupInit is served.                                   *)
LEMMA RekeyInit ==
  ASSUME NEW x, XOK(x), NEW g, NEW y, y = REKEYNEGOTIATING(x, g)
  PROVE  y.sm.PtkGroupInit = x.sm.PtkGroupInit
<1>1. PICK m, z : m = x.sm /\ z = [x EXCEPT !.sm.grp = "REKEYNEGOTIATING", !.sm.GTimeoutCtr = @ + 1]
  OBVIOUS
<1>2. XShape(x) /\ SmShape(m)  BY <1>1 DEF XOK, SmOK
<1>3. PICK k : k = [m EXCEPT !.grp = "REKEYNEGOTIATING", !.GTimeoutCtr = @ + 1]  OBVIOUS
<1>4. XShape(z) /\ z.sm = k /\ z.done = x.done  BY <1>1, <1>2, <1>3 DEF XShape
<1>5. SmShape(k) /\ k.PtkGroupInit = m.PtkGroupInit /\ k.requests = m.requests
      /\ k.GUpdateStationKeys = m.GUpdateStationKeys
  BY <1>2, <1>3 DEF SmShape
<1>6. CASE y = z  BY <1>1, <1>4, <1>5, <1>6
<1>7. CASE y = Send([z EXCEPT !.sm.TimeoutEvt = FALSE], "1/2", {g})
  <2>1. PICK u, l, a, e : /\ u = [z EXCEPT !.sm.TimeoutEvt = FALSE] /\ a = "1/2" /\ e = {g}
                          /\ l = [k EXCEPT !.TimeoutEvt = FALSE]
    OBVIOUS
  <2>2. XShape(u) /\ u.sm = l /\ u.done = z.done  BY <1>4, <2>1 DEF XShape
  <2>3. SmShape(l) /\ l.PtkGroupInit = k.PtkGroupInit /\ l.requests = k.requests
        /\ l.GUpdateStationKeys = k.GUpdateStationKeys
    BY <1>5, <2>1 DEF SmShape
  <2>4. SmOK(l)
    <3>1. SmOK(m)  BY <1>1 DEF XOK
    <3> QED BY <1>5, <2>3, <3>1 DEF SmOK
  <2>5. x.done \in Int  BY DEF XOK
  <2>6. XOK(u)  BY <1>4, <2>2, <2>4, <2>5 DEF XOK
  <2>7. y = Send(u, a, e)  BY <1>7, <2>1
  <2>8. GroupPart(u.sm, y.sm)  BY <2>6, <2>7, SendEffect
  <2> QED BY <1>1, <1>5, <2>2, <2>3, <2>8 DEF GroupPart
<1> QED BY <1>1, <1>6, <1>7 DEF REKEYNEGOTIATING

LEMMA RoundReset ==
  ASSUME NEW x, NEW c, Given(x, c), NEW g, NEW ok,
         NEW y, y = PtkRound(x, g, ok), NEW z, z = GroupRound(y, g)
  PROVE  Reset(z.sm)
<1>1. PtkMade(x, y, c) \/ PtkMade(x, y, TRUE)  BY PtkRoundMade
<1>2. PICK e : Given(y, e)  BY <1>1 DEF PtkMade, Made
<1>3. PICK t : t = GroupTarget(y.sm) /\ z = EnterGroup(y, t, g)  BY DEF GroupRound
<1>4. t # "IDLE" => y.sm.PtkGroupInit = FALSE
  <2>1. y.sm.PtkGroupInit \in BOOLEAN  BY <1>2 DEF Given, Station, SmTyped, SmFlags
  <2> QED BY <1>3, <2>1 DEF GroupTarget
<1>5. CASE t = "IDLE"
  <2>1. PICK m : m = y.sm  OBVIOUS
  <2>2. z = GROUP_IDLE(y) /\ XShape(y) /\ SmShape(m)
    BY <1>2, <1>3, <1>5, <2>1 DEF EnterGroup, Given, XOK, SmOK
  <2>3. z.sm = [m EXCEPT !.grp = "IDLE", !.GTimeoutCtr = 0, !.PtkGroupInit = FALSE]
    BY <2>1, <2>2 DEF XShape, SmShape, GROUP_IDLE
  <2>4. z.sm.PtkGroupInit = FALSE  BY <2>2, <2>3 DEF SmShape
  <2> QED BY <2>4 DEF Reset
<1>6. CASE t = "REKEYNEGOTIATING"
  <2>1. z = REKEYNEGOTIATING(y, g) /\ XOK(y)  BY <1>2, <1>3, <1>6 DEF EnterGroup, Given
  <2>2. z.sm.PtkGroupInit = y.sm.PtkGroupInit  BY <2>1, RekeyInit
  <2> QED BY <1>4, <1>6, <2>2 DEF Reset
<1>7. CASE t = "REKEYESTABLISHED"
  <2>1. z = REKEYESTABLISHED(y)  BY <1>3, <1>7 DEF EnterGroup
  <2>2. z.sm.PtkGroupInit = y.sm.PtkGroupInit  BY <1>2, <1>3, <1>7, <2>1, EstablishedSupplied
  <2> QED BY <1>4, <1>7, <2>2 DEF Reset
<1>8. CASE t = "KEYERROR"
  <2>1. z = KEYERROR(y)  BY <1>3, <1>8 DEF EnterGroup
  <2>2. z.sm.PtkGroupInit = y.sm.PtkGroupInit  BY <1>2, <2>1, KeyerrorSupplied
  <2> QED BY <1>4, <1>8, <2>2 DEF Reset
<1>9. CASE t \notin {"IDLE", "REKEYNEGOTIATING", "REKEYESTABLISHED", "KEYERROR"}
  <2>1. z = y  BY <1>3, <1>9 DEF EnterGroup
  <2> QED BY <1>4, <1>9, <2>1 DEF Reset
<1> QED BY <1>5, <1>6, <1>7, <1>8, <1>9

(* What the frames of a station on their way are to the authenticator.     *)
LEMMA UpKnown ==
  ASSUME NEW b, NEW m, NEW r, UpOK(b, m, r)
  PROVE  Known(Replies(b), Upward(b), m, r)
BY DEF Known, Replies, Upward, UpOK, UpFrame

(* wpa_sm_step.                                                            *)
LEMMA StepShared ==
  ASSUME GroupInv, KeyInv', NEW s \in Stations, wpa_sm_step(s)
  PROVE  GroupInv'
<1>1. PICK ok, x, y, z :
        /\ x = [sm |-> sm[s], done |-> group.done, out |-> <<>>, rand |-> rand]
        /\ y = PtkRound(x, CurrentGtk, ok)
        /\ z = GroupRound(y, CurrentGtk)
        /\ Round(s, z)
  BY DEF wpa_sm_step
<1>2. PICK m, p, q, b, c, g, v :
        /\ m = sm[s] /\ p = sup[s] /\ q = down[s] /\ b = up[s]
        /\ c = Crossing(s) /\ g = CurrentGtk /\ v = Waited(s)
  OBVIOUS
<1>3. /\ KeyInv /\ rand \in Nat /\ rand > 0 /\ InOrder(q) /\ Station(m, c, rand)
      /\ Agreed(m, p, Downward(q), Upward(b), rand) /\ DownOK(q, m, rand)
      /\ UpOK(b, m, rand) /\ Reset(m) /\ Begun(m)
  BY <1>2, KeysNow, GroupNow
<1>4. q \in Seq(Elements(q)) /\ c \in BOOLEAN  BY <1>2, <1>3 DEF DownOK, Crossing
<1>5. Given(x, c) /\ x.sm = m /\ x.rand = rand /\ x.out = <<>>
  <2>1. XOK(x) /\ x.rand = rand /\ x.sm = m /\ x.out = <<>>
    BY <1>1, <1>2, <1>3 DEF XOK, XShape, KeyInv, TimerInv, Inv, StationsOK, GroupShape
  <2>2. DownOK(<<>>, m, rand)  BY DEF DownOK, Elements
  <2> QED BY <1>3, <1>4, <2>1, <2>2 DEF Given
<1>6. PICK S, U, V : S = Elements(q) /\ U = Upward(b) /\ V = Replies(b)  OBVIOUS
<1>7. q \o x.out = q  BY <1>4, <1>5
<1>8. Keyed(x, p, q, U)  BY <1>3, <1>5, <1>6, <1>7 DEF Keyed
<1>9. Known(V, U, x.sm, x.rand)  BY <1>3, <1>5, <1>6, UpKnown
<1>10. y = PtkRound(x, g, ok) /\ z = GroupRound(y, g)  BY <1>1, <1>2
<1>11. Queued(q, z) /\ DownOK(Put(q, z.out), z.sm, z.rand)
  <2>1. PICK e : e = TRUE  OBVIOUS
  <2>2. Made(x, z, e)  BY <1>4, <1>5, <1>10, <2>1, RoundMade
  <2>3. q \in Seq(S)  BY <1>4, <1>6
  <2>4. Made(x, z, TRUE)  BY <2>1, <2>2
  <2>5. Queued(q, z)  BY <1>5, <1>8, <1>10, <2>3, <2>4, RoundKeyed
  <2>6. Ages(m, rand, z.sm, z.rand) /\ DownOK(z.out, z.sm, z.rand)
    BY <1>5, <2>2 DEF Made, Given
  <2>7. DownOK(q, z.sm, z.rand)  BY <1>3, <2>6, AgesDown
  <2> QED BY <2>5, <2>6, <2>7, PutDown
<1>12. Reset(z.sm) /\ Begun(z.sm)
       /\ (s \notin crossed.gtk => Supplied(z, p, q, V, g, v))
  <2>1. q \in Seq(S) /\ Reset(x.sm) /\ Begun(x.sm) /\ XOK(x)
    BY <1>3, <1>4, <1>5, <1>6 DEF Given
  <2>2. Begun(z.sm) /\ Reset(z.sm)  BY <1>5, <1>10, <2>1, RoundBegun, RoundReset
  <2>3. CASE s \notin crossed.gtk
    <3>1. Shared(m, p, Gtks(q), V, g, v)  BY <1>2, <1>6, <2>3, GroupNow
    <3>2. Supplied(x, p, q, V, g, v)  BY <1>5, <1>7, <3>1 DEF Supplied, OnLink
    <3>3. Supplied(z, p, q, V, g, v)
      BY <1>5, <1>8, <1>9, <1>10, <2>1, <3>2, RoundSupplied
    <3> QED BY <2>2, <3>3
  <2> QED BY <2>2, <2>3
<1>13. PICK k, d : k = z.sm /\ d = Put(q, z.out)  OBVIOUS
<1>14. s \notin crossed.gtk => Shared(k, p, Gtks(d), V, g, v)
  <2>1. PICK T, o : q \in Seq(T) /\ o \in Seq(T) /\ o = z.out  BY <1>11 DEF Queued
  <2>2. Gtks(Put(q, o)) \subseteq Gtks(q \o o)  BY <2>1, PutGtks
  <2>3. Gtks(d) \subseteq OnLink(q, z)  BY <1>13, <2>1, <2>2 DEF OnLink
  <2>4. s \notin crossed.gtk => Shared(k, p, OnLink(q, z), V, g, v)
    BY <1>12, <1>13 DEF Supplied
  <2> QED BY <2>3, <2>4, SharedShrink
<1>15. PICK n : n = IF (PtkTarget(k) = None /\ GroupTarget(k) = None) /\ run.free
                    THEN NoStation ELSE k
  OBVIOUS
<1>16. sm' = [sm EXCEPT ![s] = n] /\ up' = up  BY <1>1, <1>13, <1>15 DEF Round
<1>17. Reset(n) /\ Begun(n) /\ (s \notin crossed.gtk => Shared(n, p, Gtks(d), V, g, v))
  <2>1. CASE n = k  BY <1>12, <1>13, <1>14, <2>1
  <2>2. CASE n = NoStation
    <3>1. Vacant(n) /\ Reset(n) /\ Begun(n)  BY <2>2, NoStationVacant
    <3>2. Shared(n, p, Gtks(d), V, g, v)  BY <3>1, VacantShared
    <3> QED BY <3>1, <3>2
  <2> QED BY <1>15, <2>1, <2>2
<1>18. PICK sent : sent = [down EXCEPT ![s] = d]  OBVIOUS
<1>19. /\ sent[s] = d /\ \A t \in Stations \ {s} : sent[t] = down[t]
       /\ sm'[s] = n /\ \A t \in Stations \ {s} : sm'[t] = sm[t]
  BY <1>3, <1>16, <1>18 DEF KeyInv, TimerInv, Shapes, Inv, StationsOK
<1>20. /\ run'.todo = run.todo /\ crossed'.gtk = crossed.gtk /\ group'.gn = group.gn
       /\ \A t : Waited(t)' = Waited(t)
  <2>1. /\ run = [st |-> run.st, free |-> run.free, todo |-> run.todo, rekey |-> run.rekey,
                  next |-> run.next]
        /\ group = [state |-> group.state, GTKReKey |-> group.GTKReKey,
                    done |-> group.done, gn |-> group.gn]
        /\ crossed = [ptk |-> crossed.ptk, gtk |-> crossed.gtk]
    BY <1>3 DEF KeyInv, TimerInv, Inv, RunOK, GroupShape, Shapes
  <2>2. run'.todo = run.todo
    <3>1. run' = run \/ run' = [run EXCEPT !.st = NoOne, !.free = FALSE]  BY <1>1 DEF Round
    <3> QED BY <2>1, <3>1
  <2>3. crossed'.gtk = crossed.gtk
    <3>1. PICK e : crossed' = [crossed EXCEPT !.ptk = e]  BY <1>1 DEF Round
    <3> QED BY <2>1, <3>1
  <2>4. group'.gn = group.gn
    <3>1. PICK e, a : group' = [group EXCEPT !.done = e, !.state = a]  BY <1>1 DEF Round
    <3> QED BY <2>1, <3>1
  <2> QED BY <2>2, <2>3, <2>4 DEF Waited
<1>21. ASSUME NEW t \in Stations, t \notin crossed.gtk
       PROVE  Shared(sm'[t], sup[t], Gtks(sent[t]), Replies(up[t]), g, Waited(t))
  <2>1. CASE t = s  BY <1>2, <1>6, <1>17, <1>19, <1>21, <2>1
  <2>2. CASE t # s  BY <1>2, <1>19, <1>21, <2>2, GroupNow
  <2> QED BY <2>1, <2>2
<1>22. GReset'  BY <1>17, <1>19 DEF GroupInv, GReset
<1>23. sent = [down EXCEPT ![s] = Put(@, z.out)]  BY <1>2, <1>13, <1>18
<1>24. CASE ~(group.state = "SETKEYS" /\ z.done = 0)
  <2>1. down' = sent /\ sup' = sup  BY <1>1, <1>23, <1>24 DEF Round
  <2>2. group'.state = group.state
    <3>1. PICK e : group' = [group EXCEPT !.done = e, !.state = group.state]
      BY <1>1, <1>24 DEF Round
    <3>2. group = [state |-> group.state, GTKReKey |-> group.GTKReKey,
                   done |-> group.done, gn |-> group.gn]
      BY <1>3 DEF KeyInv, TimerInv, Inv, GroupShape
    <3> QED BY <3>1, <3>2
  <2>3. CurrentGtk' = g  BY <1>2, <1>20, <2>2 DEF CurrentGtk
  <2>4. GShared'  BY <1>16, <1>20, <1>21, <2>1, <2>3 DEF GShared
  <2> QED BY <1>22, <2>4 DEF GroupInv
<1>25. CASE group.state = "SETKEYS" /\ z.done = 0
  <2>1. PICK j, l : j = down' /\ l = sup'  OBVIOUS
  <2>2. j = Relabelled(AfterSetkeysdone, sent) /\ l = RelabelledKeys(AfterSetkeysdone)
    BY <1>1, <1>23, <1>25, <2>1 DEF Round
  <2>3. PICK i, a : i = group.gn /\ a = UsedGtk(i)  OBVIOUS
  <2>4. g = NewGtk(i) /\ CurrentGtk' = a /\ i \in {1, 2}
    <3>1. group'.state = "SETKEYSDONE"
      <4>1. PICK e : group' = [group EXCEPT !.done = e, !.state = "SETKEYSDONE"]
        BY <1>1, <1>25 DEF Round
      <4>2. group = [state |-> group.state, GTKReKey |-> group.GTKReKey,
                     done |-> group.done, gn |-> group.gn]
        BY <1>3 DEF KeyInv, TimerInv, Inv, GroupShape
      <4> QED BY <4>1, <4>2
    <3>2. i \in {1, 2}  BY <1>3, <2>3 DEF KeyInv, TimerInv, Shapes
    <3> QED BY <1>2, <1>20, <1>25, <2>3, <3>1, <3>2 DEF CurrentGtk, NewGtk, UsedGtk
  <2>5. \A t \in Stations : SupShape(sup[t]) /\ \E h, r : DownOK(sent[t], h, r)
    <3>1. \A t \in Stations : SupShape(sup[t]) /\ DownOK(down[t], sm[t], rand)
      BY <1>3, KeysNow
    <3>2. DownOK(sent[s], z.sm, z.rand)  BY <1>11, <1>13, <1>19
    <3> QED BY <1>19, <3>1, <3>2
  <2>6. ASSUME NEW t \in Stations, t \notin crossed.gtk
        PROVE  Shared(sm'[t], l[t], Gtks(j[t]), Replies(up[t]), a, Waited(t))
    <3>1. PICK e, B, w : e = sm'[t] /\ B = Replies(up[t]) /\ w = Waited(t)  OBVIOUS
    <3>2. PICK h, r : DownOK(sent[t], h, r)  BY <2>5
    <3>3. SupShape(sup[t])  BY <2>5
    <3>4. Shared(e, sup[t], Gtks(sent[t]), B, g, w)  BY <1>21, <2>6, <3>1
    <3>5. Shared(e, l[t], Gtks(j[t]), B, a, w)
      BY <2>2, <2>3, <2>4, <3>2, <3>3, <3>4, SetkeysdoneShared
    <3> QED BY <3>1, <3>5
  <2>7. GShared'  BY <1>16, <1>20, <2>1, <2>4, <2>6 DEF GShared
  <2> QED BY <1>22, <2>7 DEF GroupInv
<1> QED BY <1>24, <1>25

(* Every step keeps the invariant.                                         *)
LEMMA NextGroup ==
  ASSUME GroupInv, [Next]_vars
  PROVE  GroupInv'
<1>1. KeyInv'  BY NextKey DEF GroupInv
<1>2. CASE wpa_group_sm_step \/ wpa_rekey_gtk \/ UNCHANGED vars
  BY <1>1, <1>2, GroupStepShared
<1>3. ASSUME NEW s \in Stations, wpa_sm_step(s) PROVE GroupInv'
  BY <1>1, <1>3, StepShared
<1>4. ASSUME NEW s \in Stations, Timeout(s) \/ wpa_rekey_ptk(s) \/ wpa_group_update_sta(s)
      PROVE  GroupInv'
  BY <1>1, <1>4, EventShared, VisitShared
<1>5. ASSUME NEW s \in Stations, Associate(s) \/ APReceive(s) PROVE GroupInv'
  BY <1>1, <1>5, AssociateShared, APReceiveShared
<1>6. ASSUME NEW s \in Stations, StaReceive(s) \/ Lose(s) \/ KeyRequest(s) \/ Leave(s)
      PROVE  GroupInv'
  BY <1>1, <1>6, StaReceiveShared, LoseShared, StationSendsShared
<1>7. ASSUME NEW s \in Stations, ap_handle_timer(s) \/ ap_handle_session_timer(s)
      PROVE  GroupInv'
  BY <1>1, <1>7, FreedShared
<1> QED BY <1>2, <1>3, <1>4, <1>5, <1>6, <1>7 DEF Next

(* Whenever the authenticator takes a station's handshakes for completed,  *)
(* the station has the group key that is in use, under the index in use,   *)
(* unless that key was replaced while an earlier one was on its way: for   *)
(* every number of stations and rekeyings, whatever was lost, sent again   *)
(* or answered late.                                                       *)
THEOREM GroupKeyAlwaysHeld == Spec => []GroupKeyHeld
<1>1. GroupInv => GroupKeyHeld
  <2> SUFFICES ASSUME GroupInv, NEW s \in Stations \ crossed.gtk, Idle, sup[s].assoc,
                      sm[s].ptk = "PTKINITDONE", ~sm[s].GUpdateStationKeys
               PROVE  sup[s].gtk[group.gn] = CurrentGtk.key
    BY DEF GroupKeyHeld
  <2>1. PICK m, p, g, w, D, U : /\ m = sm[s] /\ p = sup[s] /\ g = CurrentGtk /\ w = Waited(s)
                                /\ D = Gtks(down[s]) /\ U = Replies(up[s])
    OBVIOUS
  <2>2. Shared(m, p, D, U, g, w) /\ KeyInv  BY <2>1, GroupNow
  <2>3. w = FALSE /\ s # run.st  BY <2>1, HandshakeAssumption DEF Idle, Waited
  <2>4. AtEase(m) /\ SmOK(m) /\ Agreed(m, p, Downward(down[s]), Upward(up[s]), rand)
    BY <2>1, <2>2, <2>3, KeysNow
  <2>5. m.requests = {} /\ m.PTK_valid = TRUE
    BY <2>1, <2>4 DEF AtEase, Agreed, Tied, ApKeys
  <2>6. m.GUpdateStationKeys = FALSE
    <3>1. m.GUpdateStationKeys \in BOOLEAN  BY <2>4 DEF SmOK
    <3> QED BY <2>1, <3>1
  <2>7. Complete(m)  BY <2>1, <2>5, <2>6 DEF Complete, Accepted
  <2>8. p.assoc = TRUE
    <3>1. p.assoc \in BOOLEAN  BY <2>4 DEF Agreed, Links, SuppKeys
    <3> QED BY <2>1, <3>1
  <2>9. p.gtk[g.idx] = g.key  BY <2>2, <2>3, <2>7, <2>8 DEF Shared, Served
  <2> QED BY <2>1, <2>9 DEF CurrentGtk
<1>2. Spec => []GroupInv  BY InitGroup, NextGroup, PTL DEF Spec
<1> QED BY <1>1, <1>2, PTL

=================================================================================
