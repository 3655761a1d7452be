----------------------------- MODULE WpaTimerProofs -----------------------------
(***************************************************************************)
(* The types of the handshake's state, and that the authenticator never    *)
(* waits for a station without a timeout, but after a Request for a group  *)
(* key: whatever else cancels all timeouts of a station also makes its     *)
(* machines move on.                                                       *)
(*                                                                         *)
(* wpa_receive cancels every timeout when it accepts an answer; the        *)
(* timeout handler uses one up.  The proof follows the station's record    *)
(* through wpa_sm_step.  Station says of the record, at every round of the *)
(* loop, that a machine which waits has a timeout pending, or that         *)
(* something is left to do: an accepted answer, an expired timeout, a      *)
(* request.  A Request for a group key cancels the timeouts and moves      *)
(* nothing: Excused says for how long that may show, until the machine     *)
(* leaves the state.  AtEase says that, when the loop ends, nothing is     *)
(* left.  There is one lemma per state entered (the ones named ...Made),   *)
(* one for each round, and then one for each event that starts the loop    *)
(* (Struck: a timeout, Received and Cancelled: an answer, ...).            *)
(*                                                                         *)
(* The hard case is the answer of a group key handshake that arrives       *)
(* during a pairwise handshake: it would cancel the timeouts and move      *)
(* neither machine.  Old excludes it: the replay counters of such frames   *)
(* on the way are no longer among the ones the authenticator accepts.      *)
(***************************************************************************)
EXTENDS WpaProofs

(* The states in which an answer is awaited; the states of the pairwise    *)
(* handshake; the states of both machines.                                 *)
Awaiting == {"PTKSTART", "PTKCALCNEGOTIATING", "PTKINITNEGOTIATING"}
Handshake == Awaiting \cup {"PTKCALCNEGOTIATING2"}
PtkStates ==
  {"INITIALIZE", "DISCONNECT", "DISCONNECTED", "AUTHENTICATION", "AUTHENTICATION2",
   "INITPSK", "PTKSTART", "PTKCALCNEGOTIATING", "PTKCALCNEGOTIATING2",
   "PTKINITNEGOTIATING", "PTKINITDONE"}
GroupStates == {"IDLE", "REKEYNEGOTIATING", "REKEYESTABLISHED", "KEYERROR"}

-----------------------------------------------------------------------------
(* The record of a station, as far as the timeouts depend on it.           *)
SmFlags(m) ==
  /\ m.ptk \in PtkStates /\ m.grp \in GroupStates
  /\ m.rx \in {"none", "pairwise", "group", "request", "grequest"}
  /\ m.TimeoutEvt \in BOOLEAN /\ m.MICVerified \in BOOLEAN
  /\ m.PtkGroupInit \in BOOLEAN /\ m.update_snonce \in BOOLEAN
  /\ m.PTK_valid \in BOOLEAN /\ m.rekey \in BOOLEAN
SmCounters(m) ==
  /\ m.ctr \in Nat /\ m.timers \in Nat /\ m.ANonce \in Nat
  /\ m.TimeoutCtr \in 0 .. PairwiseUpdateCount + 1
  /\ m.GTimeoutCtr \in 0 .. GroupUpdateCount + 1
SmWindow(m) ==
  /\ m.valid \subseteq Nat
  /\ \A i \in m.valid : i <= m.ctr /\ i + RSNA_MAX_EAPOL_RETRIES > m.ctr
SmTyped(m) == SmFlags(m) /\ SmCounters(m) /\ SmWindow(m)

(* Where the tries of a handshake start anew, and where some are left.     *)
TriesOK(m) ==
  /\ m.ptk \in {"INITIALIZE", "AUTHENTICATION2", "INITPSK", "PTKCALCNEGOTIATING2"}
       => m.TimeoutCtr = 0
  /\ m.ptk \in {"PTKCALCNEGOTIATING", "PTKINITDONE"} => m.TimeoutCtr <= PairwiseUpdateCount
  /\ m.grp = "IDLE" => m.GTimeoutCtr = 0
  /\ "PTK" \in m.requests => m.requests = {"PTK"} /\ m.TimeoutCtr <= PairwiseUpdateCount

(* A frame that was accepted is about to make a machine move.              *)
RxOK(m) ==
  /\ m.rx = "pairwise" =>
       /\ m.requests = {} /\ m.ptk \in {"PTKSTART", "PTKINITNEGOTIATING"}
       /\ m.TimeoutCtr <= PairwiseUpdateCount /\ m.TimeoutEvt = FALSE /\ m.valid = {}
       /\ m.ptk = "PTKINITNEGOTIATING" => m.update_snonce = TRUE \/ m.MICVerified = TRUE
  /\ m.rx = "group" =>
       /\ m.requests = {} /\ m.ptk = "PTKINITDONE" /\ m.grp = "REKEYNEGOTIATING"
       /\ m.MICVerified = TRUE /\ m.PtkGroupInit = FALSE
  /\ m.update_snonce = TRUE => m.rx = "pairwise" /\ m.ptk = "PTKINITNEGOTIATING"
  /\ m.ptk = "PTKCALCNEGOTIATING" => m.valid = {}

(* So is a timeout in a handshake.                                         *)
EvtOK(m) ==
  m.TimeoutEvt = TRUE /\ m.ptk \in Handshake =>
    /\ m.ptk \in Awaiting /\ m.requests = {} /\ m.rx # "pairwise"
    /\ m.ptk = "PTKCALCNEGOTIATING" => m.MICVerified = FALSE
    /\ m.ptk # "PTKCALCNEGOTIATING" => m.TimeoutCtr <= PairwiseUpdateCount

(* A group key handshake begins only where the pairwise one is complete.   *)
GrpOK(m) ==
  /\ m.grp = "IDLE" /\ m.GUpdateStationKeys = TRUE
       => m.ptk = "PTKINITDONE" /\ m.requests = {}
  /\ m.PtkGroupInit = TRUE => m.GUpdateStationKeys = FALSE
  /\ m.grp \in {"REKEYESTABLISHED", "KEYERROR"} => m.GUpdateStationKeys = FALSE

(* A valid key was made with the present ANonce.                           *)
KeyOK(m, r) ==
  /\ m.ANonce < r
  /\ m.PTK_valid = TRUE => m.PTK[2] = m.ANonce
  /\ ( \/ "ReAuthentication" \in m.requests \/ "PTK" \in m.requests
       \/ m.ptk \in {"INITIALIZE", "AUTHENTICATION", "AUTHENTICATION2", "INITPSK"} )
     => m.PTK_valid = FALSE
  /\ ( \/ m.PTK_valid = TRUE \/ m.rekey = TRUE \/ "PTK" \in m.requests
       \/ m.ptk \in Handshake \cup {"AUTHENTICATION2", "INITPSK", "PTKINITDONE"} )
     => m.ANonce > 0

(* The pairwise handshake waits, and nothing makes it move on.             *)
Waiting(m) ==
  /\ m.ptk \in Awaiting /\ m.TimeoutEvt = FALSE /\ m.requests = {}
  /\ m.ptk = "PTKCALCNEGOTIATING" => m.MICVerified = FALSE
  /\ m.ptk # "PTKCALCNEGOTIATING" =>
       /\ m.TimeoutCtr <= PairwiseUpdateCount
       /\ ~(m.rx = "pairwise" /\ m.MICVerified = TRUE)

(* A Request for a group key has cancelled the timeouts.                   *)
Excused(m) ==
  /\ m.PTK_valid = TRUE
  /\ m.rx = "grequest" \/ m.update_snonce = TRUE \/ m.ptk = "PTKCALCNEGOTIATING"
TimerOK(m) == Waiting(m) => m.timers > 0 \/ Excused(m)

(* The group key handshake waits (c: a pairwise handshake began meanwhile, *)
(* and its frames may have cancelled the timeout).                         *)
GroupWaits(m) ==
  /\ m.GTimeoutCtr <= GroupUpdateCount /\ m.TimeoutEvt = FALSE
  /\ m.rx # "group" /\ "PTK" \notin m.requests
GroupTimerOK(m, c) ==
  m.grp = "REKEYNEGOTIATING" /\ c = FALSE =>
    /\ m.ptk \notin Handshake
    /\ GroupWaits(m) => m.timers > 0 \/ m.rx = "grequest"

Station(m, c, r) ==
  /\ SmTyped(m) /\ TriesOK(m) /\ RxOK(m) /\ EvtOK(m) /\ GrpOK(m) /\ KeyOK(m, r)
  /\ TimerOK(m) /\ GroupTimerOK(m, c)

(* Neither machine moves.                                                  *)
Resting(m) == PtkTarget(m) = None /\ GroupTarget(m) = None

(* What WPA_PTK leaves to WPA_PTK_GROUP in a round.                        *)
Calm(m) ==
  /\ m.rx # "pairwise" /\ "PTK" \notin m.requests
  /\ m.ptk \in Handshake => m.TimeoutEvt = FALSE

(* A frame of the group key handshake on its way (f) is no answer to a     *)
(* pairwise handshake: its counter was given up before that handshake had  *)
(* its key, or its key is another one.                                     *)
Old(f, m, r) ==
  /\ f.rc \in Nat /\ f.mic[2] \in 1 .. r - 1
  /\ f.mic[2] = m.ANonce =>
       /\ "ReAuthentication" \notin m.requests => f.rc <= m.ctr
       /\ m.PTK_valid = TRUE /\ m.ptk \in Handshake => f.rc \notin m.valid
Ages(m, r, n, q) == \A f : Old(f, m, r) => Old(f, n, q)

DownFrame(f, m, r) ==
  /\ f = [msg |-> f.msg, rc |-> f.rc, mic |-> f.mic, gtk |-> f.gtk, nonce |-> f.nonce]
  /\ f.msg \in {"1/4", "3/4", "1/2", "deauth"}
  /\ f.msg = "1/2" => Old(f, m, r)
UpFrame(f, m, r) ==
  /\ f.msg = "2/2" => Old(f, m, r)
  /\ f.msg = "grequest" => f.nonce = NoNonce

Elements(queue) == {queue[i] : i \in DOMAIN queue}
DownOK(queue, m, r) ==
  queue \in Seq(Elements(queue)) /\ \A f \in Elements(queue) : DownFrame(f, m, r)
UpOK(queue, m, r) ==
  queue \in Seq(Elements(queue)) /\ \A f \in Elements(queue) : UpFrame(f, m, r)

(* What the entry functions are given, and what they make of it.           *)
Given(x, c) ==
  /\ XOK(x) /\ x.rand \in Nat
  /\ Station(x.sm, c, x.rand) /\ DownOK(x.out, x.sm, x.rand)
Made(x, y, c) ==
  /\ Given(y, c) /\ x.rand <= y.rand
  /\ Ages(x.sm, x.rand, y.sm, y.rand)

-----------------------------------------------------------------------------
(* Queues.                                                                 *)

(* A queue whose frames are in a set of good frames is good.               *)
LEMMA DownSet ==
  ASSUME NEW S, NEW q \in Seq(S), NEW m, NEW r, \A f \in S : DownFrame(f, m, r)
  PROVE  DownOK(q, m, r)
<1>1. Elements(q) \subseteq S /\ q \in Seq(Elements(q))  BY DEF Elements
<1> QED BY <1>1 DEF DownOK

(* The same for the frames of a station.                                   *)
LEMMA UpSet ==
  ASSUME NEW S, NEW q \in Seq(S), NEW m, NEW r, \A f \in S : UpFrame(f, m, r)
  PROVE  UpOK(q, m, r)
<1>1. Elements(q) \subseteq S /\ q \in Seq(Elements(q))  BY DEF Elements
<1> QED BY <1>1 DEF UpOK

(* A frame is appended.                                                    *)
LEMMA AppendDown ==
  ASSUME NEW q, NEW m, NEW r, DownOK(q, m, r), NEW f, DownFrame(f, m, r)
  PROVE  DownOK(Append(q, f), m, r)
<1>1. PICK S : S = Elements(q) \cup {f}  OBVIOUS
<1>2. Append(q, f) \in Seq(S)  BY <1>1 DEF DownOK
<1>3. \A g \in S : DownFrame(g, m, r)  BY <1>1 DEF DownOK
<1> QED BY <1>2, <1>3, DownSet

(* The link keeps frames and loses some: no more than CAP are under way.   *)
LEMMA PutSeq ==
  ASSUME NEW S, NEW q \in Seq(S), NEW p \in Seq(S)
  PROVE  Put(q, p) \in Seq(S) /\ Len(Put(q, p)) <= CAP
<1>1. PICK a : a = q \o p  OBVIOUS
<1>2. a \in Seq(S) /\ Len(a) \in Nat  BY <1>1
<1>3. PICK n : n = IF Len(a) < CAP THEN Len(a) ELSE CAP  OBVIOUS
<1>4. n \in 0 .. Len(a) /\ n <= CAP  BY <1>2, <1>3, HandshakeAssumption
<1>5. Put(q, p) = SubSeq(a, 1, n)  BY <1>1, <1>3 DEF Put
<1>6. SubSeq(a, 1, n) \in Seq(S) /\ Len(SubSeq(a, 1, n)) = n  BY <1>2, <1>4
<1> QED BY <1>4, <1>5, <1>6

(* Frames are sent.                                                        *)
LEMMA PutDown ==
  ASSUME NEW q, NEW p, NEW m, NEW r, DownOK(q, m, r), DownOK(p, m, r)
  PROVE  DownOK(Put(q, p), m, r) /\ Len(Put(q, p)) <= CAP
<1>1. PICK S : S = Elements(q) \cup Elements(p)  OBVIOUS
<1>2. q \in Seq(S) /\ p \in Seq(S)  BY <1>1 DEF DownOK
<1>3. \A f \in S : DownFrame(f, m, r)  BY <1>1 DEF DownOK
<1> QED BY <1>2, <1>3, PutSeq, DownSet

(* The same for the frames of a station.                                   *)
LEMMA PutUp ==
  ASSUME NEW q, NEW p, NEW m, NEW r, UpOK(q, m, r), UpOK(p, m, r)
  PROVE  UpOK(Put(q, p), m, r) /\ Len(Put(q, p)) <= CAP
<1>1. PICK S : S = Elements(q) \cup Elements(p)  OBVIOUS
<1>2. q \in Seq(S) /\ p \in Seq(S)  BY <1>1 DEF UpOK
<1>3. \A f \in S : UpFrame(f, m, r)  BY <1>1 DEF UpOK
<1> QED BY <1>2, <1>3, PutSeq, UpSet

(* A frame is taken.                                                       *)
LEMMA TailDown ==
  ASSUME NEW q, NEW m, NEW r, DownOK(q, m, r), q # <<>>, Len(q) <= CAP
  PROVE  DownOK(Tail(q), m, r) /\ Len(Tail(q)) <= CAP /\ DownFrame(Head(q), m, r)
<1>1. PICK S : S = Elements(q)  OBVIOUS
<1>2. q \in Seq(S)  BY <1>1 DEF DownOK
<1>3. Tail(q) \in Seq(S) /\ Len(Tail(q)) = Len(q) - 1 /\ Head(q) \in S /\ Len(q) \in Nat
  BY <1>2
<1>4. \A f \in S : DownFrame(f, m, r)  BY <1>1 DEF DownOK
<1>5. Len(Tail(q)) <= CAP  BY <1>3, HandshakeAssumption
<1> QED BY <1>3, <1>4, <1>5, DownSet

(* The same for the frames of a station.                                   *)
LEMMA TailUp ==
  ASSUME NEW q, NEW m, NEW r, UpOK(q, m, r), q # <<>>, Len(q) <= CAP
  PROVE  UpOK(Tail(q), m, r) /\ Len(Tail(q)) <= CAP /\ UpFrame(Head(q), m, r)
<1>1. PICK S : S = Elements(q)  OBVIOUS
<1>2. q \in Seq(S)  BY <1>1 DEF UpOK
<1>3. Tail(q) \in Seq(S) /\ Len(Tail(q)) = Len(q) - 1 /\ Head(q) \in S /\ Len(q) \in Nat
  BY <1>2
<1>4. \A f \in S : UpFrame(f, m, r)  BY <1>1 DEF UpOK
<1>5. Len(Tail(q)) <= CAP  BY <1>3, HandshakeAssumption
<1> QED BY <1>3, <1>4, <1>5, UpSet

(* The record of the station changes, and the frames stay harmless.        *)
LEMMA AgesDown ==
  ASSUME NEW q, NEW m, NEW r, NEW n, NEW p, DownOK(q, m, r), Ages(m, r, n, p)
  PROVE  DownOK(q, n, p)
<1>1. \A f \in Elements(q) : DownFrame(f, n, p)  BY DEF DownOK, DownFrame, Ages
<1> QED BY <1>1 DEF DownOK

(* The same for the frames of a station.                                   *)
LEMMA AgesUp ==
  ASSUME NEW q, NEW m, NEW r, NEW n, NEW p, UpOK(q, m, r), Ages(m, r, n, p)
  PROVE  UpOK(q, n, p)
<1>1. \A f \in Elements(q) : UpFrame(f, n, p)  BY DEF UpOK, UpFrame, Ages
<1> QED BY <1>1 DEF UpOK

-----------------------------------------------------------------------------
(* What the entry functions read and write of the record.                  *)

GroupPart(m, n) ==
  /\ n.grp = m.grp /\ n.PtkGroupInit = m.PtkGroupInit
  /\ n.GTimeoutCtr = m.GTimeoutCtr /\ n.GUpdateStationKeys = m.GUpdateStationKeys
RxPart(m, n) ==
  n.rx = m.rx /\ n.MICVerified = m.MICVerified /\ n.update_snonce = m.update_snonce
KeyPart(m, n) ==
  n.ANonce = m.ANonce /\ n.PTK = m.PTK /\ n.PTK_valid = m.PTK_valid /\ n.rekey = m.rekey
NoKeyPart(m, n) == n.ANonce = m.ANonce /\ n.PTK_valid = FALSE /\ n.rekey = FALSE
SentPart(m, n) == n.ctr = m.ctr /\ n.valid = m.valid /\ n.timers = m.timers
MoreSent(m, n) ==
  n.ctr = m.ctr + 1 /\ n.valid = Window(m.valid, m.ctr + 1) /\ n.timers = m.timers + 1

(* Which state of WPA_PTK is entered when.                                 *)
LEMMA PtkTargets ==
  ASSUME NEW m, SmOK(m), SmTyped(m), NEW t, t = PtkTarget(m)
  PROVE  /\ t = "INITIALIZE" => m.requests = {} /\ m.ptk = "DISCONNECTED"
         /\ t = "AUTHENTICATION2" =>
              \/ "ReAuthentication" \in m.requests
              \/ m.requests = {} /\ m.ptk = "AUTHENTICATION"
         /\ t = "INITPSK" => m.requests = {} /\ m.ptk = "AUTHENTICATION2"
         /\ t = "PTKSTART" =>
              \/ "PTK" \in m.requests
              \/ /\ m.requests = {}
                 /\ \/ m.ptk = "INITPSK"
                    \/ /\ m.ptk = "PTKSTART" /\ m.rx # "pairwise"
                       /\ m.TimeoutCtr <= PairwiseUpdateCount
                    \/ m.ptk = "PTKCALCNEGOTIATING" /\ m.rx # "pairwise"
         /\ t = "PTKCALCNEGOTIATING" =>
              /\ m.requests = {}
              /\ \/ m.ptk \in {"PTKSTART", "PTKCALCNEGOTIATING"} /\ m.rx = "pairwise"
                 \/ m.ptk = "PTKINITNEGOTIATING" /\ m.update_snonce = TRUE
         /\ t = "PTKCALCNEGOTIATING2" =>
              m.requests = {} /\ m.ptk = "PTKCALCNEGOTIATING" /\ m.MICVerified = TRUE
         /\ t = "PTKINITNEGOTIATING" =>
              /\ m.requests = {}
              /\ \/ m.ptk = "PTKCALCNEGOTIATING2"
                 \/ /\ m.ptk = "PTKINITNEGOTIATING" /\ m.update_snonce = FALSE
                    /\ ~(m.rx = "pairwise" /\ m.MICVerified = TRUE)
                    /\ m.TimeoutCtr <= PairwiseUpdateCount
         /\ t = "PTKINITDONE" =>
              /\ m.requests = {} /\ m.ptk = "PTKINITNEGOTIATING" /\ m.update_snonce = FALSE
              /\ m.rx = "pairwise" /\ m.MICVerified = TRUE
<1>1. "Disconnect" \in m.requests \/ "Deauthentication" \in m.requests
      \/ "Authentication" \in m.requests \/ "ReAuthentication" \in m.requests
      \/ "PTK" \in m.requests \/ m.requests = {}
  BY DEF SmOK, Reqs
<1>2. t = "INITIALIZE" => m.requests = {} /\ m.ptk = "DISCONNECTED"
  BY <1>1, WpaAssumption DEF PtkTarget, None, SmTyped, SmFlags, SmCounters, PtkStates
<1>3. t = "AUTHENTICATION2" =>
        \/ "ReAuthentication" \in m.requests
        \/ m.requests = {} /\ m.ptk = "AUTHENTICATION"
  BY <1>1, WpaAssumption DEF PtkTarget, None, SmTyped, SmFlags, SmCounters, PtkStates
<1>4. t = "INITPSK" => m.requests = {} /\ m.ptk = "AUTHENTICATION2"
  BY <1>1, WpaAssumption DEF PtkTarget, None, SmTyped, SmFlags, SmCounters, PtkStates
<1>5. t = "PTKSTART" =>
        \/ "PTK" \in m.requests
        \/ /\ m.requests = {}
           /\ \/ m.ptk = "INITPSK"
              \/ /\ m.ptk = "PTKSTART" /\ m.rx # "pairwise"
                 /\ m.TimeoutCtr <= PairwiseUpdateCount
              \/ m.ptk = "PTKCALCNEGOTIATING" /\ m.rx # "pairwise"
  BY <1>1, WpaAssumption DEF PtkTarget, None, SmTyped, SmFlags, SmCounters, PtkStates
<1>6. t = "PTKCALCNEGOTIATING" =>
        /\ m.requests = {}
        /\ \/ m.ptk \in {"PTKSTART", "PTKCALCNEGOTIATING"} /\ m.rx = "pairwise"
           \/ m.ptk = "PTKINITNEGOTIATING" /\ m.update_snonce = TRUE
  BY <1>1, WpaAssumption DEF PtkTarget, None, SmTyped, SmFlags, SmCounters, PtkStates
<1>7. t = "PTKCALCNEGOTIATING2" =>
        m.requests = {} /\ m.ptk = "PTKCALCNEGOTIATING" /\ m.MICVerified = TRUE
  BY <1>1, WpaAssumption DEF PtkTarget, None, SmTyped, SmFlags, SmCounters, PtkStates
<1>8. t = "PTKINITNEGOTIATING" =>
        /\ m.requests = {}
        /\ \/ m.ptk = "PTKCALCNEGOTIATING2"
           \/ /\ m.ptk = "PTKINITNEGOTIATING" /\ m.update_snonce = FALSE
              /\ ~(m.rx = "pairwise" /\ m.MICVerified = TRUE)
              /\ m.TimeoutCtr <= PairwiseUpdateCount
  BY <1>1, WpaAssumption DEF PtkTarget, None, SmTyped, SmFlags, SmCounters, PtkStates
<1>9. t = "PTKINITDONE" =>
        /\ m.requests = {} /\ m.ptk = "PTKINITNEGOTIATING" /\ m.update_snonce = FALSE
        /\ m.rx = "pairwise" /\ m.MICVerified = TRUE
  BY <1>1, WpaAssumption DEF PtkTarget, None, SmTyped, SmFlags, SmCounters, PtkStates
<1> QED BY <1>2, <1>3, <1>4, <1>5, <1>6, <1>7, <1>8, <1>9

(* What holds whenever WPA_PTK moves.                                      *)
LEMMA PtkMoves ==
  ASSUME NEW m, SmOK(m), NEW c, NEW r, Station(m, c, r), NEW t, t = PtkTarget(m), t # None
  PROVE  /\ m.rx # "group" /\ ~(m.grp = "IDLE" /\ m.GUpdateStationKeys = TRUE)
         /\ t # "PTKSTART" => "PTK" \notin m.requests
         /\ t \notin {"PTKCALCNEGOTIATING", "PTKINITDONE"}
              => m.rx # "pairwise" /\ m.update_snonce = FALSE
<1>1. SmTyped(m) /\ RxOK(m) /\ TriesOK(m) /\ GrpOK(m)  BY DEF Station
<1>2. ~(m.requests = {} /\ m.ptk = "PTKINITDONE")  BY DEF PtkTarget, None
<1>3. m.rx # "group" /\ ~(m.grp = "IDLE" /\ m.GUpdateStationKeys = TRUE)
  BY <1>1, <1>2 DEF RxOK, GrpOK
<1>4. t # "PTKSTART" => "PTK" \notin m.requests
  BY <1>1 DEF TriesOK, PtkTarget
<1>5. m.rx = "pairwise" => t \in {"PTKCALCNEGOTIATING", "PTKINITDONE"}
  BY <1>1 DEF RxOK, PtkTarget, SmTyped, SmFlags
<1>6. m.update_snonce = TRUE => m.rx = "pairwise"  BY <1>1 DEF RxOK
<1> QED BY <1>1, <1>3, <1>4, <1>5, <1>6 DEF SmTyped, SmFlags

(* The frame sent in the state m.                                          *)
SentFrame(f, m, msg) ==
  /\ f = [msg |-> f.msg, rc |-> f.rc, mic |-> f.mic, gtk |-> f.gtk, nonce |-> f.nonce]
  /\ f.msg = msg /\ f.rc = m.ctr + 1
  /\ msg # "1/4" => f.mic = m.PTK /\ m.PTK_valid

(* Sending a frame.                                                        *)
LEMMA SendEffect ==
  ASSUME NEW x, XOK(x), NEW msg, NEW gtk, NEW y, y = Send(x, msg, gtk)
  PROVE  /\ y.sm.ptk = x.sm.ptk /\ y.sm.requests = x.sm.requests
         /\ y.sm.TimeoutCtr = x.sm.TimeoutCtr /\ y.sm.TimeoutEvt = x.sm.TimeoutEvt
         /\ GroupPart(x.sm, y.sm) /\ RxPart(x.sm, y.sm) /\ KeyPart(x.sm, y.sm)
         /\ MoreSent(x.sm, y.sm)
         /\ y.rand = x.rand
         /\ \/ y.out = x.out
            \/ \E f : y.out = Append(x.out, f) /\ SentFrame(f, x.sm, msg)
<1>1. PICK m : m = x.sm  OBVIOUS
<1>2. SmShape(m)  BY <1>1 DEF XOK, SmOK
<1>3. y.sm = [m EXCEPT !.ctr = m.ctr + 1, !.valid = Window(m.valid, m.ctr + 1),
                       !.timers = m.timers + 1]
  BY <1>1, <1>2 DEF XOK, XShape, SmShape, Send
<1>4. PICK f : f = [msg |-> msg, rc |-> m.ctr + 1,
                    mic |-> IF msg = "1/4" THEN NoKey ELSE m.PTK, gtk |-> gtk,
                    nonce |-> IF msg = "1/2" THEN NoNonce ELSE m.ANonce]
  OBVIOUS
<1>5. /\ y.rand = x.rand
      /\ y.out = IF msg = "1/4" \/ m.PTK_valid THEN Append(x.out, f) ELSE x.out
  BY <1>1, <1>4 DEF XOK, XShape, Send
<1>6. /\ y.sm.ptk = m.ptk /\ y.sm.requests = m.requests
      /\ y.sm.TimeoutCtr = m.TimeoutCtr /\ y.sm.TimeoutEvt = m.TimeoutEvt
      /\ GroupPart(m, y.sm) /\ RxPart(m, y.sm) /\ KeyPart(m, y.sm) /\ MoreSent(m, y.sm)
  BY <1>2, <1>3 DEF SmShape, GroupPart, RxPart, KeyPart, MoreSent
<1>7. msg = "1/4" \/ m.PTK_valid => SentFrame(f, m, msg)  BY <1>4 DEF SentFrame
<1> QED BY <1>1, <1>5, <1>6, <1>7

(* The window of counters: none is later than the last one, and none is    *)
(* too old; only the one just sent is new.                                 *)
LEMMA WindowOK ==
  ASSUME NEW v, v \subseteq Nat, NEW k \in Nat, \A i \in v : i <= k, NEW w, w = Window(v, k + 1)
  PROVE  /\ w \subseteq Nat /\ w \subseteq v \cup {k + 1}
         /\ \A i \in w : i <= k + 1 /\ i + RSNA_MAX_EAPOL_RETRIES > k + 1
<1>1. \A i \in w : i \in v \cup {k + 1} /\ i + RSNA_MAX_EAPOL_RETRIES > k + 1
  BY DEF Window
<1>2. \A i \in v \cup {k + 1} : i \in Nat /\ i <= k + 1  OBVIOUS
<1> QED BY <1>1, <1>2

-----------------------------------------------------------------------------
(* Entering the states of WPA_PTK.  What a function leaves: a station in   *)
(* order and, for the group machine, calm.                                 *)
PtkMade(x, y, c) == Made(x, y, c) /\ Calm(y.sm)

(* A function that sends nothing.                                          *)
LEMMA QuietMade ==
  ASSUME NEW x, NEW y, NEW c, NEW d, Given(x, c), XOK(y), y.rand \in Nat, x.rand <= y.rand,
         y.out = x.out, Station(y.sm, d, y.rand), Ages(x.sm, x.rand, y.sm, y.rand)
  PROVE  Made(x, y, d)
BY AgesDown DEF Given, Made

(* The frames stay harmless if the nonce is the same and no key is valid.  *)
LEMMA AgesWithoutKey ==
  ASSUME NEW m, NEW n, NEW r \in Nat, NEW q \in Nat, r <= q, n.ANonce = m.ANonce, n.ctr = m.ctr,
         m.ctr \in Nat, "ReAuthentication" \notin n.requests => "ReAuthentication" \notin m.requests,
         n.PTK_valid = FALSE \/ n.ptk \notin Handshake
  PROVE  Ages(m, r, n, q)
BY DEF Ages, Old

(* INITIALIZE.                                                             *)
LEMMA InitializeMade ==
  ASSUME NEW x, NEW c, Given(x, c), PtkTarget(x.sm) = "INITIALIZE", NEW y, y = INITIALIZE(x)
  PROVE  PtkMade(x, y, c)
<1>1. PICK m, n : m = x.sm /\ n = y.sm  OBVIOUS
<1>2. SmOK(m) /\ SmShape(m) /\ Station(m, c, x.rand) /\ x.rand \in Nat
  BY <1>1 DEF Given, XOK, SmOK
<1>3. /\ n.ptk = "INITIALIZE" /\ n.requests = m.requests
      /\ n.TimeoutCtr = 0 /\ n.TimeoutEvt = m.TimeoutEvt
      /\ n.grp = m.grp /\ n.PtkGroupInit = m.PtkGroupInit /\ n.GTimeoutCtr = m.GTimeoutCtr
      /\ n.GUpdateStationKeys = FALSE
      /\ RxPart(m, n) /\ NoKeyPart(m, n) /\ SentPart(m, n)
      /\ y.rand = x.rand /\ y.out = x.out
  <2>1. PICK z : z = Discount(x)  OBVIOUS
  <2>2. XShape(z) /\ z.rand = x.rand /\ z.out = x.out
        /\ z.sm = [m EXCEPT !.GUpdateStationKeys = FALSE]
    BY <1>1, <2>1 DEF Given, XOK, XShape, Discount
  <2>3. PICK k : k = z.sm  OBVIOUS
  <2>4. y.sm = [[k EXCEPT !.PTK_valid = FALSE, !.PTK = NoKey, !.key = NoKey, !.rekey = FALSE]
                  EXCEPT !.ptk = "INITIALIZE", !.TimeoutCtr = 0]
        /\ y.rand = z.rand /\ y.out = z.out
    BY <2>1, <2>2, <2>3 DEF XShape, INITIALIZE, wpa_remove_ptk
  <2>5. n = [[[m EXCEPT !.GUpdateStationKeys = FALSE]
                EXCEPT !.PTK_valid = FALSE, !.PTK = NoKey, !.key = NoKey, !.rekey = FALSE]
                EXCEPT !.ptk = "INITIALIZE", !.TimeoutCtr = 0]
    BY <1>1, <2>2, <2>3, <2>4
  <2> QED BY <1>2, <2>2, <2>4, <2>5 DEF SmShape, RxPart, NoKeyPart, SentPart
<1>4. XOK(y)  BY InitializeKept DEF Kept, Given
<1>5. m.requests = {} /\ m.ptk = "DISCONNECTED" /\ m.rx # "group"
      /\ m.rx # "pairwise" /\ m.update_snonce = FALSE
  BY <1>1, <1>2, PtkTargets, PtkMoves DEF Station, None
<1>6. Station(n, c, x.rand)
  <2>1. /\ SmFlags(m) /\ SmCounters(m) /\ SmWindow(m) /\ TriesOK(m) /\ RxOK(m) /\ EvtOK(m)
        /\ GrpOK(m) /\ KeyOK(m, x.rand) /\ TimerOK(m) /\ GroupTimerOK(m, c)
    BY <1>2, <1>3, <1>5 DEF Station, SmTyped
  <2>2. SmFlags(n)
    BY <1>2, <1>3, <1>5, <2>1 DEF SmFlags, PtkStates, GroupStates, GroupPart, RxPart,
       KeyPart, NoKeyPart, SentPart
  <2>3. SmCounters(n)
    BY <1>2, <1>3, <1>5, <2>1, WpaAssumption DEF SmCounters, TriesOK, GroupPart, RxPart,
       KeyPart, NoKeyPart, SentPart
  <2>4. SmWindow(n)
    BY <1>2, <1>3, <1>5, <2>1 DEF SmWindow, SmCounters, GroupPart, RxPart, KeyPart,
       NoKeyPart, SentPart
  <2>5. TriesOK(n)
    BY <1>2, <1>3, <1>5, <2>1, WpaAssumption DEF TriesOK, SmCounters, GroupPart, RxPart,
       KeyPart, NoKeyPart, SentPart
  <2>6. RxOK(n)
    BY <1>2, <1>3, <1>5, <2>1, WpaAssumption DEF RxOK, SmFlags, SmCounters, GroupPart,
       RxPart, KeyPart, NoKeyPart, SentPart
  <2>7. EvtOK(n)
    BY <1>2, <1>3, <1>5, <2>1, WpaAssumption DEF EvtOK, SmCounters, Handshake, Awaiting,
       GroupPart, RxPart, KeyPart, NoKeyPart, SentPart
  <2>8. GrpOK(n)
    BY <1>2, <1>3, <1>5, <2>1 DEF GrpOK, GroupPart, RxPart, KeyPart, NoKeyPart, SentPart
  <2>9. KeyOK(n, x.rand)
    BY <1>2, <1>3, <1>5, <2>1 DEF KeyOK, SmFlags, SmCounters, Handshake, Awaiting,
       GroupPart, RxPart, KeyPart, NoKeyPart, SentPart
  <2>10. TimerOK(n)
    BY <1>2, <1>3, <1>5, <2>1, WpaAssumption DEF TimerOK, Waiting, Excused, Awaiting, TriesOK, RxOK,
       SmFlags, SmCounters, GroupPart, RxPart, KeyPart, NoKeyPart, SentPart
  <2>11. GroupTimerOK(n, c)
    BY <1>2, <1>3, <1>5, <2>1, WpaAssumption DEF GroupTimerOK, GroupWaits, Handshake,
       Awaiting, SmFlags, SmCounters, GroupPart, RxPart, KeyPart, NoKeyPart, SentPart
  <2> QED BY <2>2, <2>3, <2>4, <2>5, <2>6, <2>7, <2>8, <2>9, <2>10, <2>11
        DEF Station, SmTyped
<1>7. Ages(m, x.rand, n, x.rand)
  <2>1. n.ANonce = m.ANonce /\ n.ctr = m.ctr /\ m.ctr \in Nat /\ n.PTK_valid = FALSE
    BY <1>2, <1>3 DEF Station, SmTyped, SmCounters, NoKeyPart, SentPart
  <2>2. x.rand <= x.rand  BY <1>2
  <2>3. n.requests = m.requests  BY <1>3
  <2> QED BY <1>2, <2>1, <2>2, <2>3, AgesWithoutKey
<1>8. Calm(n)  BY <1>3, <1>5 DEF Calm, RxPart, Handshake, Awaiting
<1> QED BY <1>1, <1>2, <1>3, <1>4, <1>6, <1>7, <1>8, QuietMade DEF PtkMade

(* A function that sends one frame.                                        *)
LEMMA SentMade ==
  ASSUME NEW x, NEW y, NEW c, NEW d, Given(x, c), XOK(y), y.rand \in Nat, x.rand <= y.rand,
         NEW f, DownFrame(f, y.sm, y.rand), y.out = Append(x.out, f),
         Station(y.sm, d, y.rand), Ages(x.sm, x.rand, y.sm, y.rand)
  PROVE  Made(x, y, d)
<1>1. DownOK(x.out, y.sm, y.rand)  BY AgesDown DEF Given
<1> QED BY <1>1, AppendDown DEF Given, Made

(* A deauthentication frame is harmless.                                   *)
LEMMA DeauthGood ==
  ASSUME NEW m, NEW r
  PROVE  DownFrame(DeauthFrame, m, r)
BY DEF DownFrame, DeauthFrame

(* The disconnection of a station.                                         *)
LEMMA DisconnectEffect ==
  ASSUME NEW x, XOK(x), NEW y, y = wpa_sta_disconnect(x)
  PROVE  /\ y.sm.ptk = x.sm.ptk /\ y.sm.requests = x.sm.requests \cup {"Deauthentication"}
         /\ y.sm.TimeoutCtr = x.sm.TimeoutCtr /\ y.sm.TimeoutEvt = x.sm.TimeoutEvt
         /\ GroupPart(x.sm, y.sm) /\ RxPart(x.sm, y.sm) /\ NoKeyPart(x.sm, y.sm)
         /\ SentPart(x.sm, y.sm)
         /\ y.rand = x.rand /\ y.out = Append(x.out, DeauthFrame)
<1>1. PICK m : m = x.sm  OBVIOUS
<1>2. SmShape(m)  BY <1>1 DEF XOK, SmOK
<1>3. y.sm = [[m EXCEPT !.PTK_valid = FALSE, !.PTK = NoKey, !.key = NoKey, !.rekey = FALSE]
                EXCEPT !.requests = @ \cup {"Deauthentication"}, !.assoc = FALSE]
      /\ y.rand = x.rand /\ y.out = Append(x.out, DeauthFrame)
  BY <1>1 DEF XOK, XShape, wpa_sta_disconnect, wpa_remove_ptk
<1> QED BY <1>1, <1>2, <1>3 DEF SmShape, GroupPart, RxPart, NoKeyPart, SentPart

(* DISCONNECT.                                                             *)
LEMMA DisconnectMade ==
  ASSUME NEW x, NEW c, Given(x, c), PtkTarget(x.sm) = "DISCONNECT", NEW y, y = DISCONNECT(x)
  PROVE  PtkMade(x, y, c)
<1>1. PICK m, n : m = x.sm /\ n = y.sm  OBVIOUS
<1>2. SmOK(m) /\ SmShape(m) /\ Station(m, c, x.rand) /\ x.rand \in Nat
  BY <1>1 DEF Given, XOK, SmOK
<1>3. /\ n.ptk = "DISCONNECT"
      /\ n.requests = (m.requests \ {"Disconnect"}) \cup {"Deauthentication"}
      /\ n.TimeoutCtr = m.TimeoutCtr /\ n.TimeoutEvt = m.TimeoutEvt
      /\ GroupPart(m, n) /\ RxPart(m, n) /\ NoKeyPart(m, n) /\ SentPart(m, n)
      /\ y.rand = x.rand /\ y.out = Append(x.out, DeauthFrame)
  <2>1. PICK z : z = [x EXCEPT !.sm.ptk = "DISCONNECT", !.sm.requests = @ \ {"Disconnect"}]
    OBVIOUS
  <2>2. XShape(z) /\ z.rand = x.rand /\ z.out = x.out /\ z.done = x.done
        /\ z.sm = [m EXCEPT !.ptk = "DISCONNECT", !.requests = @ \ {"Disconnect"}]
    BY <1>1, <1>2, <2>1 DEF Given, XOK, XShape, SmShape
  <2>3. SmShape(z.sm) /\ z.sm.requests = m.requests \ {"Disconnect"} /\ z.sm.ptk = "DISCONNECT"
        /\ z.sm.TimeoutCtr = m.TimeoutCtr /\ z.sm.TimeoutEvt = m.TimeoutEvt
        /\ GroupPart(m, z.sm) /\ RxPart(m, z.sm) /\ KeyPart(m, z.sm) /\ SentPart(m, z.sm)
    <3>1. SmShape(z.sm)  BY <1>2, <2>2 DEF SmShape
    <3>2. z.sm.requests = m.requests \ {"Disconnect"} /\ z.sm.ptk = "DISCONNECT"
      BY <1>2, <2>2 DEF SmShape
    <3>3. z.sm.TimeoutCtr = m.TimeoutCtr /\ z.sm.TimeoutEvt = m.TimeoutEvt
          /\ GroupPart(m, z.sm)
      BY <1>2, <2>2 DEF SmShape, GroupPart
    <3>4. RxPart(m, z.sm) /\ KeyPart(m, z.sm)
      BY <1>2, <2>2 DEF SmShape, RxPart, KeyPart
    <3>5. SentPart(m, z.sm)
      BY <1>2, <2>2 DEF SmShape, SentPart
    <3> QED BY <3>1, <3>2, <3>3, <3>4, <3>5
  <2>4. XOK(z)
    BY <1>2, <2>2, <2>3 DEF Given, XOK, SmOK, GroupPart
  <2>5. y = wpa_sta_disconnect(z)  BY <2>1 DEF DISCONNECT
  <2>6. PICK k : k = z.sm  OBVIOUS
  <2>7. /\ n.ptk = k.ptk /\ n.requests = k.requests \cup {"Deauthentication"}
        /\ n.TimeoutCtr = k.TimeoutCtr /\ n.TimeoutEvt = k.TimeoutEvt
        /\ GroupPart(k, n) /\ RxPart(k, n) /\ NoKeyPart(k, n) /\ SentPart(k, n)
        /\ y.rand = z.rand /\ y.out = Append(z.out, DeauthFrame)
    BY <1>1, <2>4, <2>5, <2>6, DisconnectEffect
  <2> QED BY <2>2, <2>3, <2>6, <2>7 DEF GroupPart, RxPart, KeyPart, NoKeyPart, SentPart
<1>4. XOK(y)  BY DisconnectKept DEF Kept, Given
<1>5. m.rx # "group" /\ m.rx # "pairwise" /\ m.update_snonce = FALSE /\ "PTK" \notin m.requests
      /\ ~(m.grp = "IDLE" /\ m.GUpdateStationKeys = TRUE)
  BY <1>1, <1>2, PtkMoves DEF None
<1>6. Station(n, c, x.rand)
  <2>1. /\ SmFlags(m) /\ SmCounters(m) /\ SmWindow(m) /\ TriesOK(m) /\ RxOK(m) /\ EvtOK(m)
        /\ GrpOK(m) /\ KeyOK(m, x.rand) /\ TimerOK(m) /\ GroupTimerOK(m, c)
    BY <1>2, <1>3, <1>5 DEF Station, SmTyped
  <2>2. SmFlags(n)
    BY <1>2, <1>3, <1>5, <2>1 DEF SmFlags, PtkStates, GroupStates, GroupPart, RxPart,
       NoKeyPart, SentPart
  <2>3. SmCounters(n)
    BY <1>2, <1>3, <1>5, <2>1, WpaAssumption DEF SmCounters, TriesOK, GroupPart, RxPart,
       NoKeyPart, SentPart
  <2>4. SmWindow(n)
    BY <1>2, <1>3, <1>5, <2>1 DEF SmWindow, SmCounters, GroupPart, RxPart, NoKeyPart,
       SentPart
  <2>5. TriesOK(n)
    BY <1>2, <1>3, <1>5, <2>1, WpaAssumption DEF TriesOK, SmCounters, GroupPart, RxPart,
       NoKeyPart, SentPart
  <2>6. RxOK(n)
    BY <1>2, <1>3, <1>5, <2>1, WpaAssumption DEF RxOK, SmFlags, SmCounters, GroupPart,
       RxPart, NoKeyPart, SentPart
  <2>7. EvtOK(n)
    BY <1>2, <1>3, <1>5, <2>1, WpaAssumption DEF EvtOK, SmCounters, Handshake, Awaiting,
       GroupPart, RxPart, NoKeyPart, SentPart
  <2>8. GrpOK(n)
    BY <1>2, <1>3, <1>5, <2>1 DEF GrpOK, GroupPart, RxPart, NoKeyPart, SentPart
  <2>9. KeyOK(n, x.rand)
    BY <1>2, <1>3, <1>5, <2>1 DEF KeyOK, SmFlags, SmCounters, Handshake, Awaiting,
       GroupPart, RxPart, NoKeyPart, SentPart
  <2>10. TimerOK(n)
    BY <1>2, <1>3, <1>5, <2>1, WpaAssumption DEF TimerOK, Waiting, Excused, Awaiting, TriesOK, RxOK,
       SmFlags, SmCounters, GroupPart, RxPart, NoKeyPart, SentPart
  <2>11. GroupTimerOK(n, c)
    BY <1>2, <1>3, <1>5, <2>1, WpaAssumption DEF GroupTimerOK, GroupWaits, Handshake,
       Awaiting, SmFlags, SmCounters, GroupPart, RxPart, NoKeyPart, SentPart
  <2> QED BY <2>2, <2>3, <2>4, <2>5, <2>6, <2>7, <2>8, <2>9, <2>10, <2>11
        DEF Station, SmTyped
<1>7. Ages(m, x.rand, n, x.rand)
  <2>1. n.ANonce = m.ANonce /\ n.ctr = m.ctr /\ m.ctr \in Nat
        /\ (n.PTK_valid = FALSE \/ n.ptk \notin Handshake)
    BY <1>2, <1>3 DEF Station, SmTyped, SmCounters, Handshake, Awaiting, NoKeyPart, SentPart
  <2>2. x.rand <= x.rand  BY <1>2
  <2>3. "ReAuthentication" \notin n.requests => "ReAuthentication" \notin m.requests
    BY <1>2, <1>3 DEF SmOK, Reqs
  <2> QED BY <1>2, <2>1, <2>2, <2>3, AgesWithoutKey
<1>8. Calm(n)  BY <1>3, <1>5 DEF Calm, RxPart, Handshake, Awaiting
<1>9. y.rand \in Nat /\ x.rand <= y.rand /\ DownFrame(DeauthFrame, y.sm, y.rand)
  BY <1>2, <1>3, DeauthGood
<1> QED BY <1>1, <1>3, <1>4, <1>6, <1>7, <1>8, <1>9, SentMade DEF PtkMade

(* DISCONNECTED.                                                           *)
LEMMA DisconnectedMade ==
  ASSUME NEW x, NEW c, Given(x, c), PtkTarget(x.sm) = "DISCONNECTED", NEW y, y = DISCONNECTED(x)
  PROVE  PtkMade(x, y, c)
<1>1. PICK m, n : m = x.sm /\ n = y.sm  OBVIOUS
<1>2. SmOK(m) /\ SmShape(m) /\ Station(m, c, x.rand) /\ x.rand \in Nat
  BY <1>1 DEF Given, XOK, SmOK
<1>3. /\ n.ptk = "DISCONNECTED" /\ n.requests = m.requests \ {"Deauthentication"}
      /\ n.TimeoutCtr = m.TimeoutCtr /\ n.TimeoutEvt = m.TimeoutEvt
      /\ GroupPart(m, n) /\ RxPart(m, n) /\ KeyPart(m, n) /\ SentPart(m, n)
      /\ y.rand = x.rand /\ y.out = x.out
  <2>1. n = [m EXCEPT !.ptk = "DISCONNECTED", !.requests = @ \ {"Deauthentication"}]
        /\ y.rand = x.rand /\ y.out = x.out
    BY <1>1, <1>2 DEF Given, XOK, XShape, SmShape, DISCONNECTED
  <2> QED BY <1>2, <2>1 DEF SmShape, GroupPart, RxPart, KeyPart, SentPart
<1>4. XOK(y)  BY DisconnectedKept DEF Kept, Given
<1>5. m.rx # "group" /\ m.rx # "pairwise" /\ m.update_snonce = FALSE /\ "PTK" \notin m.requests
      /\ ~(m.grp = "IDLE" /\ m.GUpdateStationKeys = TRUE)
  BY <1>1, <1>2, PtkMoves DEF None
<1>6. Station(n, c, x.rand)
  <2>1. /\ SmFlags(m) /\ SmCounters(m) /\ SmWindow(m) /\ TriesOK(m) /\ RxOK(m) /\ EvtOK(m)
        /\ GrpOK(m) /\ KeyOK(m, x.rand) /\ TimerOK(m) /\ GroupTimerOK(m, c)
    BY <1>2, <1>3, <1>5 DEF Station, SmTyped
  <2>2. SmFlags(n)
    BY <1>2, <1>3, <1>5, <2>1 DEF SmFlags, PtkStates, GroupStates, GroupPart, RxPart,
       KeyPart, SentPart
  <2>3. SmCounters(n)
    BY <1>2, <1>3, <1>5, <2>1, WpaAssumption DEF SmCounters, TriesOK, GroupPart, RxPart,
       KeyPart, SentPart
  <2>4. SmWindow(n)
    BY <1>2, <1>3, <1>5, <2>1 DEF SmWindow, SmCounters, GroupPart, RxPart, KeyPart, SentPart
  <2>5. TriesOK(n)
    BY <1>2, <1>3, <1>5, <2>1, WpaAssumption DEF TriesOK, SmCounters, GroupPart, RxPart,
       KeyPart, SentPart
  <2>6. RxOK(n)
    BY <1>2, <1>3, <1>5, <2>1, WpaAssumption DEF RxOK, SmFlags, SmCounters, GroupPart,
       RxPart, KeyPart, SentPart
  <2>7. EvtOK(n)
    BY <1>2, <1>3, <1>5, <2>1, WpaAssumption DEF EvtOK, SmCounters, Handshake, Awaiting,
       GroupPart, RxPart, KeyPart, SentPart
  <2>8. GrpOK(n)
    BY <1>2, <1>3, <1>5, <2>1 DEF GrpOK, GroupPart, RxPart, KeyPart, SentPart
  <2>9. KeyOK(n, x.rand)
    BY <1>2, <1>3, <1>5, <2>1 DEF KeyOK, SmFlags, SmCounters, Handshake, Awaiting,
       GroupPart, RxPart, KeyPart, SentPart
  <2>10. TimerOK(n)
    BY <1>2, <1>3, <1>5, <2>1, WpaAssumption DEF TimerOK, Waiting, Excused, Awaiting, TriesOK, RxOK,
       SmFlags, SmCounters, GroupPart, RxPart, KeyPart, SentPart
  <2>11. GroupTimerOK(n, c)
    BY <1>2, <1>3, <1>5, <2>1, WpaAssumption DEF GroupTimerOK, GroupWaits, Handshake,
       Awaiting, SmFlags, SmCounters, GroupPart, RxPart, KeyPart, SentPart
  <2> QED BY <2>2, <2>3, <2>4, <2>5, <2>6, <2>7, <2>8, <2>9, <2>10, <2>11
        DEF Station, SmTyped
<1>7. Ages(m, x.rand, n, x.rand)
  <2>1. n.ANonce = m.ANonce /\ n.ctr = m.ctr /\ m.ctr \in Nat
        /\ (n.PTK_valid = FALSE \/ n.ptk \notin Handshake)
    BY <1>2, <1>3 DEF Station, SmTyped, SmCounters, Handshake, Awaiting, KeyPart, SentPart
  <2>2. x.rand <= x.rand  BY <1>2
  <2>3. "ReAuthentication" \notin n.requests => "ReAuthentication" \notin m.requests
    BY <1>2, <1>3 DEF SmOK, Reqs
  <2> QED BY <1>2, <2>1, <2>2, <2>3, AgesWithoutKey
<1>8. Calm(n)  BY <1>3, <1>5 DEF Calm, RxPart, Handshake, Awaiting
<1> QED BY <1>1, <1>2, <1>3, <1>4, <1>6, <1>7, <1>8, QuietMade DEF PtkMade

(* AUTHENTICATION.                                                         *)
LEMMA AuthenticationMade ==
  ASSUME NEW x, NEW c, Given(x, c), PtkTarget(x.sm) = "AUTHENTICATION",
         NEW y, y = AUTHENTICATION(x)
  PROVE  PtkMade(x, y, c)
<1>1. PICK m, n : m = x.sm /\ n = y.sm  OBVIOUS
<1>2. SmOK(m) /\ SmShape(m) /\ Station(m, c, x.rand) /\ x.rand \in Nat
  BY <1>1 DEF Given, XOK, SmOK
<1>3. /\ n.ptk = "AUTHENTICATION" /\ n.requests = m.requests \ {"Authentication"}
      /\ n.TimeoutCtr = m.TimeoutCtr /\ n.TimeoutEvt = m.TimeoutEvt
      /\ GroupPart(m, n) /\ RxPart(m, n) /\ SentPart(m, n)
      /\ n.ANonce = m.ANonce /\ n.PTK_valid = FALSE /\ n.rekey = m.rekey
      /\ y.rand = x.rand /\ y.out = x.out
  <2>1. n = [m EXCEPT !.ptk = "AUTHENTICATION", !.PTK = NoKey, !.PTK_valid = FALSE,
                      !.requests = @ \ {"Authentication"}]
        /\ y.rand = x.rand /\ y.out = x.out
    BY <1>1, <1>2 DEF Given, XOK, XShape, SmShape, AUTHENTICATION
  <2> QED BY <1>2, <2>1 DEF SmShape, GroupPart, RxPart, SentPart
<1>4. XOK(y)  BY AuthenticationKept DEF Kept, Given
<1>5. m.rx # "group" /\ m.rx # "pairwise" /\ m.update_snonce = FALSE /\ "PTK" \notin m.requests
      /\ ~(m.grp = "IDLE" /\ m.GUpdateStationKeys = TRUE)
  BY <1>1, <1>2, PtkMoves DEF None
<1>6. Station(n, c, x.rand)
  <2>1. /\ SmFlags(m) /\ SmCounters(m) /\ SmWindow(m) /\ TriesOK(m) /\ RxOK(m) /\ EvtOK(m)
        /\ GrpOK(m) /\ KeyOK(m, x.rand) /\ TimerOK(m) /\ GroupTimerOK(m, c)
    BY <1>2, <1>3, <1>5 DEF Station, SmTyped
  <2>2. SmFlags(n)
    BY <1>2, <1>3, <1>5, <2>1 DEF SmFlags, PtkStates, GroupStates, GroupPart, RxPart,
       SentPart
  <2>3. SmCounters(n)
    BY <1>2, <1>3, <1>5, <2>1, WpaAssumption DEF SmCounters, TriesOK, GroupPart, RxPart,
       SentPart
  <2>4. SmWindow(n)
    BY <1>2, <1>3, <1>5, <2>1 DEF SmWindow, SmCounters, GroupPart, RxPart, SentPart
  <2>5. TriesOK(n)
    BY <1>2, <1>3, <1>5, <2>1, WpaAssumption DEF TriesOK, SmCounters, GroupPart, RxPart,
       SentPart
  <2>6. RxOK(n)
    BY <1>2, <1>3, <1>5, <2>1, WpaAssumption DEF RxOK, SmFlags, SmCounters, GroupPart,
       RxPart, SentPart
  <2>7. EvtOK(n)
    BY <1>2, <1>3, <1>5, <2>1, WpaAssumption DEF EvtOK, SmCounters, Handshake, Awaiting,
       GroupPart, RxPart, SentPart
  <2>8. GrpOK(n)
    BY <1>2, <1>3, <1>5, <2>1 DEF GrpOK, GroupPart, RxPart, SentPart
  <2>9. KeyOK(n, x.rand)
    BY <1>2, <1>3, <1>5, <2>1 DEF KeyOK, SmFlags, SmCounters, Handshake, Awaiting,
       GroupPart, RxPart, SentPart
  <2>10. TimerOK(n)
    BY <1>2, <1>3, <1>5, <2>1, WpaAssumption DEF TimerOK, Waiting, Excused, Awaiting, TriesOK, RxOK,
       SmFlags, SmCounters, GroupPart, RxPart, SentPart
  <2>11. GroupTimerOK(n, c)
    BY <1>2, <1>3, <1>5, <2>1, WpaAssumption DEF GroupTimerOK, GroupWaits, Handshake,
       Awaiting, SmFlags, SmCounters, GroupPart, RxPart, SentPart
  <2> QED BY <2>2, <2>3, <2>4, <2>5, <2>6, <2>7, <2>8, <2>9, <2>10, <2>11
        DEF Station, SmTyped
<1>7. Ages(m, x.rand, n, x.rand)
  <2>1. n.ANonce = m.ANonce /\ n.ctr = m.ctr /\ m.ctr \in Nat
        /\ (n.PTK_valid = FALSE \/ n.ptk \notin Handshake)
    BY <1>2, <1>3 DEF Station, SmTyped, SmCounters, Handshake, Awaiting, SentPart
  <2>2. x.rand <= x.rand  BY <1>2
  <2>3. "ReAuthentication" \notin n.requests => "ReAuthentication" \notin m.requests
    BY <1>2, <1>3 DEF SmOK, Reqs
  <2> QED BY <1>2, <2>1, <2>2, <2>3, AgesWithoutKey
<1>8. Calm(n)  BY <1>3, <1>5 DEF Calm, RxPart, Handshake, Awaiting
<1> QED BY <1>1, <1>2, <1>3, <1>4, <1>6, <1>7, <1>8, QuietMade DEF PtkMade

(* AUTHENTICATION2: with the new nonce no frame on its way can be verified. *)
LEMMA Authentication2Made ==
  ASSUME NEW x, NEW c, Given(x, c), PtkTarget(x.sm) = "AUTHENTICATION2",
         NEW y, y = AUTHENTICATION2(x)
  PROVE  PtkMade(x, y, c)
<1>1. PICK m, n : m = x.sm /\ n = y.sm  OBVIOUS
<1>2. SmOK(m) /\ SmShape(m) /\ Station(m, c, x.rand) /\ x.rand \in Nat
  BY <1>1 DEF Given, XOK, SmOK
<1>3. /\ n.ptk = "AUTHENTICATION2" /\ n.requests = m.requests \ {"ReAuthentication"}
      /\ n.TimeoutCtr = 0 /\ n.TimeoutEvt = m.TimeoutEvt
      /\ GroupPart(m, n) /\ RxPart(m, n) /\ SentPart(m, n)
      /\ n.ANonce = x.rand /\ n.PTK = m.PTK /\ n.PTK_valid = m.PTK_valid /\ n.rekey = m.rekey
      /\ y.rand = x.rand + 1 /\ y.out = x.out
  <2>1. n = [m EXCEPT !.ptk = "AUTHENTICATION2", !.ANonce = x.rand,
                      !.TimeoutCtr = 0, !.requests = @ \ {"ReAuthentication"}]
        /\ y.rand = x.rand + 1 /\ y.out = x.out
    BY <1>1, <1>2 DEF Given, XOK, XShape, SmShape, AUTHENTICATION2
  <2> QED BY <1>2, <2>1 DEF SmShape, GroupPart, RxPart, SentPart
<1>4. XOK(y)  BY Authentication2Kept DEF Kept, Given
<1>5. m.rx # "group" /\ m.rx # "pairwise" /\ m.update_snonce = FALSE /\ "PTK" \notin m.requests
      /\ ~(m.grp = "IDLE" /\ m.GUpdateStationKeys = TRUE)
      /\ \/ "ReAuthentication" \in m.requests
         \/ m.requests = {} /\ m.ptk = "AUTHENTICATION"
  BY <1>1, <1>2, PtkMoves, PtkTargets DEF None, Station
<1>10. m.PTK_valid = FALSE /\ x.rand > 0
  <2>1. KeyOK(m, x.rand) /\ m.ANonce \in Nat  BY <1>2 DEF Station, SmTyped, SmCounters
  <2>2. m.PTK_valid = FALSE  BY <1>5, <2>1 DEF KeyOK
  <2>3. x.rand > 0  BY <1>2, <2>1 DEF KeyOK
  <2> QED BY <2>2, <2>3
<1>6. Station(n, c, y.rand)
  <2>1. /\ SmFlags(m) /\ SmCounters(m) /\ SmWindow(m) /\ TriesOK(m) /\ RxOK(m) /\ EvtOK(m)
        /\ GrpOK(m) /\ KeyOK(m, x.rand) /\ TimerOK(m) /\ GroupTimerOK(m, c)
    BY <1>2, <1>3, <1>5, <1>10 DEF Station, SmTyped
  <2>2. SmFlags(n)
    BY <1>2, <1>3, <1>5, <1>10, <2>1 DEF SmFlags, PtkStates, GroupStates, GroupPart,
       RxPart, SentPart
  <2>3. SmCounters(n)
    BY <1>2, <1>3, <1>5, <1>10, <2>1, WpaAssumption DEF SmCounters, TriesOK, GroupPart,
       RxPart, SentPart
  <2>4. SmWindow(n)
    BY <1>2, <1>3, <1>5, <1>10, <2>1 DEF SmWindow, SmCounters, GroupPart, RxPart, SentPart
  <2>5. TriesOK(n)
    BY <1>2, <1>3, <1>5, <1>10, <2>1, WpaAssumption DEF TriesOK, SmCounters, GroupPart,
       RxPart, SentPart
  <2>6. RxOK(n)
    BY <1>2, <1>3, <1>5, <1>10, <2>1, WpaAssumption DEF RxOK, SmFlags, SmCounters,
       GroupPart, RxPart, SentPart
  <2>7. EvtOK(n)
    BY <1>2, <1>3, <1>5, <1>10, <2>1, WpaAssumption DEF EvtOK, SmCounters, Handshake,
       Awaiting, GroupPart, RxPart, SentPart
  <2>8. GrpOK(n)
    BY <1>2, <1>3, <1>5, <1>10, <2>1 DEF GrpOK, GroupPart, RxPart, SentPart
  <2>9. KeyOK(n, y.rand)
    BY <1>2, <1>3, <1>5, <1>10, <2>1 DEF KeyOK, SmFlags, SmCounters, Handshake, Awaiting,
       GroupPart, RxPart, SentPart
  <2>10. TimerOK(n)
    BY <1>2, <1>3, <1>5, <1>10, <2>1, WpaAssumption DEF TimerOK, Waiting, Excused, Awaiting,
       TriesOK, RxOK, SmFlags, SmCounters, GroupPart, RxPart, SentPart
  <2>11. GroupTimerOK(n, c)
    BY <1>2, <1>3, <1>5, <1>10, <2>1, WpaAssumption DEF GroupTimerOK, GroupWaits,
       Handshake, Awaiting, SmFlags, SmCounters, GroupPart, RxPart, SentPart
  <2> QED BY <2>2, <2>3, <2>4, <2>5, <2>6, <2>7, <2>8, <2>9, <2>10, <2>11
        DEF Station, SmTyped
<1>7. Ages(m, x.rand, n, y.rand)
  BY <1>2, <1>3 DEF Ages, Old
<1>8. Calm(n)  BY <1>3, <1>5 DEF Calm, RxPart, Handshake, Awaiting
<1>9. y.rand \in Nat /\ x.rand <= y.rand  BY <1>2, <1>3
<1> QED BY <1>1, <1>3, <1>4, <1>6, <1>7, <1>8, <1>9, QuietMade DEF PtkMade

(* INITPSK.                                                                *)
LEMMA InitpskMade ==
  ASSUME NEW x, NEW c, Given(x, c), PtkTarget(x.sm) = "INITPSK", NEW y, y = INITPSK(x)
  PROVE  PtkMade(x, y, c)
<1>1. PICK m, n : m = x.sm /\ n = y.sm  OBVIOUS
<1>2. SmOK(m) /\ SmShape(m) /\ Station(m, c, x.rand) /\ x.rand \in Nat
  BY <1>1 DEF Given, XOK, SmOK
<1>3. /\ n.ptk = "INITPSK" /\ n.requests = m.requests
      /\ n.TimeoutCtr = m.TimeoutCtr /\ n.TimeoutEvt = m.TimeoutEvt
      /\ GroupPart(m, n) /\ RxPart(m, n) /\ KeyPart(m, n) /\ SentPart(m, n)
      /\ y.rand = x.rand /\ y.out = x.out
  <2>1. n = [m EXCEPT !.ptk = "INITPSK", !.req_counter = 0]
        /\ y.rand = x.rand /\ y.out = x.out
    BY <1>1, <1>2 DEF Given, XOK, XShape, SmShape, INITPSK
  <2> QED BY <1>2, <2>1 DEF SmShape, GroupPart, RxPart, KeyPart, SentPart
<1>4. XOK(y)  BY InitpskKept DEF Kept, Given
<1>5. m.rx # "group" /\ m.rx # "pairwise" /\ m.update_snonce = FALSE
      /\ ~(m.grp = "IDLE" /\ m.GUpdateStationKeys = TRUE)
      /\ m.requests = {} /\ m.ptk = "AUTHENTICATION2"
  BY <1>1, <1>2, PtkMoves, PtkTargets DEF None, Station
<1>6. Station(n, c, x.rand)
  <2>1. /\ SmFlags(m) /\ SmCounters(m) /\ SmWindow(m) /\ TriesOK(m) /\ RxOK(m) /\ EvtOK(m)
        /\ GrpOK(m) /\ KeyOK(m, x.rand) /\ TimerOK(m) /\ GroupTimerOK(m, c)
    BY <1>2, <1>3, <1>5 DEF Station, SmTyped
  <2>2. SmFlags(n)
    BY <1>2, <1>3, <1>5, <2>1 DEF SmFlags, PtkStates, GroupStates, GroupPart, RxPart,
       KeyPart, SentPart
  <2>3. SmCounters(n)
    BY <1>2, <1>3, <1>5, <2>1, WpaAssumption DEF SmCounters, TriesOK, GroupPart, RxPart,
       KeyPart, SentPart
  <2>4. SmWindow(n)
    BY <1>2, <1>3, <1>5, <2>1 DEF SmWindow, SmCounters, GroupPart, RxPart, KeyPart, SentPart
  <2>5. TriesOK(n)
    BY <1>2, <1>3, <1>5, <2>1, WpaAssumption DEF TriesOK, SmCounters, GroupPart, RxPart,
       KeyPart, SentPart
  <2>6. RxOK(n)
    BY <1>2, <1>3, <1>5, <2>1, WpaAssumption DEF RxOK, SmFlags, SmCounters, GroupPart,
       RxPart, KeyPart, SentPart
  <2>7. EvtOK(n)
    BY <1>2, <1>3, <1>5, <2>1, WpaAssumption DEF EvtOK, SmCounters, Handshake, Awaiting,
       GroupPart, RxPart, KeyPart, SentPart
  <2>8. GrpOK(n)
    BY <1>2, <1>3, <1>5, <2>1 DEF GrpOK, GroupPart, RxPart, KeyPart, SentPart
  <2>9. KeyOK(n, x.rand)
    BY <1>2, <1>3, <1>5, <2>1 DEF KeyOK, SmFlags, SmCounters, Handshake, Awaiting,
       GroupPart, RxPart, KeyPart, SentPart
  <2>10. TimerOK(n)
    BY <1>2, <1>3, <1>5, <2>1, WpaAssumption DEF TimerOK, Waiting, Excused, Awaiting, TriesOK, RxOK,
       SmFlags, SmCounters, GroupPart, RxPart, KeyPart, SentPart
  <2>11. GroupTimerOK(n, c)
    BY <1>2, <1>3, <1>5, <2>1, WpaAssumption DEF GroupTimerOK, GroupWaits, Handshake,
       Awaiting, SmFlags, SmCounters, GroupPart, RxPart, KeyPart, SentPart
  <2> QED BY <2>2, <2>3, <2>4, <2>5, <2>6, <2>7, <2>8, <2>9, <2>10, <2>11
        DEF Station, SmTyped
<1>7. Ages(m, x.rand, n, x.rand)
  <2>1. n.ANonce = m.ANonce /\ n.ctr = m.ctr /\ m.ctr \in Nat
        /\ (n.PTK_valid = FALSE \/ n.ptk \notin Handshake)
    BY <1>2, <1>3 DEF Station, SmTyped, SmCounters, Handshake, Awaiting, KeyPart, SentPart
  <2>2. x.rand <= x.rand  BY <1>2
  <2>3. "ReAuthentication" \notin n.requests => "ReAuthentication" \notin m.requests
    BY <1>2, <1>3 DEF SmOK, Reqs
  <2> QED BY <1>2, <2>1, <2>2, <2>3, AgesWithoutKey
<1>8. Calm(n)  BY <1>3, <1>5 DEF Calm, RxPart, Handshake, Awaiting
<1> QED BY <1>1, <1>2, <1>3, <1>4, <1>6, <1>7, <1>8, QuietMade DEF PtkMade

(* Nothing is sent, or one frame.                                          *)
Sent(m, n) == SentPart(m, n) \/ MoreSent(m, n)

(* The window moves on with what is sent.                                  *)
LEMMA SentWindow ==
  ASSUME NEW m, NEW n, SmCounters(m), SmWindow(m), Sent(m, n)
  PROVE  /\ SmWindow(n) /\ n.ctr \in Nat /\ m.ctr <= n.ctr /\ n.timers \in Nat
         /\ n.valid \subseteq m.valid \cup {m.ctr + 1}
<1>1. CASE SentPart(m, n)  BY <1>1 DEF SentPart, SmCounters, SmWindow
<1>2. CASE MoreSent(m, n)
  <2>1. n.ctr = m.ctr + 1 /\ n.timers \in Nat /\ m.ctr \in Nat
    BY <1>2 DEF MoreSent, SmCounters
  <2>2. SmWindow(n) /\ n.valid \subseteq m.valid \cup {m.ctr + 1}
    BY <1>2, <2>1, WindowOK DEF MoreSent, SmWindow
  <2> QED BY <2>1, <2>2
<1> QED BY <1>1, <1>2 DEF Sent

(* A frame sent in a handshake makes no older frame an answer.             *)
LEMMA AgesSent ==
  ASSUME NEW m, NEW n, NEW r, SmCounters(m), SmWindow(m), Sent(m, n), KeyPart(m, n),
         "ReAuthentication" \notin m.requests,
         m.PTK_valid = TRUE => m.ptk \in Handshake
  PROVE  Ages(m, r, n, r)
<1> SUFFICES ASSUME NEW f, Old(f, m, r) PROVE Old(f, n, r)  BY DEF Ages
<1>1. n.ANonce = m.ANonce /\ n.PTK_valid = m.PTK_valid  BY DEF KeyPart
<1>2. n.ctr \in Nat /\ m.ctr \in Nat /\ m.ctr <= n.ctr
      /\ n.valid \subseteq m.valid \cup {m.ctr + 1}
  BY SentWindow DEF SmCounters
<1>3. f.mic[2] = m.ANonce => f.rc <= n.ctr  BY <1>2 DEF Old
<1>4. ASSUME f.mic[2] = m.ANonce, n.PTK_valid = TRUE PROVE f.rc \notin n.valid
  <2>1. f.rc \notin m.valid /\ f.rc <= m.ctr /\ f.rc \in Nat
    BY <1>1, <1>4 DEF Old
  <2> QED BY <1>2, <2>1
<1>5. f.mic[2] = m.ANonce /\ n.PTK_valid = TRUE => f.rc \notin n.valid  BY <1>4
<1> QED BY <1>1, <1>3, <1>5 DEF Old

(* PTKSTART: the group machine has not yet seen that it began.             *)
LEMMA PtkstartMade ==
  ASSUME NEW x, NEW c, Given(x, c), PtkTarget(x.sm) = "PTKSTART", NEW y, y = PTKSTART(x)
  PROVE  PtkMade(x, y, TRUE) /\ y.sm.ptk = "PTKSTART"
<1>1. PICK m, n : m = x.sm /\ n = y.sm  OBVIOUS
<1>2. SmOK(m) /\ SmShape(m) /\ Station(m, c, x.rand) /\ x.rand \in Nat
  BY <1>1 DEF Given, XOK, SmOK
<1>3. /\ n.ptk = "PTKSTART" /\ n.requests = m.requests \ {"PTK"}
      /\ n.TimeoutCtr = m.TimeoutCtr + 1 /\ n.TimeoutEvt = FALSE
      /\ GroupPart(m, n) /\ RxPart(m, n) /\ KeyPart(m, n)
      /\ y.rand = x.rand
      /\ \/ SentPart(m, n) /\ n.TimeoutCtr > PairwiseUpdateCount /\ y.out = x.out
         \/ /\ MoreSent(m, n)
            /\ \/ y.out = x.out
               \/ \E f : y.out = Append(x.out, f) /\ DownFrame(f, y.sm, y.rand)
  <2>1. PICK z : z = [x EXCEPT !.sm = [x.sm EXCEPT
              !.ptk = "PTKSTART", !.requests = @ \ {"PTK"}, !.TimeoutEvt = FALSE,
              !.alt_SNonce = NoNonce, !.TimeoutCtr = @ + 1]]
    OBVIOUS
  <2>2. XShape(z) /\ z.rand = x.rand /\ z.out = x.out /\ z.done = x.done
        /\ z.sm = [m EXCEPT !.ptk = "PTKSTART", !.requests = @ \ {"PTK"},
                    !.TimeoutEvt = FALSE, !.alt_SNonce = NoNonce, !.TimeoutCtr = @ + 1]
    BY <1>1, <1>2, <2>1 DEF Given, XOK, XShape, SmShape
  <2>3. PICK k : k = z.sm  OBVIOUS
  <2>4. SmShape(k) /\ k.requests = m.requests \ {"PTK"} /\ k.ptk = "PTKSTART"
        /\ k.TimeoutCtr = m.TimeoutCtr + 1 /\ k.TimeoutEvt = FALSE
        /\ GroupPart(m, k) /\ RxPart(m, k) /\ KeyPart(m, k) /\ SentPart(m, k)
    <3>1. k = [m EXCEPT !.ptk = "PTKSTART", !.requests = @ \ {"PTK"},
                    !.TimeoutEvt = FALSE, !.alt_SNonce = NoNonce, !.TimeoutCtr = @ + 1]
      BY <2>2, <2>3
    <3> QED BY <1>2, <3>1 DEF SmShape, GroupPart, RxPart, KeyPart, SentPart
  <2>5. XOK(z)
    BY <1>2, <2>2, <2>3, <2>4 DEF Given, XOK, SmOK, GroupPart
  <2>6. CASE k.TimeoutCtr > PairwiseUpdateCount
    <3>1. y = z  BY <2>1, <2>3, <2>6 DEF PTKSTART
    <3> QED BY <1>1, <2>2, <2>3, <2>4, <2>6, <3>1
  <2>7. CASE ~(k.TimeoutCtr > PairwiseUpdateCount)
    <3>1. y = Send(z, "1/4", {})  BY <2>1, <2>3, <2>7 DEF PTKSTART
    <3>2. /\ n.ptk = k.ptk /\ n.requests = k.requests
          /\ n.TimeoutCtr = k.TimeoutCtr /\ n.TimeoutEvt = k.TimeoutEvt
          /\ GroupPart(k, n) /\ RxPart(k, n) /\ KeyPart(k, n) /\ MoreSent(k, n)
          /\ y.rand = z.rand
          /\ \/ y.out = z.out
             \/ \E f : y.out = Append(z.out, f) /\ SentFrame(f, k, "1/4")
      BY <1>1, <2>3, <2>5, <3>1, SendEffect
    <3>3. MoreSent(m, n)  BY <2>4, <3>2 DEF MoreSent, SentPart
    <3>4. /\ n.ptk = "PTKSTART" /\ n.requests = m.requests \ {"PTK"}
          /\ n.TimeoutCtr = m.TimeoutCtr + 1 /\ n.TimeoutEvt = FALSE
          /\ GroupPart(m, n) /\ RxPart(m, n) /\ KeyPart(m, n) /\ y.rand = x.rand
      BY <2>2, <2>4, <3>2 DEF GroupPart, RxPart, KeyPart
    <3>5. \/ y.out = x.out
          \/ \E f : y.out = Append(x.out, f) /\ DownFrame(f, y.sm, y.rand)
      BY <2>2, <3>2 DEF DownFrame, SentFrame
    <3> QED BY <3>3, <3>4, <3>5
  <2> QED BY <2>6, <2>7
<1>4. XOK(y)  BY PtkstartKept DEF Kept, Given
<1>5. m.rx # "group" /\ m.rx # "pairwise" /\ m.update_snonce = FALSE /\ n.requests = {}
      /\ "ReAuthentication" \notin m.requests /\ ~(m.grp = "IDLE" /\ m.GUpdateStationKeys = TRUE)
      /\ m.TimeoutCtr <= PairwiseUpdateCount
      /\ \/ "PTK" \in m.requests
         \/ m.requests = {} /\ m.ptk \in {"INITPSK", "PTKSTART", "PTKCALCNEGOTIATING"}
  <2>1. m.rx # "group" /\ m.rx # "pairwise" /\ m.update_snonce = FALSE
        /\ ~(m.grp = "IDLE" /\ m.GUpdateStationKeys = TRUE)
    BY <1>1, <1>2, PtkMoves DEF None
  <2>2. \/ "PTK" \in m.requests
        \/ /\ m.requests = {}
           /\ \/ m.ptk = "INITPSK" \/ m.ptk = "PTKCALCNEGOTIATING"
              \/ m.ptk = "PTKSTART" /\ m.TimeoutCtr <= PairwiseUpdateCount
    BY <1>1, <1>2, PtkTargets DEF Station
  <2>3. TriesOK(m)  BY <1>2 DEF Station
  <2>4. n.requests = {} /\ "ReAuthentication" \notin m.requests
    BY <1>3, <2>2, <2>3 DEF TriesOK
  <2>5. m.TimeoutCtr <= PairwiseUpdateCount  BY <2>2, <2>3, WpaAssumption DEF TriesOK
  <2> QED BY <2>1, <2>2, <2>4, <2>5
<1>6. SmWindow(n) /\ SmCounters(n)
  <2>1. SmCounters(m) /\ SmWindow(m)  BY <1>2 DEF Station, SmTyped
  <2>2. SmWindow(n) /\ n.ctr \in Nat /\ n.timers \in Nat
    BY <1>3, <2>1, SentWindow DEF Sent
  <2> QED BY <1>3, <1>5, <2>1, <2>2, WpaAssumption DEF SmCounters, GroupPart, KeyPart
<1>7. Station(n, TRUE, x.rand)
  <2>1. /\ SmFlags(m) /\ SmCounters(m) /\ TriesOK(m) /\ RxOK(m) /\ GrpOK(m) /\ KeyOK(m, x.rand)
    BY <1>2 DEF Station, SmTyped
  <2>2. SmFlags(n)  BY <1>3, <2>1 DEF SmFlags, PtkStates, GroupPart, RxPart, KeyPart
  <2>3. TriesOK(n)  BY <1>3, <1>5, <2>1 DEF TriesOK, GroupPart
  <2>4. RxOK(n)  BY <1>3, <1>5 DEF RxOK, RxPart
  <2>5. EvtOK(n)  BY <1>3 DEF EvtOK
  <2>6. GrpOK(n)  BY <1>3, <1>5, <2>1 DEF GrpOK, GroupPart
  <2>7. KeyOK(n, x.rand)
    BY <1>3, <1>5, <2>1 DEF KeyOK, KeyPart, SmFlags, Handshake, Awaiting
  <2>8. TimerOK(n)
    <3>1. CASE n.TimeoutCtr > PairwiseUpdateCount
      BY <1>3, <1>6, <3>1, WpaAssumption DEF TimerOK, Waiting, Excused, SmCounters
    <3>2. CASE MoreSent(m, n)
      BY <2>1, <3>2 DEF TimerOK, MoreSent, SmCounters
    <3> QED BY <1>3, <3>1, <3>2
  <2>9. GroupTimerOK(n, TRUE)  BY DEF GroupTimerOK
  <2> QED BY <1>6, <2>2, <2>3, <2>4, <2>5, <2>6, <2>7, <2>8, <2>9 DEF Station, SmTyped
<1>8. Ages(m, x.rand, n, x.rand)
  <2>1. SmCounters(m) /\ SmWindow(m) /\ KeyOK(m, x.rand)  BY <1>2 DEF Station, SmTyped
  <2>2. m.PTK_valid = TRUE => m.ptk \in Handshake
    BY <1>5, <2>1 DEF KeyOK, Handshake, Awaiting
  <2> QED BY <1>3, <1>5, <2>1, <2>2, AgesSent DEF Sent
<1>9. Calm(n)  BY <1>3, <1>5 DEF Calm, RxPart
<1>10. x.rand <= x.rand  BY <1>2
<1>11. Made(x, y, TRUE)
  <2>1. CASE y.out = x.out
    BY <1>1, <1>2, <1>3, <1>4, <1>7, <1>8, <1>10, <2>1, QuietMade
  <2>2. CASE \E f : y.out = Append(x.out, f) /\ DownFrame(f, y.sm, y.rand)
    BY <1>1, <1>2, <1>3, <1>4, <1>7, <1>8, <1>10, <2>2, SentMade
  <2> QED BY <1>3, <2>1, <2>2
<1> QED BY <1>1, <1>3, <1>9, <1>11 DEF PtkMade

(* PTKCALCNEGOTIATING: a key that explains the MIC makes the machine move  *)
(* on, with another the timeout of the frame sent last is still there.     *)
LEMMA PtkcalcMade ==
  ASSUME NEW x, NEW c, Given(x, c), PtkTarget(x.sm) = "PTKCALCNEGOTIATING",
         NEW y, y = PTKCALCNEGOTIATING(x)
  PROVE  PtkMade(x, y, c)
<1>1. PICK m, n : m = x.sm /\ n = y.sm  OBVIOUS
<1>2. SmOK(m) /\ SmShape(m) /\ Station(m, c, x.rand) /\ x.rand \in Nat
  BY <1>1 DEF Given, XOK, SmOK
<1>3. /\ n.ptk = "PTKCALCNEGOTIATING" /\ n.requests = m.requests
      /\ n.TimeoutCtr = m.TimeoutCtr /\ n.TimeoutEvt = m.TimeoutEvt
      /\ GroupPart(m, n) /\ n.rx = "none" /\ n.update_snonce = FALSE
      /\ n.ctr = m.ctr /\ n.valid = m.valid /\ n.ANonce = m.ANonce /\ n.rekey = m.rekey
      /\ \/ /\ n.MICVerified = m.MICVerified /\ n.timers = m.timers
            /\ n.PTK_valid = m.PTK_valid /\ n.PTK = m.PTK
         \/ /\ n.MICVerified = TRUE /\ n.timers = 0
            /\ n.PTK_valid = TRUE /\ n.PTK[2] = m.ANonce
      /\ y.rand = x.rand /\ y.out = x.out
  <2>1. PICK k : k = [m EXCEPT !.ptk = "PTKCALCNEGOTIATING", !.rx = "none",
                               !.update_snonce = FALSE]
    OBVIOUS
  <2>2. PICK key : key = <<PSK, m.ANonce, m.SNonce>>  OBVIOUS
  <2>3. /\ n = IF m.last_mic # key THEN k
               ELSE [k EXCEPT !.timers = 0, !.MICVerified = TRUE,
                              !.PTK = key, !.PTK_valid = TRUE]
        /\ y.rand = x.rand /\ y.out = x.out
    BY <1>1, <1>2, <2>1, <2>2 DEF Given, XOK, XShape, PTKCALCNEGOTIATING, Ptk
  <2>4. SmShape(k) /\ k.ptk = "PTKCALCNEGOTIATING" /\ k.requests = m.requests
        /\ k.TimeoutCtr = m.TimeoutCtr /\ k.TimeoutEvt = m.TimeoutEvt
        /\ GroupPart(m, k) /\ k.rx = "none" /\ k.update_snonce = FALSE
        /\ SentPart(m, k) /\ KeyPart(m, k) /\ k.MICVerified = m.MICVerified
    BY <1>2, <2>1 DEF SmShape, GroupPart, SentPart, KeyPart
  <2>5. CASE m.last_mic # key
    BY <2>3, <2>4, <2>5 DEF SentPart, KeyPart
  <2>6. CASE m.last_mic = key
    <3>1. n = [k EXCEPT !.timers = 0, !.MICVerified = TRUE, !.PTK = key, !.PTK_valid = TRUE]
      BY <2>3, <2>6
    <3>2. n.ptk = k.ptk /\ n.requests = k.requests
          /\ n.TimeoutCtr = k.TimeoutCtr /\ n.TimeoutEvt = k.TimeoutEvt
          /\ GroupPart(k, n) /\ n.rx = k.rx /\ n.update_snonce = k.update_snonce
          /\ n.ctr = k.ctr /\ n.valid = k.valid /\ n.ANonce = k.ANonce /\ n.rekey = k.rekey
          /\ n.MICVerified = TRUE /\ n.timers = 0 /\ n.PTK_valid = TRUE /\ n.PTK = key
      BY <2>4, <3>1 DEF SmShape, GroupPart
    <3>3. n.PTK[2] = m.ANonce  BY <2>2, <3>2
    <3> QED BY <2>3, <2>4, <3>2, <3>3 DEF GroupPart, SentPart, KeyPart
  <2> QED BY <2>5, <2>6
<1>4. XOK(y)  BY PtkcalcnegotiatingKept DEF Kept, Given
<1>5. /\ m.requests = {} /\ m.rx = "pairwise" /\ m.ptk \in {"PTKSTART", "PTKINITNEGOTIATING"}
      /\ m.TimeoutCtr <= PairwiseUpdateCount /\ m.TimeoutEvt = FALSE /\ m.valid = {}
      /\ ~(m.grp = "IDLE" /\ m.GUpdateStationKeys = TRUE)
  <2>1. RxOK(m) /\ SmFlags(m)  BY <1>2 DEF Station, SmTyped
  <2>2. m.rx = "pairwise"  BY <1>1, <1>2, <2>1, PtkTargets DEF Station, RxOK
  <2>3. ~(m.grp = "IDLE" /\ m.GUpdateStationKeys = TRUE)  BY <1>1, <1>2, PtkMoves DEF None
  <2> QED BY <2>1, <2>2, <2>3 DEF RxOK
<1>6. Station(n, c, x.rand)
  <2>1. /\ SmFlags(m) /\ SmCounters(m) /\ SmWindow(m) /\ TriesOK(m) /\ RxOK(m) /\ EvtOK(m)
        /\ GrpOK(m) /\ KeyOK(m, x.rand) /\ TimerOK(m) /\ GroupTimerOK(m, c)
    BY <1>2, <1>3, <1>5 DEF Station, SmTyped
  <2>2. SmFlags(n)
    BY <1>2, <1>3, <1>5, <2>1 DEF SmFlags, PtkStates, GroupStates, GroupPart
  <2>3. SmCounters(n)
    BY <1>2, <1>3, <1>5, <2>1, WpaAssumption DEF SmCounters, TriesOK, GroupPart
  <2>4. SmWindow(n)
    BY <1>2, <1>3, <1>5, <2>1 DEF SmWindow, SmCounters, GroupPart
  <2>5. TriesOK(n)
    BY <1>2, <1>3, <1>5, <2>1, WpaAssumption DEF TriesOK, SmCounters, GroupPart
  <2>6. RxOK(n)
    BY <1>2, <1>3, <1>5, <2>1, WpaAssumption DEF RxOK, SmFlags, SmCounters, GroupPart
  <2>7. EvtOK(n)
    BY <1>2, <1>3, <1>5, <2>1, WpaAssumption DEF EvtOK, SmCounters, Handshake, Awaiting,
       GroupPart
  <2>8. GrpOK(n)
    BY <1>2, <1>3, <1>5, <2>1 DEF GrpOK, GroupPart
  <2>9. KeyOK(n, x.rand)
    BY <1>2, <1>3, <1>5, <2>1 DEF KeyOK, SmFlags, SmCounters, Handshake, Awaiting, GroupPart
  <2>10. TimerOK(n)
    BY <1>2, <1>3, <1>5, <2>1, WpaAssumption DEF TimerOK, Waiting, Excused, Awaiting, TriesOK, RxOK,
       SmFlags, SmCounters, GroupPart
  <2>11. GroupTimerOK(n, c)
    BY <1>2, <1>3, <1>5, <2>1, WpaAssumption DEF GroupTimerOK, GroupWaits, Handshake,
       Awaiting, SmFlags, SmCounters, GroupPart
  <2> QED BY <2>2, <2>3, <2>4, <2>5, <2>6, <2>7, <2>8, <2>9, <2>10, <2>11
        DEF Station, SmTyped
<1>7. Ages(m, x.rand, n, x.rand)
  BY <1>2, <1>3, <1>5 DEF Ages, Old
<1>8. Calm(n)  BY <1>3, <1>5 DEF Calm
<1> QED BY <1>1, <1>2, <1>3, <1>4, <1>6, <1>7, <1>8, QuietMade DEF PtkMade

(* PTKCALCNEGOTIATING2.                                                    *)
LEMMA Ptkcalc2Made ==
  ASSUME NEW x, NEW c, Given(x, c), PtkTarget(x.sm) = "PTKCALCNEGOTIATING2",
         NEW y, y = PTKCALCNEGOTIATING2(x)
  PROVE  PtkMade(x, y, c)
<1>1. PICK m, n : m = x.sm /\ n = y.sm  OBVIOUS
<1>2. SmOK(m) /\ SmShape(m) /\ Station(m, c, x.rand) /\ x.rand \in Nat
  BY <1>1 DEF Given, XOK, SmOK
<1>3. /\ n.ptk = "PTKCALCNEGOTIATING2" /\ n.requests = m.requests
      /\ n.TimeoutCtr = 0 /\ n.TimeoutEvt = m.TimeoutEvt
      /\ GroupPart(m, n) /\ RxPart(m, n) /\ KeyPart(m, n) /\ SentPart(m, n)
      /\ y.rand = x.rand /\ y.out = x.out
  <2>1. n = [m EXCEPT !.ptk = "PTKCALCNEGOTIATING2", !.TimeoutCtr = 0]
        /\ y.rand = x.rand /\ y.out = x.out
    BY <1>1, <1>2 DEF Given, XOK, XShape, SmShape, PTKCALCNEGOTIATING2
  <2> QED BY <1>2, <2>1 DEF SmShape, GroupPart, RxPart, KeyPart, SentPart
<1>4. XOK(y)  BY Ptkcalcnegotiating2Kept DEF Kept, Given
<1>5. m.rx # "group" /\ m.rx # "pairwise" /\ m.update_snonce = FALSE
      /\ ~(m.grp = "IDLE" /\ m.GUpdateStationKeys = TRUE)
      /\ m.requests = {} /\ m.ptk = "PTKCALCNEGOTIATING" /\ m.TimeoutEvt = FALSE
  <2>1. m.rx # "group" /\ m.rx # "pairwise" /\ m.update_snonce = FALSE
        /\ ~(m.grp = "IDLE" /\ m.GUpdateStationKeys = TRUE)
    BY <1>1, <1>2, PtkMoves DEF None
  <2>2. m.requests = {} /\ m.ptk = "PTKCALCNEGOTIATING" /\ m.MICVerified = TRUE
    BY <1>1, <1>2, PtkTargets DEF Station
  <2>3. EvtOK(m) /\ SmFlags(m)  BY <1>2 DEF Station, SmTyped
  <2>4. m.TimeoutEvt = FALSE  BY <2>2, <2>3 DEF EvtOK, SmFlags, Handshake, Awaiting
  <2> QED BY <2>1, <2>2, <2>4
<1>6. Station(n, c, x.rand)
  <2>1. /\ SmFlags(m) /\ SmCounters(m) /\ SmWindow(m) /\ TriesOK(m) /\ RxOK(m) /\ EvtOK(m)
        /\ GrpOK(m) /\ KeyOK(m, x.rand) /\ TimerOK(m) /\ GroupTimerOK(m, c)
    BY <1>2, <1>3, <1>5 DEF Station, SmTyped
  <2>2. SmFlags(n)
    BY <1>2, <1>3, <1>5, <2>1 DEF SmFlags, PtkStates, GroupStates, GroupPart, RxPart,
       KeyPart, SentPart
  <2>3. SmCounters(n)
    BY <1>2, <1>3, <1>5, <2>1, WpaAssumption DEF SmCounters, TriesOK, GroupPart, RxPart,
       KeyPart, SentPart
  <2>4. SmWindow(n)
    BY <1>2, <1>3, <1>5, <2>1 DEF SmWindow, SmCounters, GroupPart, RxPart, KeyPart, SentPart
  <2>5. TriesOK(n)
    BY <1>2, <1>3, <1>5, <2>1, WpaAssumption DEF TriesOK, SmCounters, GroupPart, RxPart,
       KeyPart, SentPart
  <2>6. RxOK(n)
    BY <1>2, <1>3, <1>5, <2>1, WpaAssumption DEF RxOK, SmFlags, SmCounters, GroupPart,
       RxPart, KeyPart, SentPart
  <2>7. EvtOK(n)
    BY <1>2, <1>3, <1>5, <2>1, WpaAssumption DEF EvtOK, SmCounters, Handshake, Awaiting,
       GroupPart, RxPart, KeyPart, SentPart
  <2>8. GrpOK(n)
    BY <1>2, <1>3, <1>5, <2>1 DEF GrpOK, GroupPart, RxPart, KeyPart, SentPart
  <2>9. KeyOK(n, x.rand)
    BY <1>2, <1>3, <1>5, <2>1 DEF KeyOK, SmFlags, SmCounters, Handshake, Awaiting,
       GroupPart, RxPart, KeyPart, SentPart
  <2>10. TimerOK(n)
    BY <1>2, <1>3, <1>5, <2>1, WpaAssumption DEF TimerOK, Waiting, Excused, Awaiting, TriesOK, RxOK,
       SmFlags, SmCounters, GroupPart, RxPart, KeyPart, SentPart
  <2>11. GroupTimerOK(n, c)
    BY <1>2, <1>3, <1>5, <2>1, WpaAssumption DEF GroupTimerOK, GroupWaits, Handshake,
       Awaiting, SmFlags, SmCounters, GroupPart, RxPart, KeyPart, SentPart
  <2> QED BY <2>2, <2>3, <2>4, <2>5, <2>6, <2>7, <2>8, <2>9, <2>10, <2>11
        DEF Station, SmTyped
<1>7. Ages(m, x.rand, n, x.rand)
  <2>1. SmCounters(m) /\ SmWindow(m) /\ Sent(m, n) /\ m.ptk \in Handshake
    BY <1>2, <1>3, <1>5 DEF Station, SmTyped, Sent, Handshake, Awaiting
  <2> QED BY <1>3, <1>5, <2>1, AgesSent
<1>8. Calm(n)  BY <1>3, <1>5 DEF Calm, RxPart
<1> QED BY <1>1, <1>2, <1>3, <1>4, <1>6, <1>7, <1>8, QuietMade DEF PtkMade

(* PTKINITNEGOTIATING.                                                     *)
LEMMA PtkinitMade ==
  ASSUME NEW x, NEW c, Given(x, c), PtkTarget(x.sm) = "PTKINITNEGOTIATING",
         NEW gtk, NEW y, y = PTKINITNEGOTIATING(x, gtk)
  PROVE  PtkMade(x, y, c)
<1>1. PICK m, n : m = x.sm /\ n = y.sm  OBVIOUS
<1>2. SmOK(m) /\ SmShape(m) /\ Station(m, c, x.rand) /\ x.rand \in Nat
  BY <1>1 DEF Given, XOK, SmOK
<1>3. /\ n.ptk = "PTKINITNEGOTIATING" /\ n.requests = m.requests 
      /\ n.TimeoutCtr = m.TimeoutCtr + 1 /\ n.TimeoutEvt = FALSE
      /\ GroupPart(m, n) /\ RxPart(m, n) /\ KeyPart(m, n)
      /\ y.rand = x.rand
      /\ \/ SentPart(m, n) /\ n.TimeoutCtr > PairwiseUpdateCount /\ y.out = x.out
         \/ /\ MoreSent(m, n)
            /\ \/ y.out = x.out
               \/ \E f : y.out = Append(x.out, f) /\ DownFrame(f, y.sm, y.rand)
  <2>1. PICK z : z = [x EXCEPT !.sm = [x.sm EXCEPT
              !.ptk = "PTKINITNEGOTIATING", !.TimeoutEvt = FALSE, !.TimeoutCtr = @ + 1]]
    OBVIOUS
  <2>2. XShape(z) /\ z.rand = x.rand /\ z.out = x.out /\ z.done = x.done
        /\ z.sm = [m EXCEPT !.ptk = "PTKINITNEGOTIATING", !.TimeoutEvt = FALSE, !.TimeoutCtr = @ + 1]
    BY <1>1, <1>2, <2>1 DEF Given, XOK, XShape, SmShape
  <2>3. PICK k : k = z.sm  OBVIOUS
  <2>4. SmShape(k) /\ k.requests = m.requests  /\ k.ptk = "PTKINITNEGOTIATING"
        /\ k.TimeoutCtr = m.TimeoutCtr + 1 /\ k.TimeoutEvt = FALSE
        /\ GroupPart(m, k) /\ RxPart(m, k) /\ KeyPart(m, k) /\ SentPart(m, k)
    <3>1. k = [m EXCEPT !.ptk = "PTKINITNEGOTIATING", !.TimeoutEvt = FALSE, !.TimeoutCtr = @ + 1]
      BY <2>2, <2>3
    <3> QED BY <1>2, <3>1 DEF SmShape, GroupPart, RxPart, KeyPart, SentPart
  <2>5. XOK(z)
    BY <1>2, <2>2, <2>3, <2>4 DEF Given, XOK, SmOK, GroupPart
  <2>6. CASE k.TimeoutCtr > PairwiseUpdateCount
    <3>1. y = z  BY <2>1, <2>3, <2>6 DEF PTKINITNEGOTIATING
    <3> QED BY <1>1, <2>2, <2>3, <2>4, <2>6, <3>1
  <2>7. CASE ~(k.TimeoutCtr > PairwiseUpdateCount)
    <3>0. PICK g : g = {gtk}  OBVIOUS
    <3>1. y = Send(z, "3/4", g)  BY <2>1, <2>3, <2>7, <3>0 DEF PTKINITNEGOTIATING
    <3>2. /\ n.ptk = k.ptk /\ n.requests = k.requests
          /\ n.TimeoutCtr = k.TimeoutCtr /\ n.TimeoutEvt = k.TimeoutEvt
          /\ GroupPart(k, n) /\ RxPart(k, n) /\ KeyPart(k, n) /\ MoreSent(k, n)
          /\ y.rand = z.rand
          /\ \/ y.out = z.out
             \/ \E f : y.out = Append(z.out, f) /\ SentFrame(f, k, "3/4")
      BY <1>1, <2>3, <2>5, <3>1, SendEffect
    <3>3. MoreSent(m, n)  BY <2>4, <3>2 DEF MoreSent, SentPart
    <3>4. /\ n.ptk = "PTKINITNEGOTIATING" /\ n.requests = m.requests 
          /\ n.TimeoutCtr = m.TimeoutCtr + 1 /\ n.TimeoutEvt = FALSE
          /\ GroupPart(m, n) /\ RxPart(m, n) /\ KeyPart(m, n) /\ y.rand = x.rand
      BY <2>2, <2>4, <3>2 DEF GroupPart, RxPart, KeyPart
    <3>5. \/ y.out = x.out
          \/ \E f : y.out = Append(x.out, f) /\ DownFrame(f, y.sm, y.rand)
      BY <2>2, <3>2 DEF DownFrame, SentFrame
    <3> QED BY <3>3, <3>4, <3>5
  <2> QED BY <2>6, <2>7
<1>4. XOK(y)  BY PtkinitnegotiatingKept DEF Kept, Given
<1>5. m.rx # "group" /\ m.rx # "pairwise" /\ m.update_snonce = FALSE
      /\ m.requests = {} /\ ~(m.grp = "IDLE" /\ m.GUpdateStationKeys = TRUE)
      /\ m.TimeoutCtr <= PairwiseUpdateCount
      /\ m.ptk \in {"PTKCALCNEGOTIATING2", "PTKINITNEGOTIATING"}
  <2>1. m.rx # "group" /\ m.rx # "pairwise" /\ m.update_snonce = FALSE
        /\ ~(m.grp = "IDLE" /\ m.GUpdateStationKeys = TRUE)
    BY <1>1, <1>2, PtkMoves DEF None
  <2>2. /\ m.requests = {}
        /\ \/ m.ptk = "PTKCALCNEGOTIATING2"
           \/ m.ptk = "PTKINITNEGOTIATING" /\ m.TimeoutCtr <= PairwiseUpdateCount
    BY <1>1, <1>2, PtkTargets DEF Station
  <2>3. TriesOK(m)  BY <1>2 DEF Station
  <2>4. m.TimeoutCtr <= PairwiseUpdateCount  BY <2>2, <2>3, WpaAssumption DEF TriesOK
  <2> QED BY <2>1, <2>2, <2>4
<1>6. SmWindow(n) /\ SmCounters(n)
  <2>1. SmCounters(m) /\ SmWindow(m)  BY <1>2 DEF Station, SmTyped
  <2>2. SmWindow(n) /\ n.ctr \in Nat /\ n.timers \in Nat
    BY <1>3, <2>1, SentWindow DEF Sent
  <2> QED BY <1>3, <1>5, <2>1, <2>2, WpaAssumption DEF SmCounters, GroupPart, KeyPart
<1>7. Station(n, c, x.rand)
  <2>1. /\ SmFlags(m) /\ SmCounters(m) /\ TriesOK(m) /\ RxOK(m) /\ GrpOK(m) /\ KeyOK(m, x.rand)
    BY <1>2 DEF Station, SmTyped
  <2>2. SmFlags(n)  BY <1>3, <2>1 DEF SmFlags, PtkStates, GroupPart, RxPart, KeyPart
  <2>3. TriesOK(n)  BY <1>3, <1>5, <2>1 DEF TriesOK, GroupPart
  <2>4. RxOK(n)  BY <1>3, <1>5 DEF RxOK, RxPart
  <2>5. EvtOK(n)  BY <1>3 DEF EvtOK
  <2>6. GrpOK(n)  BY <1>3, <1>5, <2>1 DEF GrpOK, GroupPart
  <2>7. KeyOK(n, x.rand)
    BY <1>3, <1>5, <2>1 DEF KeyOK, KeyPart, SmFlags, Handshake, Awaiting
  <2>8. TimerOK(n)
    <3>1. CASE n.TimeoutCtr > PairwiseUpdateCount
      BY <1>3, <1>6, <3>1, WpaAssumption DEF TimerOK, Waiting, Excused, SmCounters
    <3>2. CASE MoreSent(m, n)
      BY <2>1, <3>2 DEF TimerOK, MoreSent, SmCounters
    <3> QED BY <1>3, <3>1, <3>2
  <2>9. GroupTimerOK(n, c)
    BY <1>2, <1>3, <1>5 DEF Station, GroupTimerOK, GroupPart, Handshake, Awaiting
  <2> QED BY <1>6, <2>2, <2>3, <2>4, <2>5, <2>6, <2>7, <2>8, <2>9 DEF Station, SmTyped
<1>8. Ages(m, x.rand, n, x.rand)
  <2>1. SmCounters(m) /\ SmWindow(m) /\ KeyOK(m, x.rand)  BY <1>2 DEF Station, SmTyped
  <2>2. m.PTK_valid = TRUE => m.ptk \in Handshake
    BY <1>5 DEF Handshake, Awaiting
  <2> QED BY <1>3, <1>5, <2>1, <2>2, AgesSent DEF Sent
<1>9. Calm(n)  BY <1>3, <1>5 DEF Calm, RxPart
<1>10. x.rand <= x.rand  BY <1>2
<1>11. Made(x, y, c)
  <2>1. CASE y.out = x.out
    BY <1>1, <1>2, <1>3, <1>4, <1>7, <1>8, <1>10, <2>1, QuietMade
  <2>2. CASE \E f : y.out = Append(x.out, f) /\ DownFrame(f, y.sm, y.rand)
    BY <1>1, <1>2, <1>3, <1>4, <1>7, <1>8, <1>10, <2>2, SentMade
  <2> QED BY <1>3, <2>1, <2>2
<1> QED BY <1>1, <1>3, <1>9, <1>11 DEF PtkMade

(* PTKINITDONE: the driver takes the key, or the station is disconnected.  *)
LEMMA PtkinitdoneMade ==
  ASSUME NEW x, NEW c, Given(x, c), PtkTarget(x.sm) = "PTKINITDONE",
         NEW ok, NEW y, y = PTKINITDONE(x, ok)
  PROVE  PtkMade(x, y, c)
<1>1. PICK m, n : m = x.sm /\ n = y.sm  OBVIOUS
<1>2. SmOK(m) /\ SmShape(m) /\ Station(m, c, x.rand) /\ x.rand \in Nat
  BY <1>1 DEF Given, XOK, SmOK
<1>3. /\ n.ptk = "PTKINITDONE"
      /\ n.TimeoutCtr = m.TimeoutCtr /\ n.TimeoutEvt = m.TimeoutEvt
      /\ GroupPart(m, n) /\ n.rx = "none" /\ n.MICVerified = m.MICVerified
      /\ n.update_snonce = m.update_snonce /\ SentPart(m, n)
      /\ n.ANonce = m.ANonce /\ n.rekey \in BOOLEAN
      /\ y.rand = x.rand
      /\ \/ /\ n.requests = m.requests /\ n.PTK_valid = m.PTK_valid /\ n.PTK = m.PTK
            /\ y.out = x.out
         \/ /\ n.requests = m.requests \cup {"Deauthentication"} /\ n.PTK_valid = FALSE
            /\ y.out = Append(x.out, DeauthFrame)
  <2>1. PICK z : z = [x EXCEPT !.sm.ptk = "PTKINITDONE", !.sm.rx = "none"]  OBVIOUS
  <2>2. XShape(z) /\ z.rand = x.rand /\ z.out = x.out /\ z.done = x.done
        /\ z.sm = [m EXCEPT !.ptk = "PTKINITDONE", !.rx = "none"]
    BY <1>1, <1>2, <2>1 DEF Given, XOK, XShape, SmShape
  <2>3. PICK k : k = z.sm  OBVIOUS
  <2>4. SmShape(k) /\ k.requests = m.requests /\ k.ptk = "PTKINITDONE"
        /\ k.TimeoutCtr = m.TimeoutCtr /\ k.TimeoutEvt = m.TimeoutEvt
        /\ GroupPart(m, k) /\ k.rx = "none" /\ k.MICVerified = m.MICVerified
        /\ k.update_snonce = m.update_snonce /\ KeyPart(m, k) /\ SentPart(m, k)
    <3>1. k = [m EXCEPT !.ptk = "PTKINITDONE", !.rx = "none"]  BY <2>2, <2>3
    <3> QED BY <1>2, <3>1 DEF SmShape, GroupPart, KeyPart, SentPart
  <2>5. XOK(z)
    BY <1>2, <2>2, <2>3, <2>4 DEF Given, XOK, SmOK, GroupPart
  <2>6. CASE ~ok
    <3>1. y = wpa_sta_disconnect(z)  BY <2>1, <2>6 DEF PTKINITDONE
    <3>2. /\ n.ptk = k.ptk /\ n.requests = k.requests \cup {"Deauthentication"}
          /\ n.TimeoutCtr = k.TimeoutCtr /\ n.TimeoutEvt = k.TimeoutEvt
          /\ GroupPart(k, n) /\ RxPart(k, n) /\ NoKeyPart(k, n) /\ SentPart(k, n)
          /\ y.rand = z.rand /\ y.out = Append(z.out, DeauthFrame)
      BY <1>1, <2>3, <2>5, <3>1, DisconnectEffect
    <3> QED BY <2>2, <2>4, <3>2 DEF GroupPart, RxPart, KeyPart, NoKeyPart, SentPart
  <2>7. CASE ok
    <3>1. y = [z EXCEPT !.sm = [k EXCEPT !.key = k.PTK, !.rekey = TRUE, !.has_GTK = TRUE]]
      BY <2>1, <2>3, <2>7 DEF PTKINITDONE
    <3>2. n = [k EXCEPT !.key = k.PTK, !.rekey = TRUE, !.has_GTK = TRUE]
          /\ y.rand = z.rand /\ y.out = z.out
      BY <1>1, <2>2, <3>1 DEF XShape
    <3>3. /\ n.ptk = k.ptk /\ n.requests = k.requests
          /\ n.TimeoutCtr = k.TimeoutCtr /\ n.TimeoutEvt = k.TimeoutEvt
          /\ GroupPart(k, n) /\ RxPart(k, n) /\ SentPart(k, n)
          /\ n.ANonce = k.ANonce /\ n.rekey = TRUE /\ n.PTK_valid = k.PTK_valid /\ n.PTK = k.PTK
      BY <2>4, <3>2 DEF SmShape, GroupPart, RxPart, SentPart
    <3> QED BY <2>2, <2>4, <3>2, <3>3 DEF GroupPart, RxPart, KeyPart, SentPart
  <2> QED BY <2>6, <2>7
<1>4. XOK(y)  BY PtkinitdoneKept DEF Kept, Given
<1>5. /\ m.requests = {} /\ m.ptk = "PTKINITNEGOTIATING" /\ m.update_snonce = FALSE
      /\ m.TimeoutCtr <= PairwiseUpdateCount /\ m.TimeoutEvt = FALSE
      /\ ~(m.grp = "IDLE" /\ m.GUpdateStationKeys = TRUE)
  <2>1. m.requests = {} /\ m.ptk = "PTKINITNEGOTIATING" /\ m.update_snonce = FALSE
        /\ m.rx = "pairwise"
    BY <1>1, <1>2, PtkTargets DEF Station
  <2>2. ~(m.grp = "IDLE" /\ m.GUpdateStationKeys = TRUE)  BY <1>1, <1>2, PtkMoves DEF None
  <2> QED BY <1>2, <2>1, <2>2 DEF Station, RxOK
<1>6. Station(n, c, x.rand)
  <2>1. /\ SmFlags(m) /\ SmCounters(m) /\ SmWindow(m) /\ TriesOK(m) /\ RxOK(m) /\ EvtOK(m)
        /\ GrpOK(m) /\ KeyOK(m, x.rand) /\ TimerOK(m) /\ GroupTimerOK(m, c)
    BY <1>2, <1>3, <1>5 DEF Station, SmTyped
  <2>2. SmFlags(n)
    BY <1>2, <1>3, <1>5, <2>1 DEF SmFlags, PtkStates, GroupStates, GroupPart, SentPart
  <2>3. SmCounters(n)
    BY <1>2, <1>3, <1>5, <2>1, WpaAssumption DEF SmCounters, TriesOK, GroupPart, SentPart
  <2>4. SmWindow(n)
    BY <1>2, <1>3, <1>5, <2>1 DEF SmWindow, SmCounters, GroupPart, SentPart
  <2>5. TriesOK(n)
    BY <1>2, <1>3, <1>5, <2>1, WpaAssumption DEF TriesOK, SmCounters, GroupPart, SentPart
  <2>6. RxOK(n)
    BY <1>2, <1>3, <1>5, <2>1, WpaAssumption DEF RxOK, SmFlags, SmCounters, GroupPart,
       SentPart
  <2>7. EvtOK(n)
    BY <1>2, <1>3, <1>5, <2>1, WpaAssumption DEF EvtOK, SmCounters, Handshake, Awaiting,
       GroupPart, SentPart
  <2>8. GrpOK(n)
    BY <1>2, <1>3, <1>5, <2>1 DEF GrpOK, GroupPart, SentPart
  <2>9. KeyOK(n, x.rand)
    BY <1>2, <1>3, <1>5, <2>1 DEF KeyOK, SmFlags, SmCounters, Handshake, Awaiting,
       GroupPart, SentPart
  <2>10. TimerOK(n)
    BY <1>2, <1>3, <1>5, <2>1, WpaAssumption DEF TimerOK, Waiting, Excused, Awaiting, TriesOK, RxOK,
       SmFlags, SmCounters, GroupPart, SentPart
  <2>11. GroupTimerOK(n, c)
    BY <1>2, <1>3, <1>5, <2>1, WpaAssumption DEF GroupTimerOK, GroupWaits, Handshake,
       Awaiting, SmFlags, SmCounters, GroupPart, SentPart
  <2> QED BY <2>2, <2>3, <2>4, <2>5, <2>6, <2>7, <2>8, <2>9, <2>10, <2>11
        DEF Station, SmTyped
<1>7. Ages(m, x.rand, n, x.rand)
  <2>1. n.ANonce = m.ANonce /\ n.ctr = m.ctr /\ m.ctr \in Nat /\ n.ptk \notin Handshake
    BY <1>2, <1>3 DEF Station, SmTyped, SmCounters, Handshake, Awaiting, SentPart
  <2>2. x.rand <= x.rand  BY <1>2
  <2> QED BY <1>2, <1>5, <2>1, <2>2, AgesWithoutKey
<1>8. Calm(n)  BY <1>3, <1>5 DEF Calm
<1>9. x.rand <= x.rand /\ DownFrame(DeauthFrame, y.sm, y.rand)  BY <1>2, DeauthGood
<1>10. Made(x, y, c)
  <2>1. CASE y.out = x.out
    BY <1>1, <1>2, <1>3, <1>4, <1>6, <1>7, <1>9, <2>1, QuietMade
  <2>2. CASE y.out = Append(x.out, DeauthFrame)
    BY <1>1, <1>2, <1>3, <1>4, <1>6, <1>7, <1>9, <2>2, SentMade
  <2> QED BY <1>3, <2>1, <2>2
<1> QED BY <1>1, <1>8, <1>10 DEF PtkMade

(* WPA_PTK in one round: a handshake begins, or it does not.               *)
LEMMA PtkRoundMade ==
  ASSUME NEW x, NEW c, Given(x, c), NEW gtk, NEW ok, NEW y, y = PtkRound(x, gtk, ok)
  PROVE  PtkMade(x, y, c) \/ (PtkMade(x, y, TRUE) /\ y.sm.ptk = "PTKSTART")
<1>1. PICK t : t = PtkTarget(x.sm)  OBVIOUS
<1>2. y = EnterPtk(x, t, gtk, ok)  BY <1>1 DEF PtkRound
<1>3. CASE t = "INITIALIZE"
  BY <1>1, <1>2, <1>3, InitializeMade DEF EnterPtk
<1>4. CASE t = "DISCONNECT"
  BY <1>1, <1>2, <1>4, DisconnectMade DEF EnterPtk
<1>5. CASE t = "DISCONNECTED"
  BY <1>1, <1>2, <1>5, DisconnectedMade DEF EnterPtk
<1>6. CASE t = "AUTHENTICATION"
  BY <1>1, <1>2, <1>6, AuthenticationMade DEF EnterPtk
<1>7. CASE t = "AUTHENTICATION2"
  BY <1>1, <1>2, <1>7, Authentication2Made DEF EnterPtk
<1>8. CASE t = "INITPSK"
  BY <1>1, <1>2, <1>8, InitpskMade DEF EnterPtk
<1>9. CASE t = "PTKSTART"
  BY <1>1, <1>2, <1>9, PtkstartMade DEF EnterPtk
<1>10. CASE t = "PTKCALCNEGOTIATING"
  BY <1>1, <1>2, <1>10, PtkcalcMade DEF EnterPtk
<1>11. CASE t = "PTKCALCNEGOTIATING2"
  BY <1>1, <1>2, <1>11, Ptkcalc2Made DEF EnterPtk
<1>12. CASE t = "PTKINITNEGOTIATING"
  BY <1>1, <1>2, <1>12, PtkinitMade DEF EnterPtk
<1>13. CASE t = "PTKINITDONE"
  BY <1>1, <1>2, <1>13, PtkinitdoneMade DEF EnterPtk
<1>14. CASE t = None
  <2>1. y = x  BY <1>2, <1>14 DEF EnterPtk, None
  <2>2. PICK m : m = x.sm  OBVIOUS
  <2>3. SmFlags(m) /\ SmCounters(m) /\ RxOK(m) /\ EvtOK(m)
    BY <2>2 DEF Given, Station, SmTyped
  <2>4. m.rx # "pairwise"  BY <1>1, <1>14, <2>2, <2>3 DEF RxOK, PtkTarget, None, SmFlags
  <2>5. "PTK" \notin m.requests  BY <1>1, <1>14, <2>2 DEF PtkTarget, None
  <2>6. m.ptk \in Handshake => m.TimeoutEvt = FALSE
    BY <1>1, <1>14, <2>2, <2>3, WpaAssumption
       DEF EvtOK, PtkTarget, None, SmFlags, SmCounters, Handshake, Awaiting
  <2>7. Calm(x.sm)  BY <2>2, <2>4, <2>5, <2>6 DEF Calm
  <2>8. Made(x, x, c)  BY DEF Made, Given, Ages
  <2> QED BY <2>1, <2>7, <2>8 DEF PtkMade
<1>15. t \in {"INITIALIZE", "DISCONNECT", "DISCONNECTED", "AUTHENTICATION", "AUTHENTICATION2",
              "INITPSK", "PTKSTART", "PTKCALCNEGOTIATING", "PTKCALCNEGOTIATING2",
              "PTKINITNEGOTIATING", "PTKINITDONE", None}
  BY <1>1 DEF PtkTarget
<1> QED BY <1>3, <1>4, <1>5, <1>6, <1>7, <1>8, <1>9, <1>10, <1>11, <1>12, <1>13, <1>14,
           <1>15

-----------------------------------------------------------------------------
(* Entering the states of WPA_PTK_GROUP.                                   *)
GroupMade(x, y, c) == Made(x, y, c) /\ y.sm.ptk = x.sm.ptk

(* Which of them is entered when.                                          *)
LEMMA GroupTargets ==
  ASSUME NEW m, SmFlags(m), SmCounters(m), m.GUpdateStationKeys \in BOOLEAN,
         NEW t, t = GroupTarget(m)
  PROVE  /\ t = "IDLE" => m.PtkGroupInit = TRUE \/ m.grp \in {"REKEYESTABLISHED", "KEYERROR"}
         /\ t = "REKEYNEGOTIATING" =>
              /\ m.PtkGroupInit = FALSE
              /\ \/ m.grp = "IDLE" /\ m.GUpdateStationKeys = TRUE
                 \/ /\ m.grp = "REKEYNEGOTIATING" /\ m.TimeoutEvt = TRUE
                    /\ m.GTimeoutCtr <= GroupUpdateCount
                    /\ ~(m.rx = "group" /\ m.MICVerified = TRUE)
         /\ t = "REKEYESTABLISHED" => m.grp = "REKEYNEGOTIATING" /\ m.rx = "group"
         /\ t = "KEYERROR" =>
              m.grp = "REKEYNEGOTIATING" /\ ~(m.rx = "group" /\ m.MICVerified = TRUE)
<1>1. t = "IDLE" => m.PtkGroupInit = TRUE \/ m.grp \in {"REKEYESTABLISHED", "KEYERROR"}
  BY DEF GroupTarget, None, SmFlags, GroupStates
<1>2. t = "REKEYNEGOTIATING" =>
        /\ m.PtkGroupInit = FALSE
        /\ \/ m.grp = "IDLE" /\ m.GUpdateStationKeys = TRUE
           \/ /\ m.grp = "REKEYNEGOTIATING" /\ m.TimeoutEvt = TRUE
              /\ m.GTimeoutCtr <= GroupUpdateCount
              /\ ~(m.rx = "group" /\ m.MICVerified = TRUE)
  BY WpaAssumption DEF GroupTarget, None, SmFlags, SmCounters, GroupStates
<1>3. t = "REKEYESTABLISHED" => m.grp = "REKEYNEGOTIATING" /\ m.rx = "group"
  BY DEF GroupTarget, None, SmFlags, GroupStates
<1>4. t = "KEYERROR" =>
        m.grp = "REKEYNEGOTIATING" /\ ~(m.rx = "group" /\ m.MICVerified = TRUE)
  BY DEF GroupTarget, None, SmFlags, GroupStates
<1> QED BY <1>1, <1>2, <1>3, <1>4

(* IDLE.                                                                   *)
LEMMA IdleMade ==
  ASSUME NEW x, NEW c, Given(x, c), Calm(x.sm), GroupTarget(x.sm) = "IDLE",
         NEW y, y = GROUP_IDLE(x)
  PROVE  GroupMade(x, y, c)
<1>1. PICK m, n : m = x.sm /\ n = y.sm  OBVIOUS
<1>2. SmOK(m) /\ SmShape(m) /\ Station(m, c, x.rand) /\ x.rand \in Nat /\ Calm(m)
  BY <1>1 DEF Given, XOK, SmOK
<1>3. /\ n.ptk = m.ptk /\ n.requests = m.requests
      /\ n.TimeoutCtr = m.TimeoutCtr /\ n.TimeoutEvt = m.TimeoutEvt
      /\ n.grp = "IDLE" /\ n.GTimeoutCtr = 0 /\ n.PtkGroupInit = FALSE
      /\ n.GUpdateStationKeys = m.GUpdateStationKeys
      /\ RxPart(m, n) /\ KeyPart(m, n) /\ SentPart(m, n)
      /\ y.rand = x.rand /\ y.out = x.out
  <2>1. n = [m EXCEPT !.grp = "IDLE", !.GTimeoutCtr = 0, !.PtkGroupInit = FALSE]
        /\ y.rand = x.rand /\ y.out = x.out
    BY <1>1, <1>2 DEF Given, XOK, XShape, SmShape, GROUP_IDLE
  <2> QED BY <1>2, <2>1 DEF SmShape, RxPart, KeyPart, SentPart
<1>4. XOK(y)  BY GroupIdleKept DEF Kept, Given
<1>5. m.GUpdateStationKeys = FALSE /\ m.rx # "group" /\ m.rx # "pairwise"
  <2>1. m.PtkGroupInit = TRUE \/ m.grp \in {"REKEYESTABLISHED", "KEYERROR"}
    BY <1>1, <1>2, GroupTargets DEF Station, SmTyped, SmOK
  <2>2. GrpOK(m) /\ RxOK(m)  BY <1>2 DEF Station
  <2> QED BY <1>2, <2>1, <2>2 DEF GrpOK, RxOK, Calm
<1>6. Station(n, c, x.rand)
  <2>1. /\ SmFlags(m) /\ SmCounters(m) /\ SmWindow(m) /\ TriesOK(m) /\ RxOK(m) /\ EvtOK(m)
        /\ GrpOK(m) /\ KeyOK(m, x.rand) /\ TimerOK(m) /\ GroupTimerOK(m, c)
    BY <1>2, <1>3, <1>5 DEF Station, SmTyped
  <2>2. SmFlags(n)
    BY <1>2, <1>3, <1>5, <2>1 DEF SmFlags, PtkStates, GroupStates, RxPart, KeyPart, SentPart
  <2>3. SmCounters(n)
    BY <1>2, <1>3, <1>5, <2>1, WpaAssumption DEF SmCounters, TriesOK, RxPart, KeyPart,
       SentPart
  <2>4. SmWindow(n)
    BY <1>2, <1>3, <1>5, <2>1 DEF SmWindow, SmCounters, RxPart, KeyPart, SentPart
  <2>5. TriesOK(n)
    BY <1>2, <1>3, <1>5, <2>1, WpaAssumption DEF TriesOK, SmCounters, RxPart, KeyPart,
       SentPart
  <2>6. RxOK(n)
    BY <1>2, <1>3, <1>5, <2>1, WpaAssumption DEF RxOK, SmFlags, SmCounters, RxPart,
       KeyPart, SentPart
  <2>7. EvtOK(n)
    BY <1>2, <1>3, <1>5, <2>1, WpaAssumption DEF EvtOK, SmCounters, Handshake, Awaiting,
       RxPart, KeyPart, SentPart
  <2>8. GrpOK(n)
    BY <1>2, <1>3, <1>5, <2>1 DEF GrpOK, RxPart, KeyPart, SentPart
  <2>9. KeyOK(n, x.rand)
    BY <1>2, <1>3, <1>5, <2>1 DEF KeyOK, SmFlags, SmCounters, Handshake, Awaiting, RxPart,
       KeyPart, SentPart
  <2>10. TimerOK(n)
    BY <1>2, <1>3, <1>5, <2>1, WpaAssumption DEF TimerOK, Waiting, Excused, Awaiting, TriesOK, RxOK,
       SmFlags, SmCounters, RxPart, KeyPart, SentPart
  <2>11. GroupTimerOK(n, c)
    BY <1>2, <1>3, <1>5, <2>1, WpaAssumption DEF GroupTimerOK, GroupWaits, Handshake,
       Awaiting, SmFlags, SmCounters, RxPart, KeyPart, SentPart
  <2> QED BY <2>2, <2>3, <2>4, <2>5, <2>6, <2>7, <2>8, <2>9, <2>10, <2>11
        DEF Station, SmTyped
<1>7. Ages(m, x.rand, n, x.rand)
  <2>1. SmCounters(m) /\ n.ANonce = m.ANonce /\ n.PTK_valid = m.PTK_valid /\ n.ptk = m.ptk
        /\ n.ctr = m.ctr /\ n.valid = m.valid
    BY <1>2, <1>3 DEF Station, SmTyped, KeyPart, SentPart
  <2>2. "ReAuthentication" \notin n.requests => "ReAuthentication" \notin m.requests
    BY <1>3
  <2> QED BY <2>1, <2>2 DEF Ages, Old
<1>8. x.rand <= x.rand  BY <1>2
<1> QED BY <1>1, <1>2, <1>3, <1>4, <1>6, <1>7, <1>8, QuietMade DEF GroupMade

(* REKEYESTABLISHED.                                                       *)
LEMMA EstablishedMade ==
  ASSUME NEW x, NEW c, Given(x, c), Calm(x.sm), GroupTarget(x.sm) = "REKEYESTABLISHED",
         NEW y, y = REKEYESTABLISHED(x)
  PROVE  GroupMade(x, y, c)
<1>1. PICK m, n : m = x.sm /\ n = y.sm  OBVIOUS
<1>2. SmOK(m) /\ SmShape(m) /\ Station(m, c, x.rand) /\ x.rand \in Nat /\ Calm(m)
  BY <1>1 DEF Given, XOK, SmOK
<1>3. /\ n.ptk = m.ptk /\ n.requests = m.requests
      /\ n.TimeoutCtr = m.TimeoutCtr /\ n.TimeoutEvt = m.TimeoutEvt
      /\ n.grp = "REKEYESTABLISHED" /\ n.GTimeoutCtr = 0 /\ n.PtkGroupInit = m.PtkGroupInit
      /\ n.GUpdateStationKeys = FALSE
      /\ n.rx = "none" /\ n.MICVerified = m.MICVerified /\ n.update_snonce = m.update_snonce
      /\ KeyPart(m, n) /\ SentPart(m, n)
      /\ y.rand = x.rand /\ y.out = x.out
  <2>1. PICK z : z = Discount(x)  OBVIOUS
  <2>2. XShape(z) /\ z.rand = x.rand /\ z.out = x.out
        /\ z.sm = [m EXCEPT !.GUpdateStationKeys = FALSE]
    BY <1>1, <2>1 DEF Given, XOK, XShape, Discount
  <2>3. PICK k : k = z.sm  OBVIOUS
  <2>4. y.sm = [k EXCEPT !.grp = "REKEYESTABLISHED", !.rx = "none", !.GTimeoutCtr = 0,
                         !.has_GTK = TRUE]
        /\ y.rand = z.rand /\ y.out = z.out
    BY <2>1, <2>2, <2>3 DEF XShape, REKEYESTABLISHED
  <2>5. n = [[m EXCEPT !.GUpdateStationKeys = FALSE]
               EXCEPT !.grp = "REKEYESTABLISHED", !.rx = "none", !.GTimeoutCtr = 0,
                      !.has_GTK = TRUE]
    BY <1>1, <2>2, <2>3, <2>4
  <2> QED BY <1>2, <2>2, <2>4, <2>5 DEF SmShape, KeyPart, SentPart
<1>4. XOK(y)  BY RekeyestablishedKept DEF Kept, Given
<1>5. m.update_snonce = FALSE /\ m.ptk = "PTKINITDONE"
  <2>1. m.rx = "group"
    BY <1>1, <1>2, GroupTargets DEF Station, SmTyped, SmOK
  <2>2. RxOK(m) /\ SmFlags(m)  BY <1>2 DEF Station, SmTyped
  <2> QED BY <2>1, <2>2 DEF RxOK, SmFlags
<1>6. Station(n, c, x.rand)
  <2>1. /\ SmFlags(m) /\ SmCounters(m) /\ SmWindow(m) /\ TriesOK(m) /\ RxOK(m) /\ EvtOK(m)
        /\ GrpOK(m) /\ KeyOK(m, x.rand) /\ TimerOK(m) /\ GroupTimerOK(m, c)
    BY <1>2, <1>3, <1>5 DEF Station, SmTyped
  <2>2. SmFlags(n)
    BY <1>2, <1>3, <1>5, <2>1 DEF SmFlags, PtkStates, GroupStates, KeyPart, SentPart
  <2>3. SmCounters(n)
    BY <1>2, <1>3, <1>5, <2>1, WpaAssumption DEF SmCounters, TriesOK, KeyPart, SentPart
  <2>4. SmWindow(n)
    BY <1>2, <1>3, <1>5, <2>1 DEF SmWindow, SmCounters, KeyPart, SentPart
  <2>5. TriesOK(n)
    BY <1>2, <1>3, <1>5, <2>1, WpaAssumption DEF TriesOK, SmCounters, KeyPart, SentPart
  <2>6. RxOK(n)
    BY <1>2, <1>3, <1>5, <2>1, WpaAssumption DEF RxOK, SmFlags, SmCounters, KeyPart,
       SentPart
  <2>7. EvtOK(n)
    BY <1>2, <1>3, <1>5, <2>1, WpaAssumption DEF EvtOK, SmCounters, Handshake, Awaiting,
       KeyPart, SentPart
  <2>8. GrpOK(n)
    BY <1>2, <1>3, <1>5, <2>1 DEF GrpOK, KeyPart, SentPart
  <2>9. KeyOK(n, x.rand)
    BY <1>2, <1>3, <1>5, <2>1 DEF KeyOK, SmFlags, SmCounters, Handshake, Awaiting, KeyPart,
       SentPart
  <2>10. TimerOK(n)
    BY <1>2, <1>3, <1>5, <2>1, WpaAssumption DEF TimerOK, Waiting, Excused, Awaiting, TriesOK, RxOK,
       SmFlags, SmCounters, KeyPart, SentPart
  <2>11. GroupTimerOK(n, c)
    BY <1>2, <1>3, <1>5, <2>1, WpaAssumption DEF GroupTimerOK, GroupWaits, Handshake,
       Awaiting, SmFlags, SmCounters, KeyPart, SentPart
  <2> QED BY <2>2, <2>3, <2>4, <2>5, <2>6, <2>7, <2>8, <2>9, <2>10, <2>11
        DEF Station, SmTyped
<1>7. Ages(m, x.rand, n, x.rand)
  <2>1. SmCounters(m) /\ n.ANonce = m.ANonce /\ n.PTK_valid = m.PTK_valid /\ n.ptk = m.ptk
        /\ n.ctr = m.ctr /\ n.valid = m.valid
    BY <1>2, <1>3 DEF Station, SmTyped, KeyPart, SentPart
  <2>2. "ReAuthentication" \notin n.requests => "ReAuthentication" \notin m.requests
    BY <1>3
  <2> QED BY <2>1, <2>2 DEF Ages, Old
<1>8. x.rand <= x.rand  BY <1>2
<1> QED BY <1>1, <1>2, <1>3, <1>4, <1>6, <1>7, <1>8, QuietMade DEF GroupMade

(* KEYERROR asks for a disconnection.                                      *)
LEMMA KeyerrorMade ==
  ASSUME NEW x, NEW c, Given(x, c), Calm(x.sm), GroupTarget(x.sm) = "KEYERROR",
         NEW y, y = KEYERROR(x)
  PROVE  GroupMade(x, y, c)
<1>1. PICK m, n : m = x.sm /\ n = y.sm  OBVIOUS
<1>2. SmOK(m) /\ SmShape(m) /\ Station(m, c, x.rand) /\ x.rand \in Nat /\ Calm(m)
  BY <1>1 DEF Given, XOK, SmOK
<1>3. /\ n.ptk = m.ptk /\ n.requests = m.requests \cup {"Disconnect"}
      /\ n.TimeoutCtr = m.TimeoutCtr /\ n.TimeoutEvt = m.TimeoutEvt
      /\ n.grp = "KEYERROR" /\ n.GTimeoutCtr = m.GTimeoutCtr /\ n.PtkGroupInit = m.PtkGroupInit
      /\ n.GUpdateStationKeys = FALSE
      /\ RxPart(m, n) /\ KeyPart(m, n) /\ SentPart(m, n)
      /\ y.rand = x.rand /\ y.out = x.out
  <2>1. PICK z : z = Discount(x)  OBVIOUS
  <2>2. XShape(z) /\ z.rand = x.rand /\ z.out = x.out
        /\ z.sm = [m EXCEPT !.GUpdateStationKeys = FALSE]
    BY <1>1, <2>1 DEF Given, XOK, XShape, Discount
  <2>3. PICK k : k = z.sm  OBVIOUS
  <2>4. SmShape(k)  BY <1>2, <2>2, <2>3 DEF SmShape
  <2>5. y.sm = [k EXCEPT !.grp = "KEYERROR", !.requests = @ \cup {"Disconnect"}]
        /\ y.rand = z.rand /\ y.out = z.out
    BY <2>1, <2>2, <2>3, <2>4 DEF XShape, SmShape, KEYERROR
  <2>6. n = [[m EXCEPT !.GUpdateStationKeys = FALSE]
               EXCEPT !.grp = "KEYERROR", !.requests = @ \cup {"Disconnect"}]
    BY <1>1, <2>2, <2>3, <2>5
  <2> QED BY <1>2, <2>2, <2>5, <2>6 DEF SmShape, RxPart, KeyPart, SentPart
<1>4. XOK(y)  BY KeyerrorKept DEF Kept, Given
<1>5. m.rx # "group" /\ m.rx # "pairwise" /\ m.update_snonce = FALSE
      /\ "PTK" \notin m.requests /\ (m.ptk \in Handshake => m.TimeoutEvt = FALSE)
  <2>1. ~(m.rx = "group" /\ m.MICVerified = TRUE)
    BY <1>1, <1>2, GroupTargets DEF Station, SmTyped, SmOK
  <2>2. RxOK(m) /\ SmFlags(m)  BY <1>2 DEF Station, SmTyped
  <2> QED BY <1>2, <2>1, <2>2 DEF RxOK, SmFlags, Calm
<1>6. Station(n, c, x.rand)
  <2>1. /\ SmFlags(m) /\ SmCounters(m) /\ SmWindow(m) /\ TriesOK(m) /\ RxOK(m) /\ EvtOK(m)
        /\ GrpOK(m) /\ KeyOK(m, x.rand) /\ TimerOK(m) /\ GroupTimerOK(m, c)
    BY <1>2, <1>3, <1>5 DEF Station, SmTyped
  <2>2. SmFlags(n)
    BY <1>2, <1>3, <1>5, <2>1 DEF SmFlags, PtkStates, GroupStates, RxPart, KeyPart, SentPart
  <2>3. SmCounters(n)
    BY <1>2, <1>3, <1>5, <2>1, WpaAssumption DEF SmCounters, TriesOK, RxPart, KeyPart,
       SentPart
  <2>4. SmWindow(n)
    BY <1>2, <1>3, <1>5, <2>1 DEF SmWindow, SmCounters, RxPart, KeyPart, SentPart
  <2>5. TriesOK(n)
    BY <1>2, <1>3, <1>5, <2>1, WpaAssumption DEF TriesOK, SmCounters, RxPart, KeyPart,
       SentPart
  <2>6. RxOK(n)
    BY <1>2, <1>3, <1>5, <2>1, WpaAssumption DEF RxOK, SmFlags, SmCounters, RxPart,
       KeyPart, SentPart
  <2>7. EvtOK(n)
    BY <1>2, <1>3, <1>5, <2>1, WpaAssumption DEF EvtOK, SmCounters, Handshake, Awaiting,
       RxPart, KeyPart, SentPart
  <2>8. GrpOK(n)
    BY <1>2, <1>3, <1>5, <2>1 DEF GrpOK, RxPart, KeyPart, SentPart
  <2>9. KeyOK(n, x.rand)
    BY <1>2, <1>3, <1>5, <2>1 DEF KeyOK, SmFlags, SmCounters, Handshake, Awaiting, RxPart,
       KeyPart, SentPart
  <2>10. TimerOK(n)
    BY <1>2, <1>3, <1>5, <2>1, WpaAssumption DEF TimerOK, Waiting, Excused, Awaiting, TriesOK, RxOK,
       SmFlags, SmCounters, RxPart, KeyPart, SentPart
  <2>11. GroupTimerOK(n, c)
    BY <1>2, <1>3, <1>5, <2>1, WpaAssumption DEF GroupTimerOK, GroupWaits, Handshake,
       Awaiting, SmFlags, SmCounters, RxPart, KeyPart, SentPart
  <2> QED BY <2>2, <2>3, <2>4, <2>5, <2>6, <2>7, <2>8, <2>9, <2>10, <2>11
        DEF Station, SmTyped
<1>7. Ages(m, x.rand, n, x.rand)
  <2>1. SmCounters(m) /\ n.ANonce = m.ANonce /\ n.PTK_valid = m.PTK_valid /\ n.ptk = m.ptk
        /\ n.ctr = m.ctr /\ n.valid = m.valid
    BY <1>2, <1>3 DEF Station, SmTyped, KeyPart, SentPart
  <2>2. "ReAuthentication" \notin n.requests => "ReAuthentication" \notin m.requests
    BY <1>3
  <2> QED BY <2>1, <2>2 DEF Ages, Old
<1>8. x.rand <= x.rand  BY <1>2
<1> QED BY <1>1, <1>2, <1>3, <1>4, <1>6, <1>7, <1>8, QuietMade DEF GroupMade

(* REKEYNEGOTIATING sends message 1/2 while tries are left; a pairwise     *)
(* handshake is not under way then.                                        *)
LEMMA RekeyMade ==
  ASSUME NEW x, NEW c, Given(x, c), Calm(x.sm), GroupTarget(x.sm) = "REKEYNEGOTIATING",
         NEW gtk, NEW y, y = REKEYNEGOTIATING(x, gtk)
  PROVE  GroupMade(x, y, c)
<1>1. PICK m, n : m = x.sm /\ n = y.sm  OBVIOUS
<1>2. SmOK(m) /\ SmShape(m) /\ Station(m, c, x.rand) /\ x.rand \in Nat /\ Calm(m)
  BY <1>1 DEF Given, XOK, SmOK
<1>3. /\ n.ptk = m.ptk /\ n.requests = m.requests /\ n.TimeoutCtr = m.TimeoutCtr
      /\ n.grp = "REKEYNEGOTIATING" /\ n.GTimeoutCtr = m.GTimeoutCtr + 1
      /\ n.PtkGroupInit = m.PtkGroupInit /\ n.GUpdateStationKeys = m.GUpdateStationKeys
      /\ RxPart(m, n) /\ KeyPart(m, n)
      /\ y.rand = x.rand
      /\ \/ /\ SentPart(m, n) /\ n.TimeoutEvt = m.TimeoutEvt
            /\ n.GTimeoutCtr > GroupUpdateCount /\ y.out = x.out
         \/ /\ MoreSent(m, n) /\ n.TimeoutEvt = FALSE
            /\ \/ y.out = x.out
               \/ \E f : y.out = Append(x.out, f) /\ SentFrame(f, m, "1/2")
  <2>1. PICK z : z = [x EXCEPT !.sm.grp = "REKEYNEGOTIATING", !.sm.GTimeoutCtr = @ + 1]
    OBVIOUS
  <2>2. XShape(z) /\ z.rand = x.rand /\ z.out = x.out /\ z.done = x.done
        /\ z.sm = [m EXCEPT !.grp = "REKEYNEGOTIATING", !.GTimeoutCtr = @ + 1]
    BY <1>1, <1>2, <2>1 DEF Given, XOK, XShape, SmShape
  <2>3. PICK k : k = z.sm  OBVIOUS
  <2>4. /\ SmShape(k) /\ k.ptk = m.ptk /\ k.requests = m.requests
        /\ k.TimeoutCtr = m.TimeoutCtr /\ k.TimeoutEvt = m.TimeoutEvt
        /\ k.grp = "REKEYNEGOTIATING" /\ k.GTimeoutCtr = m.GTimeoutCtr + 1
        /\ k.PtkGroupInit = m.PtkGroupInit /\ k.GUpdateStationKeys = m.GUpdateStationKeys
        /\ RxPart(m, k) /\ KeyPart(m, k) /\ SentPart(m, k)
    <3>1. k = [m EXCEPT !.grp = "REKEYNEGOTIATING", !.GTimeoutCtr = @ + 1]
      BY <2>2, <2>3
    <3> QED BY <1>2, <3>1 DEF SmShape, RxPart, KeyPart, SentPart
  <2>5. CASE k.GTimeoutCtr > GroupUpdateCount
    <3>1. y = z  BY <2>1, <2>3, <2>5 DEF REKEYNEGOTIATING
    <3> QED BY <1>1, <2>2, <2>3, <2>4, <2>5, <3>1
  <2>6. CASE ~(k.GTimeoutCtr > GroupUpdateCount)
    <3>1. PICK u, g : u = [z EXCEPT !.sm.TimeoutEvt = FALSE] /\ g = {gtk}  OBVIOUS
    <3>2. y = Send(u, "1/2", g)  BY <2>1, <2>3, <2>6, <3>1 DEF REKEYNEGOTIATING
    <3>3. PICK l : l = u.sm  OBVIOUS
    <3>4. l = [k EXCEPT !.TimeoutEvt = FALSE] /\ XShape(u)
          /\ u.rand = z.rand /\ u.out = z.out /\ u.done = z.done
      BY <2>2, <2>3, <2>4, <3>1, <3>3 DEF XShape, SmShape
    <3>5. /\ SmShape(l) /\ l.ptk = k.ptk /\ l.requests = k.requests
          /\ l.TimeoutCtr = k.TimeoutCtr /\ l.TimeoutEvt = FALSE
          /\ GroupPart(k, l) /\ RxPart(k, l) /\ KeyPart(k, l) /\ SentPart(k, l)
      BY <2>4, <3>4 DEF SmShape, GroupPart, RxPart, KeyPart, SentPart
    <3>6. XOK(u)
      BY <1>2, <2>2, <2>4, <3>3, <3>4, <3>5 DEF Given, XOK, SmOK, GroupPart
    <3>7. /\ n.ptk = l.ptk /\ n.requests = l.requests
          /\ n.TimeoutCtr = l.TimeoutCtr /\ n.TimeoutEvt = l.TimeoutEvt
          /\ GroupPart(l, n) /\ RxPart(l, n) /\ KeyPart(l, n) /\ MoreSent(l, n)
          /\ y.rand = u.rand
          /\ \/ y.out = u.out
             \/ \E f : y.out = Append(u.out, f) /\ SentFrame(f, l, "1/2")
      BY <1>1, <3>2, <3>3, <3>6, SendEffect
    <3>8. MoreSent(m, n)  BY <2>4, <3>5, <3>7 DEF MoreSent, SentPart
    <3>9. /\ n.ptk = m.ptk /\ n.requests = m.requests /\ n.TimeoutCtr = m.TimeoutCtr
          /\ n.grp = "REKEYNEGOTIATING" /\ n.GTimeoutCtr = m.GTimeoutCtr + 1
          /\ n.PtkGroupInit = m.PtkGroupInit /\ n.GUpdateStationKeys = m.GUpdateStationKeys
          /\ RxPart(m, n) /\ KeyPart(m, n) /\ n.TimeoutEvt = FALSE /\ y.rand = x.rand
      BY <2>2, <2>4, <3>4, <3>5, <3>7 DEF GroupPart, RxPart, KeyPart
    <3>10. \A f : SentFrame(f, l, "1/2") => SentFrame(f, m, "1/2")
      BY <2>4, <3>5 DEF SentFrame, KeyPart, SentPart
    <3>11. y.out = x.out \/ \E f : y.out = Append(x.out, f) /\ SentFrame(f, m, "1/2")
      BY <2>2, <3>4, <3>7, <3>10
    <3> QED BY <3>8, <3>9, <3>11
  <2> QED BY <2>5, <2>6
<1>4. XOK(y)  BY RekeynegotiatingKept DEF Kept, Given
<1>5. /\ m.PtkGroupInit = FALSE /\ m.ptk \notin Handshake /\ m.GTimeoutCtr <= GroupUpdateCount
      /\ m.rx # "group" /\ m.rx # "pairwise" /\ m.update_snonce = FALSE
  <2>1. /\ m.PtkGroupInit = FALSE
        /\ \/ m.grp = "IDLE" /\ m.GUpdateStationKeys = TRUE
           \/ /\ m.grp = "REKEYNEGOTIATING" /\ m.TimeoutEvt = TRUE
              /\ m.GTimeoutCtr <= GroupUpdateCount
              /\ ~(m.rx = "group" /\ m.MICVerified = TRUE)
    BY <1>1, <1>2, GroupTargets DEF Station, SmTyped, SmOK
  <2>2. GrpOK(m) /\ RxOK(m) /\ TriesOK(m) /\ SmFlags(m)  BY <1>2 DEF Station, SmTyped
  <2>3. m.ptk \notin Handshake  BY <1>2, <2>1, <2>2 DEF GrpOK, Calm, Handshake, Awaiting
  <2>4. m.GTimeoutCtr <= GroupUpdateCount  BY <2>1, <2>2, WpaAssumption DEF TriesOK
  <2>5. m.rx # "group" /\ m.rx # "pairwise" /\ m.update_snonce = FALSE
    BY <1>2, <2>1, <2>2 DEF RxOK, Calm, SmFlags
  <2> QED BY <2>1, <2>3, <2>4, <2>5
<1>6. Station(n, c, x.rand)
  <2>1. /\ SmFlags(m) /\ SmCounters(m) /\ SmWindow(m) /\ TriesOK(m) /\ GrpOK(m)
        /\ KeyOK(m, x.rand)
    BY <1>2 DEF Station, SmTyped
  <2>2. SmFlags(n)  BY <1>3, <2>1 DEF SmFlags, GroupStates, RxPart, KeyPart
  <2>3. SmWindow(n) /\ n.ctr \in Nat /\ n.timers \in Nat
    BY <1>3, <2>1, SentWindow DEF Sent
  <2>4. SmCounters(n)
    BY <1>3, <1>5, <2>1, <2>3, WpaAssumption DEF SmCounters, KeyPart
  <2>5. TriesOK(n)  BY <1>3, <2>1 DEF TriesOK
  <2>6. RxOK(n)  BY <1>3, <1>5 DEF RxOK, RxPart, Handshake, Awaiting
  <2>7. EvtOK(n)  BY <1>3, <1>5 DEF EvtOK
  <2>8. GrpOK(n)  BY <1>3, <1>5 DEF GrpOK
  <2>9. KeyOK(n, x.rand)  BY <1>3, <2>1 DEF KeyOK, KeyPart
  <2>10. TimerOK(n)  BY <1>3, <1>5 DEF TimerOK, Waiting, Excused, Handshake
  <2>11. GroupTimerOK(n, c)
    <3>1. CASE n.GTimeoutCtr > GroupUpdateCount
      BY <1>3, <1>5, <2>4, <3>1, WpaAssumption DEF GroupTimerOK, GroupWaits, SmCounters
    <3>2. CASE MoreSent(m, n)
      BY <1>3, <1>5, <2>1, <3>2 DEF GroupTimerOK, MoreSent, SmCounters
    <3> QED BY <1>3, <3>1, <3>2
  <2> QED BY <2>2, <2>3, <2>4, <2>5, <2>6, <2>7, <2>8, <2>9, <2>10, <2>11
          DEF Station, SmTyped
<1>7. Ages(m, x.rand, n, x.rand)
  <2>1. n.ANonce = m.ANonce /\ n.ptk \notin Handshake /\ n.requests = m.requests
    BY <1>3, <1>5 DEF KeyPart
  <2>2. m.ctr \in Nat /\ n.ctr \in Nat /\ m.ctr <= n.ctr
    BY <1>2, <1>3, SentWindow DEF Station, SmTyped, SmCounters, Sent
  <2> QED BY <2>1, <2>2 DEF Ages, Old
<1>8. x.rand <= x.rand  BY <1>2
<1>9. ASSUME NEW f, SentFrame(f, m, "1/2"), MoreSent(m, n) PROVE DownFrame(f, n, x.rand)
  <2>1. SmFlags(m) /\ SmCounters(m) /\ KeyOK(m, x.rand)  BY <1>2 DEF Station, SmTyped
  <2>2. f.msg = "1/2" /\ f.rc = m.ctr + 1 /\ f.mic = m.PTK /\ m.PTK_valid = TRUE
    BY <1>9, <2>1 DEF SentFrame, SmFlags
  <2>3. f.mic[2] = m.ANonce /\ m.ANonce \in 1 .. x.rand - 1
    BY <1>2, <2>1, <2>2 DEF KeyOK, SmCounters
  <2>4. f.rc \in Nat /\ f.rc <= n.ctr
    BY <1>9, <2>1, <2>2 DEF MoreSent, SmCounters
  <2>5. n.ptk \notin Handshake /\ n.ANonce = m.ANonce  BY <1>3, <1>5 DEF KeyPart
  <2>6. Old(f, n, x.rand)  BY <2>3, <2>4, <2>5 DEF Old
  <2> QED BY <1>9, <2>2, <2>6 DEF DownFrame, SentFrame
<1>10. Made(x, y, c)
  <2>1. CASE y.out = x.out
    BY <1>1, <1>2, <1>3, <1>4, <1>6, <1>7, <1>8, <2>1, QuietMade
  <2>2. CASE MoreSent(m, n) /\ \E f : y.out = Append(x.out, f) /\ SentFrame(f, m, "1/2")
    <3>1. PICK f : y.out = Append(x.out, f) /\ SentFrame(f, m, "1/2")  BY <2>2
    <3>2. DownFrame(f, y.sm, y.rand)  BY <1>1, <1>3, <1>9, <2>2, <3>1
    <3> QED BY <1>1, <1>2, <1>3, <1>4, <1>6, <1>7, <1>8, <3>1, <3>2, SentMade
  <2> QED BY <1>3, <2>1, <2>2
<1> QED BY <1>1, <1>3, <1>10 DEF GroupMade

(* WPA_PTK_GROUP in one round.                                             *)
LEMMA GroupRoundMade ==
  ASSUME NEW x, NEW c, Given(x, c), Calm(x.sm), NEW gtk, NEW y, y = GroupRound(x, gtk)
  PROVE  GroupMade(x, y, c)
<1>1. PICK t : t = GroupTarget(x.sm)  OBVIOUS
<1>2. y = EnterGroup(x, t, gtk)  BY <1>1 DEF GroupRound
<1>3. CASE t = "IDLE"
  BY <1>1, <1>2, <1>3, IdleMade DEF EnterGroup
<1>4. CASE t = "REKEYNEGOTIATING"
  BY <1>1, <1>2, <1>4, RekeyMade DEF EnterGroup
<1>5. CASE t = "REKEYESTABLISHED"
  BY <1>1, <1>2, <1>5, EstablishedMade DEF EnterGroup
<1>6. CASE t = "KEYERROR"
  BY <1>1, <1>2, <1>6, KeyerrorMade DEF EnterGroup
<1>7. CASE t = None
  <2>1. y = x  BY <1>2, <1>7 DEF EnterGroup, None
  <2> QED BY <2>1 DEF GroupMade, Made, Given, Ages
<1>8. t \in {"IDLE", "REKEYNEGOTIATING", "REKEYESTABLISHED", "KEYERROR", None}
  BY <1>1 DEF GroupTarget
<1> QED BY <1>3, <1>4, <1>5, <1>6, <1>7, <1>8

(* Both in one round.  crossed is told when a pairwise handshake begins    *)
(* within a group key handshake.                                           *)
LEMMA RoundMade ==
  ASSUME NEW x, NEW c \in BOOLEAN, Given(x, c), NEW gtk, NEW ok,
         NEW y, y = PtkRound(x, gtk, ok), NEW z, z = GroupRound(y, gtk),
         NEW d \in BOOLEAN,
         (c = TRUE \/ (z.sm.ptk = "PTKSTART" /\ z.sm.grp = "REKEYNEGOTIATING")) => d = TRUE
  PROVE  Made(x, z, d)
<1>1. PICK e \in BOOLEAN : PtkMade(x, y, e) /\ (e = c \/ y.sm.ptk = "PTKSTART")
  BY PtkRoundMade
<1>2. Given(y, e) /\ Calm(y.sm)  BY <1>1 DEF PtkMade, Made
<1>3. Given(z, e) /\ y.rand <= z.rand /\ Ages(y.sm, y.rand, z.sm, z.rand)
      /\ z.sm.ptk = y.sm.ptk
  BY <1>2, GroupRoundMade DEF GroupMade, Made
<1>4. x.rand <= z.rand
  <2>1. x.rand \in Nat /\ y.rand \in Nat /\ z.rand \in Nat /\ x.rand <= y.rand
    BY <1>1, <1>3 DEF Given, PtkMade, Made
  <2> QED BY <1>3, <2>1
<1>5. Ages(x.sm, x.rand, z.sm, z.rand)  BY <1>1, <1>3 DEF PtkMade, Made, Ages
<1>6. GroupTimerOK(z.sm, d)
  <2>1. GroupTimerOK(z.sm, e)  BY <1>3 DEF Given, Station
  <2>2. z.sm.grp = "REKEYNEGOTIATING" /\ d = FALSE => e = FALSE
    BY <1>1, <1>3
  <2> QED BY <2>1, <2>2 DEF GroupTimerOK
<1>7. Given(z, d)  BY <1>3, <1>6 DEF Given, Station
<1> QED BY <1>4, <1>5, <1>7 DEF Made

-----------------------------------------------------------------------------
(* The record of a station whose loop has ended, or that has asked for a   *)
(* group key and whose loop is to follow the rekeying.                     *)
AtEase(m) ==
  /\ m.requests = {} /\ m.rx \in {"none", "request", "grequest"} /\ m.update_snonce = FALSE
  /\ m.PtkGroupInit = FALSE
  /\ m.ptk \in Awaiting \cup {"INITIALIZE", "PTKINITDONE"}
  /\ m.ptk \in Awaiting => m.TimeoutEvt = FALSE /\ (m.timers > 0 \/ Excused(m))
  /\ m.ptk = "PTKCALCNEGOTIATING" =>
       m.MICVerified = FALSE \/ (m.rx = "grequest" /\ m.timers = 0)
  /\ m.TimeoutCtr <= PairwiseUpdateCount
  /\ m.grp \in {"IDLE", "REKEYNEGOTIATING"}
  /\ m.grp = "IDLE" => m.GUpdateStationKeys = FALSE
  /\ m.grp = "REKEYNEGOTIATING" => m.TimeoutEvt = FALSE /\ m.GTimeoutCtr <= GroupUpdateCount

(* A loop ends in such a record.                                           *)
LEMMA LoopEnds ==
  ASSUME NEW m, SmOK(m), NEW c, NEW r, Station(m, c, r), Resting(m)
  PROVE  AtEase(m)
<1>1. SmFlags(m) /\ SmCounters(m) /\ TriesOK(m) /\ RxOK(m) /\ TimerOK(m)
  BY DEF Station, SmTyped
<1>2. /\ PtkTarget(m) = "none" /\ GroupTarget(m) = "none"  BY DEF Resting, None
<1>3. m.requests = {}
  BY <1>2 DEF SmOK, Reqs, PtkTarget
<1>4. m.ptk \in Awaiting \cup {"INITIALIZE", "PTKINITDONE"}
  BY <1>1, <1>2, <1>3 DEF SmFlags, PtkStates, PtkTarget, Awaiting
<1>5. /\ m.rx # "pairwise" /\ m.update_snonce = FALSE
      /\ m.ptk = "PTKCALCNEGOTIATING" => m.MICVerified = FALSE
      /\ m.ptk \in Awaiting => m.TimeoutEvt = FALSE
      /\ m.ptk \in {"PTKSTART", "PTKINITNEGOTIATING"} => ~(m.TimeoutCtr > PairwiseUpdateCount)
  BY <1>1, <1>2, <1>3 DEF SmFlags, PtkTarget, Awaiting, RxOK
<1>6. /\ m.PtkGroupInit = FALSE /\ m.grp \in {"IDLE", "REKEYNEGOTIATING"}
      /\ m.grp = "IDLE" => m.GUpdateStationKeys = FALSE
      /\ m.grp = "REKEYNEGOTIATING" =>
           /\ m.rx # "group" /\ m.TimeoutEvt = FALSE /\ ~(m.GTimeoutCtr > GroupUpdateCount)
  BY <1>1, <1>2 DEF SmFlags, SmOK, GroupStates, GroupTarget, RxOK
<1>7. m.TimeoutCtr <= PairwiseUpdateCount
  BY <1>1, <1>4, <1>5, WpaAssumption DEF TriesOK, SmCounters, Awaiting
<1>8. m.grp = "REKEYNEGOTIATING" => m.GTimeoutCtr <= GroupUpdateCount
  BY <1>1, <1>6, WpaAssumption DEF SmCounters
<1>9. m.rx \in {"none", "request", "grequest"}  BY <1>1, <1>5, <1>6 DEF SmFlags, RxOK
<1>10. m.ptk \in Awaiting => m.timers > 0 \/ Excused(m)
  BY <1>1, <1>3, <1>5, <1>7 DEF TimerOK, Waiting
<1> QED BY <1>3, <1>4, <1>5, <1>6, <1>7, <1>8, <1>9, <1>10 DEF AtEase

(* Time passes: only nonces are taken.                                     *)
LEMMA StationLater ==
  ASSUME NEW m, NEW c, NEW r \in Nat, Station(m, c, r), NEW q \in Nat, r <= q
  PROVE  Station(m, c, q) /\ Ages(m, r, m, q)
<1>1. KeyOK(m, r) /\ m.ANonce \in Nat  BY DEF Station, SmTyped, SmCounters
<1>2. m.ANonce < q  BY <1>1 DEF KeyOK
<1>3. KeyOK(m, q)  BY <1>1, <1>2 DEF KeyOK
<1>4. \A f : f.mic[2] \in 1 .. r - 1 => f.mic[2] \in 1 .. q - 1  OBVIOUS
<1>5. Ages(m, r, m, q)  BY <1>4 DEF Ages, Old
<1> QED BY <1>3, <1>5 DEF Station

(* The frames on their way are no concern of the rest of the record; they  *)
(* stay harmless where no counter is valid, and where the next nonce will  *)
(* be another one.                                                         *)
LEMMA AgesSame ==
  ASSUME NEW m, NEW n, NEW r, n.ANonce = m.ANonce, n.ctr = m.ctr, n.ptk = m.ptk,
         n.requests = m.requests, n.PTK_valid = m.PTK_valid, n.valid = m.valid
  PROVE  Ages(m, r, n, r)
BY DEF Ages, Old

(* No counter is valid.                                                    *)
LEMMA AgesUsed ==
  ASSUME NEW m, NEW n, NEW r, n.ANonce = m.ANonce, n.ctr = m.ctr,
         n.requests = m.requests, n.valid = {}
  PROVE  Ages(m, r, n, r)
BY DEF Ages, Old

(* The next nonce will be another one.                                     *)
LEMMA AgesRenewed ==
  ASSUME NEW m, NEW n, NEW r, n.ANonce = m.ANonce,
         "ReAuthentication" \in n.requests, n.PTK_valid = FALSE
  PROVE  Ages(m, r, n, r)
BY DEF Ages, Old

(* There is none.                                                          *)
LEMMA AgesAway ==
  ASSUME NEW m, NEW n, NEW r, n.ANonce = 0
  PROVE  Ages(m, r, n, r)
<1>1. \A f : f.mic[2] \in 1 .. r - 1 => f.mic[2] # 0  OBVIOUS
<1> QED BY <1>1 DEF Ages, Old

-----------------------------------------------------------------------------
(* What the other actions make of a record at ease.                        *)

(* The pairwise key is removed.                                            *)
LEMMA RemoveEffect ==
  ASSUME NEW m, SmOK(m), NEW k, k = wpa_remove_ptk(m)
  PROVE  /\ SmShape(k) /\ k.requests = m.requests /\ k.ptk = m.ptk
         /\ k.TimeoutCtr = m.TimeoutCtr /\ k.TimeoutEvt = m.TimeoutEvt
         /\ GroupPart(m, k) /\ RxPart(m, k) /\ NoKeyPart(m, k) /\ SentPart(m, k)
BY DEF SmOK, SmShape, GroupPart, RxPart, NoKeyPart, SentPart, wpa_remove_ptk

Struck(m, n, c, r) == Station(n, c, r) /\ Ages(m, r, n, r)

(* A station that is not known.                                            *)
LEMMA NoStationStruck ==
  ASSUME NEW m, NEW c, NEW r \in Nat, r > 0
  PROVE  Struck(m, NoStation, c, r) /\ AtEase(NoStation)
<1>1. PICK n : n = NoStation  OBVIOUS
<1>2. /\ n.requests = {} /\ n.rx = "none" /\ n.update_snonce = FALSE
      /\ n.PtkGroupInit = FALSE /\ n.ptk = "INITIALIZE" /\ n.TimeoutEvt = FALSE
      /\ n.TimeoutCtr = 0 /\ n.GTimeoutCtr = 0 /\ n.grp = "IDLE"
      /\ n.GUpdateStationKeys = FALSE /\ n.MICVerified = FALSE /\ n.PTK_valid = FALSE
      /\ n.rekey = FALSE /\ n.ANonce = 0 /\ n.ctr = 0 /\ n.valid = {} /\ n.timers = 0
  BY <1>1 DEF NoStation, NoNonce
<1>3. AtEase(n)  BY <1>2, WpaAssumption DEF AtEase, Awaiting
<1>4. SmTyped(n)
  <2>1. SmFlags(n)  BY <1>2 DEF SmFlags, PtkStates, GroupStates
  <2>2. SmCounters(n)  BY <1>2, WpaAssumption DEF SmCounters
  <2>3. SmWindow(n)  BY <1>2 DEF SmWindow
  <2> QED BY <2>1, <2>2, <2>3 DEF SmTyped
<1>5. TriesOK(n) /\ RxOK(n) /\ GrpOK(n)
  BY <1>2, WpaAssumption DEF TriesOK, RxOK, GrpOK
<1>6. EvtOK(n) /\ TimerOK(n) /\ GroupTimerOK(n, c)
  BY <1>2 DEF EvtOK, TimerOK, Waiting, GroupTimerOK, Awaiting, Handshake
<1>7. KeyOK(n, r)  BY <1>2 DEF KeyOK, Awaiting, Handshake
<1>8. Station(n, c, r)  BY <1>4, <1>5, <1>6, <1>7 DEF Station
<1> QED BY <1>1, <1>2, <1>3, <1>8, AgesAway DEF Struck

(* handle_deauth.                                                          *)
LEMMA DeauthStruck ==
  ASSUME NEW m, SmOK(m), NEW c, NEW r \in Nat, Station(m, c, r), AtEase(m),
         NEW n, n = [EventDeauth(m) EXCEPT !.assoc = FALSE]
  PROVE  Struck(m, n, c, r)
<1>1. /\ n.ptk = m.ptk /\ n.requests = {"Deauthentication"}
      /\ n.TimeoutCtr = m.TimeoutCtr /\ n.TimeoutEvt = m.TimeoutEvt
      /\ GroupPart(m, n) /\ RxPart(m, n) /\ NoKeyPart(m, n) /\ SentPart(m, n)
  <2>1. PICK k : k = wpa_remove_ptk(m)  OBVIOUS
  <2>2. /\ SmShape(k) /\ k.ptk = m.ptk
        /\ k.TimeoutCtr = m.TimeoutCtr /\ k.TimeoutEvt = m.TimeoutEvt
        /\ GroupPart(m, k) /\ RxPart(m, k) /\ NoKeyPart(m, k) /\ SentPart(m, k)
    BY <2>1, RemoveEffect
  <2>3. PICK l : l = [[k EXCEPT !.requests = @ \cup {"Deauthentication"}]
                        EXCEPT !.assoc = FALSE]
    OBVIOUS
  <2>4. SmShape(k)  BY <2>2
  <2>5. /\ l.ptk = k.ptk /\ l.TimeoutCtr = k.TimeoutCtr /\ l.TimeoutEvt = k.TimeoutEvt
        /\ GroupPart(k, l) /\ RxPart(k, l) /\ KeyPart(k, l) /\ SentPart(k, l)
    BY <2>3, <2>4 DEF SmShape, GroupPart, RxPart, KeyPart, SentPart
  <2>6. m.requests = {}  BY DEF AtEase
  <2>7. n.requests = {"Deauthentication"}  BY <2>6, DeauthSame
  <2>8. n = l  BY <2>1, <2>3 DEF EventDeauth
  <2> QED BY <2>2, <2>5, <2>7, <2>8 DEF GroupPart, RxPart, KeyPart, NoKeyPart, SentPart
<1>2. m.requests = {} /\ m.ctr \in Nat
  BY DEF AtEase, Station, SmTyped, SmCounters
<1>3. Station(n, c, r)
  <2>1. /\ SmFlags(m) /\ SmCounters(m) /\ SmWindow(m) /\ TriesOK(m) /\ RxOK(m) /\ EvtOK(m)
        /\ GrpOK(m) /\ KeyOK(m, r) /\ TimerOK(m) /\ GroupTimerOK(m, c)
    BY <1>1 DEF Station, SmTyped
  <2>2. SmFlags(n)
    BY <1>1, <2>1 DEF SmFlags, PtkStates, GroupStates, AtEase, GroupPart, RxPart, KeyPart,
       NoKeyPart, SentPart
  <2>3. SmCounters(n)
    BY <1>1, <2>1, WpaAssumption DEF SmCounters, TriesOK, AtEase, GroupPart, RxPart,
       KeyPart, NoKeyPart, SentPart
  <2>4. SmWindow(n)
    BY <1>1, <2>1 DEF SmWindow, SmCounters, AtEase, GroupPart, RxPart, KeyPart, NoKeyPart,
       SentPart
  <2>5. TriesOK(n)
    BY <1>1, <2>1, WpaAssumption DEF TriesOK, SmCounters, AtEase, GroupPart, RxPart,
       KeyPart, NoKeyPart, SentPart
  <2>6. RxOK(n)
    BY <1>1, <2>1, WpaAssumption DEF RxOK, SmFlags, SmCounters, AtEase, GroupPart, RxPart,
       KeyPart, NoKeyPart, SentPart
  <2>7. EvtOK(n)
    BY <1>1, <2>1, WpaAssumption DEF EvtOK, SmCounters, Handshake, Awaiting, AtEase,
       GroupPart, RxPart, KeyPart, NoKeyPart, SentPart
  <2>8. GrpOK(n)
    BY <1>1, <2>1 DEF GrpOK, AtEase, GroupPart, RxPart, KeyPart, NoKeyPart, SentPart
  <2>9. KeyOK(n, r)
    BY <1>1, <2>1 DEF KeyOK, SmFlags, SmCounters, Handshake, Awaiting, AtEase, GroupPart,
       RxPart, KeyPart, NoKeyPart, SentPart
  <2>10. TimerOK(n)
    BY <1>1, <2>1, WpaAssumption DEF TimerOK, Waiting, Excused, Awaiting, TriesOK, RxOK, SmFlags,
       SmCounters, AtEase, GroupPart, RxPart, KeyPart, NoKeyPart, SentPart
  <2>11. GroupTimerOK(n, c)
    BY <1>1, <2>1, WpaAssumption DEF GroupTimerOK, GroupWaits, Handshake, Awaiting,
       SmFlags, SmCounters, AtEase, GroupPart, RxPart, KeyPart, NoKeyPart, SentPart
  <2> QED BY <2>2, <2>3, <2>4, <2>5, <2>6, <2>7, <2>8, <2>9, <2>10, <2>11
        DEF Station, SmTyped
<1>4. Ages(m, r, n, r)
  <2>1. n.ANonce = m.ANonce /\ n.ctr = m.ctr /\ n.PTK_valid = FALSE
    BY <1>1 DEF NoKeyPart, SentPart
  <2>2. r <= r  OBVIOUS
  <2> QED BY <1>2, <2>1, <2>2, AgesWithoutKey
<1> QED BY <1>3, <1>4 DEF Struck

(* A wrong MIC.                                                            *)
LEMMA RefusedStruck ==
  ASSUME NEW m, SmOK(m), NEW c, NEW r \in Nat, Station(m, c, r), AtEase(m),
         NEW n, n = [m EXCEPT !.MICVerified = FALSE]
  PROVE  Struck(m, n, c, r) /\ AtEase(n)
<1>1. /\ n.ptk = m.ptk /\ n.requests = m.requests
      /\ n.TimeoutCtr = m.TimeoutCtr /\ n.TimeoutEvt = m.TimeoutEvt
      /\ GroupPart(m, n) /\ KeyPart(m, n) /\ SentPart(m, n)
      /\ n.rx = m.rx /\ n.update_snonce = m.update_snonce /\ n.MICVerified = FALSE
  BY DEF SmOK, SmShape, GroupPart, KeyPart, SentPart
<1>2. m.requests = {} /\ m.ctr \in Nat
  BY DEF AtEase, Station, SmTyped, SmCounters
<1>3. Station(n, c, r)
  <2>1. /\ SmFlags(m) /\ SmCounters(m) /\ SmWindow(m) /\ TriesOK(m) /\ RxOK(m) /\ EvtOK(m)
        /\ GrpOK(m) /\ KeyOK(m, r) /\ TimerOK(m) /\ GroupTimerOK(m, c)
    BY <1>1 DEF Station, SmTyped
  <2>2. SmFlags(n)
    BY <1>1, <2>1 DEF SmFlags, PtkStates, GroupStates, AtEase, GroupPart, RxPart, KeyPart,
       NoKeyPart, SentPart
  <2>3. SmCounters(n)
    BY <1>1, <2>1, WpaAssumption DEF SmCounters, TriesOK, AtEase, GroupPart, RxPart,
       KeyPart, NoKeyPart, SentPart
  <2>4. SmWindow(n)
    BY <1>1, <2>1 DEF SmWindow, SmCounters, AtEase, GroupPart, RxPart, KeyPart, NoKeyPart,
       SentPart
  <2>5. TriesOK(n)
    BY <1>1, <2>1, WpaAssumption DEF TriesOK, SmCounters, AtEase, GroupPart, RxPart,
       KeyPart, NoKeyPart, SentPart
  <2>6. RxOK(n)
    BY <1>1, <2>1, WpaAssumption DEF RxOK, SmFlags, SmCounters, AtEase, GroupPart, RxPart,
       KeyPart, NoKeyPart, SentPart
  <2>7. EvtOK(n)
    BY <1>1, <2>1, WpaAssumption DEF EvtOK, SmCounters, Handshake, Awaiting, AtEase,
       GroupPart, RxPart, KeyPart, NoKeyPart, SentPart
  <2>8. GrpOK(n)
    BY <1>1, <2>1 DEF GrpOK, AtEase, GroupPart, RxPart, KeyPart, NoKeyPart, SentPart
  <2>9. KeyOK(n, r)
    BY <1>1, <2>1 DEF KeyOK, SmFlags, SmCounters, Handshake, Awaiting, AtEase, GroupPart,
       RxPart, KeyPart, NoKeyPart, SentPart
  <2>10. TimerOK(n)
    BY <1>1, <2>1, WpaAssumption DEF TimerOK, Waiting, Excused, Awaiting, TriesOK, RxOK, SmFlags,
       SmCounters, AtEase, GroupPart, RxPart, KeyPart, NoKeyPart, SentPart
  <2>11. GroupTimerOK(n, c)
    BY <1>1, <2>1, WpaAssumption DEF GroupTimerOK, GroupWaits, Handshake, Awaiting,
       SmFlags, SmCounters, AtEase, GroupPart, RxPart, KeyPart, NoKeyPart, SentPart
  <2> QED BY <2>2, <2>3, <2>4, <2>5, <2>6, <2>7, <2>8, <2>9, <2>10, <2>11
        DEF Station, SmTyped
<1>4. Ages(m, r, n, r)
  BY <1>1, AgesSame DEF KeyPart, SentPart
<1>5. AtEase(n)  BY <1>1 DEF AtEase, Excused, GroupPart, RxPart, KeyPart, SentPart
<1> QED BY <1>3, <1>4, <1>5 DEF Struck

(* A timeout.                                                              *)
LEMMA TimeoutStruck ==
  ASSUME NEW m, SmOK(m), NEW c, NEW r \in Nat, Station(m, c, r), AtEase(m),
         m.timers > 0, NEW n, n = wpa_send_eapol_timeout(m)
  PROVE  Struck(m, n, c, r)
<1>1. /\ n.ptk = m.ptk /\ n.requests = m.requests
      /\ n.TimeoutCtr = m.TimeoutCtr /\ n.TimeoutEvt = TRUE
      /\ GroupPart(m, n) /\ KeyPart(m, n) /\ RxPart(m, n)
      /\ n.ctr = m.ctr /\ n.valid = m.valid /\ n.timers = m.timers - 1 /\ m.timers > 0
  BY DEF SmOK, SmShape, GroupPart, KeyPart, RxPart, wpa_send_eapol_timeout
<1>2. m.requests = {} /\ m.ctr \in Nat
  BY DEF AtEase, Station, SmTyped, SmCounters
<1>3. Station(n, c, r)
  <2>1. /\ SmFlags(m) /\ SmCounters(m) /\ SmWindow(m) /\ TriesOK(m) /\ RxOK(m) /\ EvtOK(m)
        /\ GrpOK(m) /\ KeyOK(m, r) /\ TimerOK(m) /\ GroupTimerOK(m, c)
    BY <1>1 DEF Station, SmTyped
  <2>2. SmFlags(n)
    BY <1>1, <2>1 DEF SmFlags, PtkStates, GroupStates, AtEase, GroupPart, RxPart, KeyPart,
       NoKeyPart, SentPart
  <2>3. SmCounters(n)
    BY <1>1, <2>1, WpaAssumption DEF SmCounters, TriesOK, AtEase, GroupPart, RxPart,
       KeyPart, NoKeyPart, SentPart
  <2>4. SmWindow(n)
    BY <1>1, <2>1 DEF SmWindow, SmCounters, AtEase, GroupPart, RxPart, KeyPart, NoKeyPart,
       SentPart
  <2>5. TriesOK(n)
    BY <1>1, <2>1, WpaAssumption DEF TriesOK, SmCounters, AtEase, GroupPart, RxPart,
       KeyPart, NoKeyPart, SentPart
  <2>6. RxOK(n)
    BY <1>1, <2>1, WpaAssumption DEF RxOK, SmFlags, SmCounters, AtEase, GroupPart, RxPart,
       KeyPart, NoKeyPart, SentPart
  <2>7. EvtOK(n)
    BY <1>1, <2>1, WpaAssumption DEF EvtOK, SmCounters, Handshake, Awaiting, AtEase,
       GroupPart, RxPart, KeyPart, NoKeyPart, SentPart
  <2>8. GrpOK(n)
    BY <1>1, <2>1 DEF GrpOK, AtEase, GroupPart, RxPart, KeyPart, NoKeyPart, SentPart
  <2>9. KeyOK(n, r)
    BY <1>1, <2>1 DEF KeyOK, SmFlags, SmCounters, Handshake, Awaiting, AtEase, GroupPart,
       RxPart, KeyPart, NoKeyPart, SentPart
  <2>10. TimerOK(n)
    BY <1>1, <2>1, WpaAssumption DEF TimerOK, Waiting, Excused, Awaiting, TriesOK, RxOK, SmFlags,
       SmCounters, AtEase, GroupPart, RxPart, KeyPart, NoKeyPart, SentPart
  <2>11. GroupTimerOK(n, c)
    BY <1>1, <2>1, WpaAssumption DEF GroupTimerOK, GroupWaits, Handshake, Awaiting,
       SmFlags, SmCounters, AtEase, GroupPart, RxPart, KeyPart, NoKeyPart, SentPart
  <2> QED BY <2>2, <2>3, <2>4, <2>5, <2>6, <2>7, <2>8, <2>9, <2>10, <2>11
        DEF Station, SmTyped
<1>4. Ages(m, r, n, r)
  BY <1>1, AgesSame DEF KeyPart
<1> QED BY <1>3, <1>4 DEF Struck

(* A new pairwise key is due.                                              *)
LEMMA NewPtkStruck ==
  ASSUME NEW m, SmOK(m), NEW c, NEW r \in Nat, Station(m, c, r), AtEase(m),
         m.rekey = TRUE, NEW n, n = wpa_request_new_ptk(m)
  PROVE  Struck(m, n, c, r)
<1>1. /\ n.ptk = m.ptk /\ n.requests = {"PTK"} /\ m.rekey = TRUE
      /\ n.TimeoutCtr = m.TimeoutCtr /\ n.TimeoutEvt = m.TimeoutEvt
      /\ GroupPart(m, n) /\ RxPart(m, n) /\ NoKeyPart(m, n) /\ SentPart(m, n)
  BY DEF AtEase, SmOK, SmShape, GroupPart, RxPart, NoKeyPart, SentPart, wpa_request_new_ptk
<1>2. m.requests = {} /\ m.ctr \in Nat
  BY DEF AtEase, Station, SmTyped, SmCounters
<1>3. Station(n, c, r)
  <2>1. /\ SmFlags(m) /\ SmCounters(m) /\ SmWindow(m) /\ TriesOK(m) /\ RxOK(m) /\ EvtOK(m)
        /\ GrpOK(m) /\ KeyOK(m, r) /\ TimerOK(m) /\ GroupTimerOK(m, c)
    BY <1>1 DEF Station, SmTyped
  <2>2. SmFlags(n)
    BY <1>1, <2>1 DEF SmFlags, PtkStates, GroupStates, AtEase, GroupPart, RxPart, KeyPart,
       NoKeyPart, SentPart
  <2>3. SmCounters(n)
    BY <1>1, <2>1, WpaAssumption DEF SmCounters, TriesOK, AtEase, GroupPart, RxPart,
       KeyPart, NoKeyPart, SentPart
  <2>4. SmWindow(n)
    BY <1>1, <2>1 DEF SmWindow, SmCounters, AtEase, GroupPart, RxPart, KeyPart, NoKeyPart,
       SentPart
  <2>5. TriesOK(n)
    BY <1>1, <2>1, WpaAssumption DEF TriesOK, SmCounters, AtEase, GroupPart, RxPart,
       KeyPart, NoKeyPart, SentPart
  <2>6. RxOK(n)
    BY <1>1, <2>1, WpaAssumption DEF RxOK, SmFlags, SmCounters, AtEase, GroupPart, RxPart,
       KeyPart, NoKeyPart, SentPart
  <2>7. EvtOK(n)
    BY <1>1, <2>1, WpaAssumption DEF EvtOK, SmCounters, Handshake, Awaiting, AtEase,
       GroupPart, RxPart, KeyPart, NoKeyPart, SentPart
  <2>8. GrpOK(n)
    BY <1>1, <2>1 DEF GrpOK, AtEase, GroupPart, RxPart, KeyPart, NoKeyPart, SentPart
  <2>9. KeyOK(n, r)
    BY <1>1, <2>1 DEF KeyOK, SmFlags, SmCounters, Handshake, Awaiting, AtEase, GroupPart,
       RxPart, KeyPart, NoKeyPart, SentPart
  <2>10. TimerOK(n)
    BY <1>1, <2>1, WpaAssumption DEF TimerOK, Waiting, Excused, Awaiting, TriesOK, RxOK, SmFlags,
       SmCounters, AtEase, GroupPart, RxPart, KeyPart, NoKeyPart, SentPart
  <2>11. GroupTimerOK(n, c)
    BY <1>1, <2>1, WpaAssumption DEF GroupTimerOK, GroupWaits, Handshake, Awaiting,
       SmFlags, SmCounters, AtEase, GroupPart, RxPart, KeyPart, NoKeyPart, SentPart
  <2> QED BY <2>2, <2>3, <2>4, <2>5, <2>6, <2>7, <2>8, <2>9, <2>10, <2>11
        DEF Station, SmTyped
<1>4. Ages(m, r, n, r)
  <2>1. n.ANonce = m.ANonce /\ n.ctr = m.ctr /\ n.PTK_valid = FALSE
    BY <1>1 DEF NoKeyPart, SentPart
  <2>2. r <= r  OBVIOUS
  <2> QED BY <1>2, <2>1, <2>2, AgesWithoutKey
<1> QED BY <1>3, <1>4 DEF Struck

(* A pending group key update is cancelled, if there is one.               *)
Cancelled(m, k) ==
  /\ k.ptk = m.ptk /\ k.requests = m.requests
  /\ k.TimeoutCtr = m.TimeoutCtr /\ k.TimeoutEvt = m.TimeoutEvt
  /\ k.grp = m.grp /\ k.GTimeoutCtr = m.GTimeoutCtr /\ k.GUpdateStationKeys = FALSE
  /\ k.PtkGroupInit \in BOOLEAN /\ SmShape(k)
  /\ RxPart(m, k) /\ KeyPart(m, k) /\ SentPart(m, k)

(* The flag PtkGroupInit is set then.                                      *)
LEMMA CancelEffect ==
  ASSUME NEW m, SmShape(m),
         NEW v, v = [m EXCEPT !.GUpdateStationKeys = FALSE],
         NEW k, k = [v EXCEPT !.PtkGroupInit = TRUE]
  PROVE  Cancelled(m, k)
BY DEF Cancelled, SmShape, RxPart, KeyPart, SentPart

(* WPA_REAUTH: the pending group key update is cancelled.                  *)
Reauthed(m, n) ==
  /\ n.ptk = m.ptk /\ n.requests = {"ReAuthentication"}
  /\ n.TimeoutCtr = m.TimeoutCtr /\ n.TimeoutEvt = m.TimeoutEvt
  /\ n.grp = m.grp /\ n.GTimeoutCtr = m.GTimeoutCtr /\ n.GUpdateStationKeys = FALSE
  /\ n.PtkGroupInit \in BOOLEAN
  /\ RxPart(m, n) /\ NoKeyPart(m, n) /\ SentPart(m, n)

(* It is what EventReauth does.                                            *)
LEMMA ReauthEffect ==
  ASSUME NEW m, SmOK(m), m.requests = {}, m.PtkGroupInit = FALSE,
         NEW x, XOK(x), x.sm = m, NEW n, n = EventReauth(x).sm
  PROVE  Reauthed(m, n)
<1>1. PICK z : z = IF m.GUpdateStationKeys
                   THEN [Discount(x) EXCEPT !.sm.PtkGroupInit = TRUE] ELSE x
  OBVIOUS
<1>3. PICK k : k = z.sm  OBVIOUS
<1>4. n = [[k EXCEPT !.PTK_valid = FALSE, !.PTK = NoKey, !.key = NoKey, !.rekey = FALSE]
             EXCEPT !.requests = @ \cup {"ReAuthentication"}]
  <2>1. XShape(z)
    <3>1. CASE m.GUpdateStationKeys = TRUE
      BY <1>1, <3>1 DEF XOK, XShape, Discount
    <3>2. CASE m.GUpdateStationKeys = FALSE  BY <1>1, <3>2 DEF XOK
    <3> QED BY <3>1, <3>2 DEF SmOK
  <2>2. EventReauth(x) = [z EXCEPT !.sm = [wpa_remove_ptk(z.sm) EXCEPT
                                       !.requests = @ \cup {"ReAuthentication"}]]
    BY <1>1 DEF EventReauth
  <2> QED BY <1>3, <2>1, <2>2 DEF XShape, wpa_remove_ptk
<1>5. SmShape(m) /\ m.requests = {} /\ m.PtkGroupInit = FALSE
      /\ m.GUpdateStationKeys \in BOOLEAN
  BY DEF SmOK
<1>6. Cancelled(m, k)
  <2>1. CASE m.GUpdateStationKeys = TRUE
    <3>1. PICK u : u = Discount(x)  OBVIOUS
    <3>2. XShape(u) /\ u.sm = [m EXCEPT !.GUpdateStationKeys = FALSE]
      BY <3>1 DEF XOK, XShape, Discount
    <3>3. PICK v : v = u.sm  OBVIOUS
    <3>4. z.sm = [v EXCEPT !.PtkGroupInit = TRUE]
      BY <1>1, <2>1, <3>1, <3>2, <3>3 DEF XShape
    <3>5. k = [v EXCEPT !.PtkGroupInit = TRUE]  BY <1>3, <3>4
    <3>6. v = [m EXCEPT !.GUpdateStationKeys = FALSE]  BY <3>2, <3>3
    <3>7. SmShape(m)  BY <1>5
    <3> QED BY <3>5, <3>6, <3>7, CancelEffect
  <2>2. CASE m.GUpdateStationKeys = FALSE
    <3>1. k = m  BY <1>1, <1>3, <2>2
    <3> QED BY <1>5, <2>2, <3>1 DEF Cancelled, RxPart, KeyPart, SentPart
  <2> QED BY <1>5, <2>1, <2>2
<1>7. n.requests = k.requests \cup {"ReAuthentication"}  BY <1>4, <1>6 DEF Cancelled,
SmShape
<1>8. /\ n.ptk = k.ptk /\ n.TimeoutCtr = k.TimeoutCtr /\ n.TimeoutEvt = k.TimeoutEvt
      /\ GroupPart(k, n) /\ RxPart(k, n) /\ NoKeyPart(k, n) /\ SentPart(k, n)
  BY <1>4, <1>6 DEF Cancelled, SmShape, RxPart, NoKeyPart, SentPart, GroupPart
<1>9. n.requests = {"ReAuthentication"}  BY <1>5, <1>6, <1>7 DEF Cancelled
<1> QED BY <1>6, <1>8, <1>9 DEF Reauthed, Cancelled, GroupPart, RxPart, KeyPart, NoKeyPart,
       SentPart

(* After the pairwise key was removed.                                     *)
LEMMA ReauthStruck ==
  ASSUME NEW m, SmOK(m), NEW c, NEW r \in Nat, Station(m, c, r), AtEase(m),
         NEW k, SmOK(k), k = wpa_remove_ptk(m),
         NEW x, XOK(x), x.sm = k, NEW n, n = EventReauth(x).sm
  PROVE  Struck(m, n, c, r)
<1>1. /\ n.ptk = m.ptk /\ n.requests = {"ReAuthentication"}
      /\ n.TimeoutCtr = m.TimeoutCtr /\ n.TimeoutEvt = m.TimeoutEvt
      /\ n.grp = m.grp /\ n.GTimeoutCtr = m.GTimeoutCtr /\ n.GUpdateStationKeys = FALSE
      /\ n.PtkGroupInit \in BOOLEAN
      /\ RxPart(m, n) /\ NoKeyPart(m, n) /\ SentPart(m, n)
  <2>1. /\ k.requests = {} /\ k.PtkGroupInit = FALSE /\ k.ptk = m.ptk
        /\ k.TimeoutCtr = m.TimeoutCtr /\ k.TimeoutEvt = m.TimeoutEvt
        /\ GroupPart(m, k) /\ RxPart(m, k) /\ NoKeyPart(m, k) /\ SentPart(m, k)
    BY RemoveEffect DEF AtEase, GroupPart
  <2>2. Reauthed(k, n)
    <3>1. k.requests = {} /\ k.PtkGroupInit = FALSE  BY <2>1
    <3> QED BY <3>1, ReauthEffect
  <2> QED BY <2>1, <2>2 DEF Reauthed, GroupPart, RxPart, NoKeyPart, SentPart
<1>2. m.requests = {} /\ m.ctr \in Nat
  BY DEF AtEase, Station, SmTyped, SmCounters
<1>3. Station(n, c, r)
  <2>1. /\ SmFlags(m) /\ SmCounters(m) /\ SmWindow(m) /\ TriesOK(m) /\ RxOK(m) /\ EvtOK(m)
        /\ GrpOK(m) /\ KeyOK(m, r) /\ TimerOK(m) /\ GroupTimerOK(m, c)
    BY <1>1 DEF Station, SmTyped
  <2>2. SmFlags(n)
    BY <1>1, <2>1 DEF SmFlags, PtkStates, GroupStates, AtEase, GroupPart, RxPart, KeyPart,
       NoKeyPart, SentPart
  <2>3. SmCounters(n)
    BY <1>1, <2>1, WpaAssumption DEF SmCounters, TriesOK, AtEase, GroupPart, RxPart,
       KeyPart, NoKeyPart, SentPart
  <2>4. SmWindow(n)
    BY <1>1, <2>1 DEF SmWindow, SmCounters, AtEase, GroupPart, RxPart, KeyPart, NoKeyPart,
       SentPart
  <2>5. TriesOK(n)
    BY <1>1, <2>1, WpaAssumption DEF TriesOK, SmCounters, AtEase, GroupPart, RxPart,
       KeyPart, NoKeyPart, SentPart
  <2>6. RxOK(n)
    BY <1>1, <2>1, WpaAssumption DEF RxOK, SmFlags, SmCounters, AtEase, GroupPart, RxPart,
       KeyPart, NoKeyPart, SentPart
  <2>7. EvtOK(n)
    BY <1>1, <2>1, WpaAssumption DEF EvtOK, SmCounters, Handshake, Awaiting, AtEase,
       GroupPart, RxPart, KeyPart, NoKeyPart, SentPart
  <2>8. GrpOK(n)
    BY <1>1, <2>1 DEF GrpOK, AtEase, GroupPart, RxPart, KeyPart, NoKeyPart, SentPart
  <2>9. KeyOK(n, r)
    BY <1>1, <2>1 DEF KeyOK, SmFlags, SmCounters, Handshake, Awaiting, AtEase, GroupPart,
       RxPart, KeyPart, NoKeyPart, SentPart
  <2>10. TimerOK(n)
    BY <1>1, <2>1, WpaAssumption DEF TimerOK, Waiting, Excused, Awaiting, TriesOK, RxOK, SmFlags,
       SmCounters, AtEase, GroupPart, RxPart, KeyPart, NoKeyPart, SentPart
  <2>11. GroupTimerOK(n, c)
    BY <1>1, <2>1, WpaAssumption DEF GroupTimerOK, GroupWaits, Handshake, Awaiting,
       SmFlags, SmCounters, AtEase, GroupPart, RxPart, KeyPart, NoKeyPart, SentPart
  <2> QED BY <2>2, <2>3, <2>4, <2>5, <2>6, <2>7, <2>8, <2>9, <2>10, <2>11
        DEF Station, SmTyped
<1>4. Ages(m, r, n, r)
  BY <1>1, AgesRenewed DEF NoKeyPart
<1> QED BY <1>3, <1>4 DEF Struck

(* wpa_auth_sta_associated: the counter of a station that was known before *)
(* starts anew, and so does its nonce.                                     *)
LEMMA AssociatedStruck ==
  ASSUME NEW m, SmOK(m), NEW c, NEW r \in Nat, Station(m, c, r), AtEase(m),
         NEW n, n = [wpa_auth_sta_associated(wpa_remove_ptk(m)) EXCEPT !.assoc = TRUE]
  PROVE  Struck(m, n, c, r)
<1>1. /\ n.ptk = m.ptk
      /\ n.TimeoutCtr = m.TimeoutCtr /\ n.TimeoutEvt = m.TimeoutEvt
      /\ GroupPart(m, n) /\ RxPart(m, n) /\ NoKeyPart(m, n) /\ n.timers = m.timers
      /\ \/ n.requests = {"ReAuthentication"} /\ n.ctr = 0 /\ n.valid = {}
         \/ n.requests = {"Authentication"} /\ n.ctr = m.ctr /\ n.valid = m.valid
  <2>1. PICK k : k = wpa_remove_ptk(m)  OBVIOUS
  <2>2. m.requests = {}  BY DEF AtEase
  <2>3. /\ SmShape(k) /\ k.requests = m.requests /\ k.ptk = m.ptk
        /\ k.TimeoutCtr = m.TimeoutCtr /\ k.TimeoutEvt = m.TimeoutEvt
        /\ GroupPart(m, k) /\ RxPart(m, k) /\ NoKeyPart(m, k) /\ SentPart(m, k)
    BY <2>1, RemoveEffect
  <2>4. SmShape(k)  BY <2>3
  <2>5. CASE k.started
    <3>1. PICK l : l = [[k EXCEPT !.ctr = 0, !.valid = {},
                                  !.requests = @ \cup {"ReAuthentication"}]
                          EXCEPT !.assoc = TRUE]
      OBVIOUS
    <3>2. /\ l.ptk = k.ptk /\ l.TimeoutCtr = k.TimeoutCtr /\ l.TimeoutEvt = k.TimeoutEvt
          /\ GroupPart(k, l) /\ RxPart(k, l) /\ KeyPart(k, l) /\ l.timers = k.timers
          /\ l.ctr = 0 /\ l.valid = {}
          /\ l.requests = k.requests \cup {"ReAuthentication"}
      BY <2>4, <3>1 DEF SmShape, GroupPart, RxPart, KeyPart
    <3>3. l.requests = {"ReAuthentication"}  BY <2>2, <2>3, <3>2
    <3>4. n = l  BY <2>1, <2>5, <3>1 DEF wpa_auth_sta_associated
    <3> QED BY <2>3, <3>2, <3>3, <3>4 DEF GroupPart, RxPart, KeyPart, NoKeyPart, SentPart
  <2>6. CASE ~k.started
    <3>1. PICK l : l = [[k EXCEPT !.started = TRUE, !.requests = @ \cup {"Authentication"}]
                          EXCEPT !.assoc = TRUE]
      OBVIOUS
    <3>2. /\ l.ptk = k.ptk /\ l.TimeoutCtr = k.TimeoutCtr /\ l.TimeoutEvt = k.TimeoutEvt
          /\ GroupPart(k, l) /\ RxPart(k, l) /\ KeyPart(k, l) /\ SentPart(k, l)
          /\ l.requests = k.requests \cup {"Authentication"}
      BY <2>4, <3>1 DEF SmShape, GroupPart, RxPart, KeyPart, SentPart
    <3>3. l.requests = {"Authentication"}  BY <2>2, <2>3, <3>2
    <3>4. n = l  BY <2>1, <2>6, <3>1 DEF wpa_auth_sta_associated
    <3> QED BY <2>3, <3>2, <3>3, <3>4 DEF GroupPart, RxPart, KeyPart, NoKeyPart, SentPart
  <2> QED BY <2>5, <2>6
<1>2. m.requests = {} /\ m.ctr \in Nat  BY DEF AtEase, Station, SmTyped, SmCounters
<1>3. Station(n, c, r)
  <2>1. /\ SmFlags(m) /\ SmCounters(m) /\ SmWindow(m) /\ TriesOK(m) /\ RxOK(m) /\ EvtOK(m)
        /\ GrpOK(m) /\ KeyOK(m, r) /\ TimerOK(m) /\ GroupTimerOK(m, c)
    BY <1>1 DEF Station, SmTyped
  <2>2. SmFlags(n)
    BY <1>1, <2>1 DEF SmFlags, PtkStates, GroupStates, AtEase, GroupPart, RxPart, NoKeyPart
  <2>3. SmCounters(n)
    BY <1>1, <2>1, WpaAssumption DEF SmCounters, TriesOK, AtEase, GroupPart, RxPart,
       NoKeyPart
  <2>4. SmWindow(n)
    BY <1>1, <2>1 DEF SmWindow, SmCounters, AtEase, GroupPart, RxPart, NoKeyPart
  <2>5. TriesOK(n)
    BY <1>1, <2>1, WpaAssumption DEF TriesOK, SmCounters, AtEase, GroupPart, RxPart,
       NoKeyPart
  <2>6. RxOK(n)
    BY <1>1, <2>1, WpaAssumption DEF RxOK, SmFlags, SmCounters, AtEase, GroupPart, RxPart,
       NoKeyPart
  <2>7. EvtOK(n)
    BY <1>1, <2>1, WpaAssumption DEF EvtOK, SmCounters, Handshake, Awaiting, AtEase,
       GroupPart, RxPart, NoKeyPart
  <2>8. GrpOK(n)
    BY <1>1, <2>1 DEF GrpOK, AtEase, GroupPart, RxPart, NoKeyPart
  <2>9. KeyOK(n, r)
    BY <1>1, <2>1 DEF KeyOK, SmFlags, SmCounters, Handshake, Awaiting, AtEase, GroupPart,
       RxPart, NoKeyPart
  <2>10. TimerOK(n)
    BY <1>1, <2>1, WpaAssumption DEF TimerOK, Waiting, Excused, Awaiting, TriesOK, RxOK, SmFlags,
       SmCounters, AtEase, GroupPart, RxPart, NoKeyPart
  <2>11. GroupTimerOK(n, c)
    BY <1>1, <2>1, WpaAssumption DEF GroupTimerOK, GroupWaits, Handshake, Awaiting,
       SmFlags, SmCounters, AtEase, GroupPart, RxPart, NoKeyPart
  <2> QED BY <2>2, <2>3, <2>4, <2>5, <2>6, <2>7, <2>8, <2>9, <2>10, <2>11
        DEF Station, SmTyped
<1>4. Ages(m, r, n, r)
  <2>1. CASE n.requests = {"ReAuthentication"}
    BY <1>1, <2>1, AgesRenewed DEF NoKeyPart
  <2>2. CASE n.requests = {"Authentication"} /\ n.ctr = m.ctr
    <3>1. n.ANonce = m.ANonce /\ n.PTK_valid = FALSE  BY <1>1 DEF NoKeyPart
    <3>2. r <= r  OBVIOUS
    <3> QED BY <1>2, <2>2, <3>1, <3>2, AgesWithoutKey
  <2> QED BY <1>1, <2>1, <2>2
<1> QED BY <1>3, <1>4 DEF Struck

(* wpa_group_update_sta.                                                   *)
LEMMA UpdateStruck ==
  ASSUME NEW m, SmOK(m), NEW c, NEW r \in Nat, Station(m, c, r), AtEase(m),
         NEW v \in BOOLEAN, v = TRUE => m.ptk = "PTKINITDONE",
         NEW n, n = [m EXCEPT !.GUpdateStationKeys = v]
  PROVE  Struck(m, n, c, r) /\ (v = FALSE => AtEase(n))
<1>1. /\ n.ptk = m.ptk /\ n.requests = m.requests
      /\ n.TimeoutCtr = m.TimeoutCtr /\ n.TimeoutEvt = m.TimeoutEvt
      /\ KeyPart(m, n) /\ RxPart(m, n) /\ SentPart(m, n)
      /\ n.grp = m.grp /\ n.PtkGroupInit = m.PtkGroupInit
      /\ n.GTimeoutCtr = m.GTimeoutCtr /\ n.GUpdateStationKeys = v
  BY DEF SmOK, SmShape, KeyPart, RxPart, SentPart
<1>2. m.requests = {} /\ m.ctr \in Nat
  BY DEF AtEase, Station, SmTyped, SmCounters
<1>3. Station(n, c, r)
  <2>1. /\ SmFlags(m) /\ SmCounters(m) /\ SmWindow(m) /\ TriesOK(m) /\ RxOK(m) /\ EvtOK(m)
        /\ GrpOK(m) /\ KeyOK(m, r) /\ TimerOK(m) /\ GroupTimerOK(m, c)
    BY <1>1 DEF Station, SmTyped
  <2>2. SmFlags(n)
    BY <1>1, <2>1 DEF SmFlags, PtkStates, GroupStates, AtEase, GroupPart, RxPart, KeyPart,
       NoKeyPart, SentPart
  <2>3. SmCounters(n)
    BY <1>1, <2>1, WpaAssumption DEF SmCounters, TriesOK, AtEase, GroupPart, RxPart,
       KeyPart, NoKeyPart, SentPart
  <2>4. SmWindow(n)
    BY <1>1, <2>1 DEF SmWindow, SmCounters, AtEase, GroupPart, RxPart, KeyPart, NoKeyPart,
       SentPart
  <2>5. TriesOK(n)
    BY <1>1, <2>1, WpaAssumption DEF TriesOK, SmCounters, AtEase, GroupPart, RxPart,
       KeyPart, NoKeyPart, SentPart
  <2>6. RxOK(n)
    BY <1>1, <2>1, WpaAssumption DEF RxOK, SmFlags, SmCounters, AtEase, GroupPart, RxPart,
       KeyPart, NoKeyPart, SentPart
  <2>7. EvtOK(n)
    BY <1>1, <2>1, WpaAssumption DEF EvtOK, SmCounters, Handshake, Awaiting, AtEase,
       GroupPart, RxPart, KeyPart, NoKeyPart, SentPart
  <2>8. GrpOK(n)
    BY <1>1, <2>1 DEF GrpOK, AtEase, GroupPart, RxPart, KeyPart, NoKeyPart, SentPart
  <2>9. KeyOK(n, r)
    BY <1>1, <2>1 DEF KeyOK, SmFlags, SmCounters, Handshake, Awaiting, AtEase, GroupPart,
       RxPart, KeyPart, NoKeyPart, SentPart
  <2>10. TimerOK(n)
    BY <1>1, <2>1, WpaAssumption DEF TimerOK, Waiting, Excused, Awaiting, TriesOK, RxOK, SmFlags,
       SmCounters, AtEase, GroupPart, RxPart, KeyPart, NoKeyPart, SentPart
  <2>11. GroupTimerOK(n, c)
    BY <1>1, <2>1, WpaAssumption DEF GroupTimerOK, GroupWaits, Handshake, Awaiting,
       SmFlags, SmCounters, AtEase, GroupPart, RxPart, KeyPart, NoKeyPart, SentPart
  <2> QED BY <2>2, <2>3, <2>4, <2>5, <2>6, <2>7, <2>8, <2>9, <2>10, <2>11
        DEF Station, SmTyped
<1>4. Ages(m, r, n, r)
  BY <1>1, AgesSame DEF KeyPart, SentPart
<1>5. v = FALSE => AtEase(n)  BY <1>1 DEF AtEase, Excused, RxPart, KeyPart, SentPart
<1> QED BY <1>3, <1>4, <1>5 DEF Struck

(* What is noted of a frame f that is accepted.                            *)
Received(m, f, n) ==
  /\ n.ptk = m.ptk /\ n.TimeoutCtr = m.TimeoutCtr /\ n.TimeoutEvt = m.TimeoutEvt
  /\ GroupPart(m, n) /\ n.ctr = m.ctr /\ n.ANonce = m.ANonce /\ n.rekey = m.rekey
  /\ Checked(m, f) => n.MICVerified = TRUE /\ n.timers = 0
  /\ ~Checked(m, f) => n.MICVerified = FALSE /\ n.timers = m.timers
  /\ SNonceUpdate(m, f) => n.update_snonce = TRUE
  /\ ~SNonceUpdate(m, f) => n.update_snonce = FALSE
  /\ n.PTK \in {m.PTK, AltKey(m)}
  /\ f.msg = "request" =>
       /\ n.PTK_valid = FALSE /\ n.requests = m.requests \cup {"PTK"}
       /\ n.valid = m.valid /\ n.rx = "request"
  /\ f.msg = "grequest" =>
       /\ n.PTK_valid = m.PTK_valid /\ n.requests = m.requests
       /\ n.valid = m.valid /\ n.rx = "grequest"
  /\ f.msg \notin Requests =>
       /\ n.PTK_valid = m.PTK_valid /\ n.requests = m.requests /\ n.valid = {}
       /\ n.rx = IF f.msg = "2/2" THEN "group" ELSE "pairwise"

(* wpa_receive notes it.                                                   *)
LEMMA ReceiveEffect ==
  ASSUME NEW m, SmOK(m), m.update_snonce = FALSE, NEW f, NEW n, n = wpa_receive(m, f)
  PROVE  Received(m, f, n)
<1>1. SmShape(m)  BY DEF SmOK
<1>2. /\ n.ptk = m.ptk /\ n.TimeoutCtr = m.TimeoutCtr /\ n.TimeoutEvt = m.TimeoutEvt
      /\ GroupPart(m, n) /\ n.ctr = m.ctr /\ n.ANonce = m.ANonce /\ n.rekey = m.rekey
  BY <1>1 DEF SmShape, GroupPart, wpa_receive
<1>3. /\ n.timers = IF Checked(m, f) THEN 0 ELSE m.timers
      /\ n.PTK = IF Checked(m, f) /\ AltMic(m, f) THEN AltKey(m) ELSE m.PTK
      /\ n.PTK_valid = IF f.msg = "request" THEN FALSE ELSE m.PTK_valid
      /\ n.requests = IF f.msg = "request" THEN m.requests \cup {"PTK"} ELSE m.requests
      /\ n.valid = IF f.msg \in Requests THEN m.valid ELSE {}
      /\ n.rx = IF f.msg \in Requests THEN f.msg
                ELSE IF f.msg = "2/2" THEN "group" ELSE "pairwise"
  BY <1>1 DEF SmShape, wpa_receive
<1>4. n.MICVerified = Checked(m, f) /\ n.update_snonce = (m.update_snonce \/ SNonceUpdate(m, f))
  BY <1>1 DEF SmShape, wpa_receive
<1>5. /\ Checked(m, f) => n.MICVerified = TRUE
      /\ ~Checked(m, f) => n.MICVerified = FALSE
      /\ SNonceUpdate(m, f) => n.update_snonce = TRUE
      /\ ~SNonceUpdate(m, f) => n.update_snonce = FALSE
  BY <1>4 DEF Checked, SNonceUpdate
<1>6. "request" \in Requests /\ "grequest" \in Requests /\ "request" # "grequest"
  BY DEF Requests
<1> QED BY <1>2, <1>3, <1>5, <1>6 DEF Received

(* The station asks for a new pairwise key.                                *)
LEMMA RequestStruck ==
  ASSUME NEW m, SmOK(m), NEW c, NEW r \in Nat, Station(m, c, r), AtEase(m),
         NEW f, UpFrame(f, m, r), Expected(m, f), ~MicRefused(m, f), f.msg = "request",
         NEW n, n = wpa_receive(m, f)
  PROVE  Struck(m, n, c, r)
<1>1. m.requests = {} /\ m.update_snonce = FALSE /\ m.PTK_valid \in BOOLEAN /\ m.ctr \in Nat
  BY DEF AtEase, Station, SmTyped, SmFlags, SmCounters
<1>2. Checked(m, f) /\ ~SNonceUpdate(m, f) /\ m.PTK_valid = TRUE
  BY <1>1 DEF MicRefused, Checked, SNonceUpdate, Requests
<1>3. /\ n.ptk = m.ptk /\ n.TimeoutCtr = m.TimeoutCtr /\ n.TimeoutEvt = m.TimeoutEvt
      /\ GroupPart(m, n) /\ n.ctr = m.ctr /\ n.ANonce = m.ANonce /\ n.rekey = m.rekey
      /\ n.MICVerified = TRUE /\ n.timers = 0 /\ n.update_snonce = FALSE
      /\ n.PTK_valid = FALSE /\ n.requests = m.requests \cup {"PTK"}
      /\ n.valid = m.valid /\ n.rx = "request"
  <2>1. Received(m, f, n)  BY <1>1, ReceiveEffect
  <2> QED BY <1>2, <2>1 DEF Received
<1>4. n.requests = {"PTK"} /\ m.PTK_valid = TRUE  BY <1>1, <1>2, <1>3
<1>5. Station(n, c, r)
  <2>1. /\ SmFlags(m) /\ SmCounters(m) /\ SmWindow(m) /\ TriesOK(m) /\ RxOK(m) /\ EvtOK(m)
        /\ GrpOK(m) /\ KeyOK(m, r) /\ TimerOK(m) /\ GroupTimerOK(m, c)
    BY <1>3, <1>4 DEF Station, SmTyped
  <2>2. SmFlags(n)
    BY <1>3, <1>4, <2>1 DEF SmFlags, PtkStates, GroupStates, AtEase, GroupPart
  <2>3. SmCounters(n)
    BY <1>3, <1>4, <2>1, WpaAssumption DEF SmCounters, TriesOK, AtEase, GroupPart
  <2>4. SmWindow(n)
    BY <1>3, <1>4, <2>1 DEF SmWindow, SmCounters, AtEase, GroupPart
  <2>5. TriesOK(n)
    BY <1>3, <1>4, <2>1, WpaAssumption DEF TriesOK, SmCounters, AtEase, GroupPart
  <2>6. RxOK(n)
    BY <1>3, <1>4, <2>1, WpaAssumption DEF RxOK, SmFlags, SmCounters, AtEase, GroupPart
  <2>7. EvtOK(n)
    BY <1>3, <1>4, <2>1, WpaAssumption DEF EvtOK, SmCounters, Handshake, Awaiting, AtEase,
       GroupPart
  <2>8. GrpOK(n)
    BY <1>3, <1>4, <2>1 DEF GrpOK, AtEase, GroupPart
  <2>9. KeyOK(n, r)
    BY <1>3, <1>4, <2>1 DEF KeyOK, SmFlags, SmCounters, Handshake, Awaiting, AtEase,
       GroupPart
  <2>10. TimerOK(n)
    BY <1>3, <1>4, <2>1, WpaAssumption DEF TimerOK, Waiting, Excused, Awaiting, TriesOK, RxOK,
       SmFlags, SmCounters, AtEase, GroupPart
  <2>11. GroupTimerOK(n, c)
    BY <1>3, <1>4, <2>1, WpaAssumption DEF GroupTimerOK, GroupWaits, Handshake, Awaiting,
       SmFlags, SmCounters, AtEase, GroupPart
  <2> QED BY <2>2, <2>3, <2>4, <2>5, <2>6, <2>7, <2>8, <2>9, <2>10, <2>11
        DEF Station, SmTyped
<1>6. Ages(m, r, n, r)
  <2>1. r <= r  OBVIOUS
  <2> QED BY <1>1, <1>3, <2>1, AgesWithoutKey
<1> QED BY <1>5, <1>6 DEF Struck

(* The station asks for a group key: the timeouts are cancelled, and no    *)
(* machine moves but one that had refused the last MIC.                    *)
LEMMA GroupRequestStruck ==
  ASSUME NEW m, SmOK(m), NEW c, NEW r \in Nat, Station(m, c, r), AtEase(m),
         NEW f, UpFrame(f, m, r), Expected(m, f), ~MicRefused(m, f), f.msg = "grequest",
         NEW n, n = wpa_receive(m, f)
  PROVE  Struck(m, n, c, r) /\ AtEase(n)
<1>1. m.requests = {} /\ m.update_snonce = FALSE /\ m.PTK_valid \in BOOLEAN /\ m.ctr \in Nat
  BY DEF AtEase, Station, SmTyped, SmFlags, SmCounters
<1>2. Checked(m, f) /\ ~SNonceUpdate(m, f) /\ m.PTK_valid = TRUE
  BY <1>1 DEF MicRefused, Checked, SNonceUpdate, Requests
<1>3. /\ n.ptk = m.ptk /\ n.TimeoutCtr = m.TimeoutCtr /\ n.TimeoutEvt = m.TimeoutEvt
      /\ GroupPart(m, n) /\ n.ctr = m.ctr /\ n.ANonce = m.ANonce /\ n.rekey = m.rekey
      /\ n.MICVerified = TRUE /\ n.timers = 0 /\ n.update_snonce = FALSE
      /\ n.PTK_valid = m.PTK_valid /\ n.requests = m.requests
      /\ n.valid = m.valid /\ n.rx = "grequest"
      /\ n.PTK \in {m.PTK, AltKey(m)}
  <2>1. Received(m, f, n)  BY <1>1, ReceiveEffect
  <2> QED BY <1>2, <2>1 DEF Received
<1>4. n.PTK[2] = m.ANonce /\ n.requests = {}
  <2>1. m.PTK[2] = m.ANonce  BY <1>2 DEF Station, KeyOK
  <2> QED BY <1>1, <1>3, <2>1 DEF AltKey, Ptk
<1>5. Station(n, c, r)
  <2>1. /\ SmFlags(m) /\ SmCounters(m) /\ SmWindow(m) /\ TriesOK(m) /\ RxOK(m) /\ EvtOK(m)
        /\ GrpOK(m) /\ KeyOK(m, r) /\ TimerOK(m) /\ GroupTimerOK(m, c)
    BY <1>3, <1>4 DEF Station, SmTyped
  <2>2. SmFlags(n)
    BY <1>3, <1>4, <2>1 DEF SmFlags, PtkStates, GroupStates, AtEase, GroupPart
  <2>3. SmCounters(n)
    BY <1>3, <1>4, <2>1, WpaAssumption DEF SmCounters, TriesOK, AtEase, GroupPart
  <2>4. SmWindow(n)
    BY <1>3, <1>4, <2>1 DEF SmWindow, SmCounters, AtEase, GroupPart
  <2>5. TriesOK(n)
    BY <1>3, <1>4, <2>1, WpaAssumption DEF TriesOK, SmCounters, AtEase, GroupPart
  <2>6. RxOK(n)
    BY <1>3, <1>4, <2>1, WpaAssumption DEF RxOK, SmFlags, SmCounters, AtEase, GroupPart
  <2>7. EvtOK(n)
    BY <1>3, <1>4, <2>1, WpaAssumption DEF EvtOK, SmCounters, Handshake, Awaiting, AtEase,
       GroupPart
  <2>8. GrpOK(n)
    BY <1>3, <1>4, <2>1 DEF GrpOK, AtEase, GroupPart
  <2>9. KeyOK(n, r)
    BY <1>3, <1>4, <2>1 DEF KeyOK, SmFlags, SmCounters, Handshake, Awaiting, AtEase,
       GroupPart
  <2>10. TimerOK(n)
    BY <1>2, <1>3, <1>4 DEF TimerOK, Excused
  <2>11. GroupTimerOK(n, c)
    BY <1>3, <1>4, <2>1, WpaAssumption DEF GroupTimerOK, GroupWaits, Handshake, Awaiting,
       SmFlags, SmCounters, AtEase, GroupPart
  <2> QED BY <2>2, <2>3, <2>4, <2>5, <2>6, <2>7, <2>8, <2>9, <2>10, <2>11
        DEF Station, SmTyped
<1>6. Ages(m, r, n, r)
  BY <1>3, AgesSame
<1>7. AtEase(n)  BY <1>2, <1>3, <1>4 DEF AtEase, Excused, GroupPart
<1> QED BY <1>5, <1>6, <1>7 DEF Struck

(* A frame of the group key handshake: it is not taken for an answer to a  *)
(* pairwise handshake, so that the timeout it cancels is not missed.       *)
LEMMA GroupFrameStruck ==
  ASSUME NEW m, SmOK(m), NEW c, NEW r \in Nat, Station(m, c, r), AtEase(m),
         NEW f, UpFrame(f, m, r), Expected(m, f), ~MicRefused(m, f), f.msg = "2/2",
         NEW n, n = wpa_receive(m, f)
  PROVE  Struck(m, n, c, r)
<1>1. m.requests = {} /\ m.update_snonce = FALSE /\ m.PTK_valid \in BOOLEAN /\ m.ctr \in Nat
  BY DEF AtEase, Station, SmTyped, SmFlags, SmCounters
<1>2. f.rc \in m.valid /\ m.grp = "REKEYNEGOTIATING" /\ m.PTK_valid = TRUE
  BY <1>1 DEF Expected, Requests
<1>3. ~SNonceUpdate(m, f) /\ Checked(m, f) /\ f.mic = m.PTK
  BY <1>1, <1>2 DEF MicRefused, AltMic, Checked, SNonceUpdate
<1>4. f.mic[2] = m.ANonce  BY <1>2, <1>3 DEF Station, KeyOK
<1>5. m.ptk \notin Handshake
  BY <1>2, <1>4 DEF UpFrame, Old
<1>6. m.ptk = "PTKINITDONE"
  <2>1. m.ptk # "INITIALIZE"  BY <1>2 DEF Station, KeyOK
  <2> QED BY <1>5, <2>1 DEF AtEase, Handshake
<1>7. /\ n.ptk = m.ptk /\ n.TimeoutCtr = m.TimeoutCtr /\ n.TimeoutEvt = m.TimeoutEvt
      /\ GroupPart(m, n) /\ n.ctr = m.ctr /\ n.ANonce = m.ANonce /\ n.rekey = m.rekey
      /\ n.MICVerified = TRUE /\ n.timers = 0 /\ n.update_snonce = FALSE
      /\ n.PTK_valid = m.PTK_valid /\ n.requests = m.requests
      /\ n.valid = {} /\ n.rx = "group"
      /\ n.PTK \in {m.PTK, AltKey(m)}
  <2>1. Received(m, f, n)  BY <1>1, ReceiveEffect
  <2> QED BY <1>3, <2>1 DEF Received, Requests
<1>8. n.PTK[2] = m.ANonce
  BY <1>3, <1>4, <1>7 DEF AltKey, Ptk
<1>9. Station(n, c, r)
  <2>1. /\ SmFlags(m) /\ SmCounters(m) /\ SmWindow(m) /\ TriesOK(m) /\ RxOK(m) /\ EvtOK(m)
        /\ GrpOK(m) /\ KeyOK(m, r) /\ TimerOK(m) /\ GroupTimerOK(m, c)
    BY <1>1, <1>2, <1>6, <1>7, <1>8 DEF Station, SmTyped
  <2>2. SmFlags(n)
    BY <1>1, <1>2, <1>6, <1>7, <1>8, <2>1 DEF SmFlags, PtkStates, GroupStates, AtEase,
       GroupPart
  <2>3. SmCounters(n)
    BY <1>1, <1>2, <1>6, <1>7, <1>8, <2>1, WpaAssumption DEF SmCounters, TriesOK, AtEase,
       GroupPart
  <2>4. SmWindow(n)
    BY <1>1, <1>2, <1>6, <1>7, <1>8, <2>1 DEF SmWindow, SmCounters, AtEase, GroupPart
  <2>5. TriesOK(n)
    BY <1>1, <1>2, <1>6, <1>7, <1>8, <2>1, WpaAssumption DEF TriesOK, SmCounters, AtEase,
       GroupPart
  <2>6. RxOK(n)
    BY <1>1, <1>2, <1>6, <1>7, <1>8, <2>1, WpaAssumption DEF RxOK, SmFlags, SmCounters,
       AtEase, GroupPart
  <2>7. EvtOK(n)
    BY <1>1, <1>2, <1>6, <1>7, <1>8, <2>1, WpaAssumption DEF EvtOK, SmCounters, Handshake,
       Awaiting, AtEase, GroupPart
  <2>8. GrpOK(n)
    BY <1>1, <1>2, <1>6, <1>7, <1>8, <2>1 DEF GrpOK, AtEase, GroupPart
  <2>9. KeyOK(n, r)
    BY <1>1, <1>2, <1>6, <1>7, <1>8, <2>1 DEF KeyOK, SmFlags, SmCounters, Handshake,
       Awaiting, AtEase, GroupPart
  <2>10. TimerOK(n)
    BY <1>1, <1>2, <1>6, <1>7, <1>8, <2>1, WpaAssumption DEF TimerOK, Waiting, Excused, Awaiting,
       TriesOK, RxOK, SmFlags, SmCounters, AtEase, GroupPart
  <2>11. GroupTimerOK(n, c)
    BY <1>1, <1>2, <1>6, <1>7, <1>8, <2>1, WpaAssumption DEF GroupTimerOK, GroupWaits,
       Handshake, Awaiting, SmFlags, SmCounters, AtEase, GroupPart
  <2> QED BY <2>2, <2>3, <2>4, <2>5, <2>6, <2>7, <2>8, <2>9, <2>10, <2>11
        DEF Station, SmTyped
<1>10. Ages(m, r, n, r)
  BY <1>7, AgesUsed
<1> QED BY <1>9, <1>10 DEF Struck

(* A frame of the pairwise handshake: message 2/4, or 4/4 of the key in    *)
(* use or of an earlier one.                                               *)
LEMMA PairwiseFrameStruck ==
  ASSUME NEW m, SmOK(m), NEW c, NEW r \in Nat, Station(m, c, r), AtEase(m),
         NEW f, UpFrame(f, m, r), Expected(m, f), ~MicRefused(m, f), f.msg \in {"2/4", "4/4"},
         NEW n, n = wpa_receive(m, f)
  PROVE  Struck(m, n, c, r)
<1>1. m.requests = {} /\ m.update_snonce = FALSE /\ m.PTK_valid \in BOOLEAN /\ m.ctr \in Nat
  BY DEF AtEase, Station, SmTyped, SmFlags, SmCounters
<1>2. \/ m.ptk = "PTKSTART" /\ ~SNonceUpdate(m, f)
      \/ m.ptk = "PTKINITNEGOTIATING" /\ SNonceUpdate(m, f) /\ ~Checked(m, f)
      \/ m.ptk = "PTKINITNEGOTIATING" /\ ~SNonceUpdate(m, f) /\ Checked(m, f)
  <2>1. CASE f.msg = "2/4"
    <3>1. SNonceUpdate(m, f) \/ (f.rc \in m.valid /\ m.ptk \in {"PTKSTART", "PTKCALCNEGOTIATING"})
      BY <2>1 DEF Expected, Requests
    <3>2. m.ptk = "PTKCALCNEGOTIATING" => m.valid = {}  BY DEF Station, RxOK
    <3>3. SNonceUpdate(m, f) => m.ptk = "PTKINITNEGOTIATING" /\ ~Checked(m, f)
      BY DEF SNonceUpdate, Checked
    <3>4. f.rc \in m.valid => ~SNonceUpdate(m, f)  BY DEF SNonceUpdate
    <3> QED BY <3>1, <3>2, <3>3, <3>4
  <2>2. CASE f.msg = "4/4"
    <3>1. m.ptk = "PTKINITNEGOTIATING" /\ m.PTK_valid  BY <2>2 DEF Expected, Requests
    <3> QED BY <2>2, <3>1 DEF SNonceUpdate, Checked
  <2> QED BY <2>1, <2>2
<1>3. /\ n.ptk = m.ptk /\ n.TimeoutCtr = m.TimeoutCtr /\ n.TimeoutEvt = m.TimeoutEvt
      /\ GroupPart(m, n) /\ n.ctr = m.ctr /\ n.ANonce = m.ANonce /\ n.rekey = m.rekey
      /\ \/ n.MICVerified = TRUE /\ n.timers = 0
         \/ /\ n.MICVerified = FALSE /\ n.timers = m.timers
            /\ n.update_snonce = TRUE \/ m.PTK_valid = FALSE
      /\ \/ m.ptk = "PTKSTART" /\ n.update_snonce = FALSE
         \/ m.ptk = "PTKINITNEGOTIATING" /\ n.update_snonce = TRUE
         \/ m.ptk = "PTKINITNEGOTIATING" /\ n.update_snonce = FALSE /\ n.MICVerified = TRUE
      /\ n.PTK_valid = m.PTK_valid /\ n.requests = m.requests
      /\ n.valid = {} /\ n.rx = "pairwise"
      /\ n.PTK \in {m.PTK, AltKey(m)}
  <2>1. Received(m, f, n)  BY <1>1, ReceiveEffect
  <2>2. ~Checked(m, f) => SNonceUpdate(m, f) \/ m.PTK_valid = FALSE  BY <1>1 DEF Checked
  <2> QED BY <1>2, <2>1, <2>2 DEF Received, Requests
<1>4. m.PTK_valid = TRUE => n.PTK[2] = m.ANonce
  <2>1. m.PTK_valid = TRUE => m.PTK[2] = m.ANonce  BY DEF Station, KeyOK
  <2> QED BY <1>3, <2>1 DEF AltKey, Ptk
<1>5. Station(n, c, r)
  <2>1. /\ SmFlags(m) /\ SmCounters(m) /\ SmWindow(m) /\ TriesOK(m) /\ RxOK(m) /\ EvtOK(m)
        /\ GrpOK(m) /\ KeyOK(m, r) /\ TimerOK(m) /\ GroupTimerOK(m, c)
    BY <1>1, <1>3, <1>4 DEF Station, SmTyped
  <2>2. SmFlags(n)
    BY <1>1, <1>3, <1>4, <2>1 DEF SmFlags, PtkStates, GroupStates, AtEase, GroupPart
  <2>3. SmCounters(n)
    BY <1>1, <1>3, <1>4, <2>1, WpaAssumption DEF SmCounters, TriesOK, AtEase, GroupPart
  <2>4. SmWindow(n)
    BY <1>1, <1>3, <1>4, <2>1 DEF SmWindow, SmCounters, AtEase, GroupPart
  <2>5. TriesOK(n)
    BY <1>1, <1>3, <1>4, <2>1, WpaAssumption DEF TriesOK, SmCounters, AtEase, GroupPart
  <2>6. RxOK(n)
    BY <1>1, <1>3, <1>4, <2>1, WpaAssumption DEF RxOK, SmFlags, SmCounters, AtEase,
       GroupPart
  <2>7. EvtOK(n)
    BY <1>1, <1>3, <1>4, <2>1, WpaAssumption DEF EvtOK, SmCounters, Handshake, Awaiting,
       AtEase, GroupPart
  <2>8. GrpOK(n)
    BY <1>1, <1>3, <1>4, <2>1 DEF GrpOK, AtEase, GroupPart
  <2>9. KeyOK(n, r)
    BY <1>1, <1>3, <1>4, <2>1 DEF KeyOK, SmFlags, SmCounters, Handshake, Awaiting, AtEase,
       GroupPart
  <2>10. TimerOK(n)
    BY <1>1, <1>3, <1>4, <2>1, WpaAssumption DEF TimerOK, Waiting, Excused, Awaiting, TriesOK, RxOK,
       SmFlags, SmCounters, AtEase, GroupPart
  <2>11. GroupTimerOK(n, c)
    BY <1>1, <1>3, <1>4, <2>1, WpaAssumption DEF GroupTimerOK, GroupWaits, Handshake,
       Awaiting, SmFlags, SmCounters, AtEase, GroupPart
  <2> QED BY <2>2, <2>3, <2>4, <2>5, <2>6, <2>7, <2>8, <2>9, <2>10, <2>11
        DEF Station, SmTyped
<1>6. Ages(m, r, n, r)
  BY <1>3, AgesUsed
<1> QED BY <1>5, <1>6 DEF Struck

(* Any frame.                                                              *)
LEMMA ReceiveStruck ==
  ASSUME NEW m, SmOK(m), NEW c, NEW r \in Nat, Station(m, c, r), AtEase(m),
         NEW f, UpFrame(f, m, r), Expected(m, f), ~MicRefused(m, f),
         NEW n, n = wpa_receive(m, f)
  PROVE  Struck(m, n, c, r)
<1>1. f.msg \in {"2/4", "4/4", "2/2", "request", "grequest"}  BY DEF Expected, Requests
<1> QED BY <1>1, RequestStruck, GroupRequestStruck, GroupFrameStruck, PairwiseFrameStruck

-----------------------------------------------------------------------------
(* The supplicant: an answer to a frame of the group key handshake has the *)
(* counter and the key of that frame.                                      *)
SupShape(p) ==
  p = [kind |-> p.kind, pmk |-> p.pmk, assoc |-> p.assoc, snonce |-> p.snonce,
       renew_snonce |-> p.renew_snonce, anonce |-> p.anonce, tptk |-> p.tptk,
       ptk |-> p.ptk, cleared |-> p.cleared, tk_to_set |-> p.tk_to_set,
       rx_replay_counter |-> p.rx_replay_counter, msg_3_of_4_ok |-> p.msg_3_of_4_ok,
       request_counter |-> p.request_counter, key |-> p.key, gtk |-> p.gtk]
Answers(queue, f) ==
  /\ queue \in Seq(Elements(queue))
  /\ \A g \in Elements(queue) :
       /\ g.msg = "2/2" => f.msg = "1/2" /\ g.rc = f.rc /\ g.mic = f.mic
       /\ g.msg = "grequest" => g.nonce = NoNonce
SuppOK(x, f) ==
  /\ x = [sup |-> x.sup, out |-> x.out, rand |-> x.rand]
  /\ SupShape(x.sup) /\ Answers(x.out, f)

(* Nothing was sent yet.                                                   *)
LEMMA NoAnswer ==
  ASSUME NEW f
  PROVE  Answers(<<>>, f)
BY DEF Answers, Elements

(* A frame is sent.                                                        *)
LEMMA ReplyOK ==
  ASSUME NEW x, NEW f, SuppOK(x, f), NEW msg, NEW rc, NEW nonce, NEW mic,
         msg = "2/2" => f.msg = "1/2" /\ rc = f.rc /\ mic = f.mic,
         msg = "grequest" => nonce = NoNonce,
         NEW y, y = Reply(x, msg, rc, nonce, mic)
  PROVE  SuppOK(y, f) /\ y.sup = x.sup /\ y.rand = x.rand
<1>1. PICK g : g = [msg |-> msg, rc |-> rc, nonce |-> nonce, mic |-> mic]  OBVIOUS
<1>2. y = [sup |-> x.sup, out |-> Append(x.out, g), rand |-> x.rand]
  BY <1>1 DEF SuppOK, Reply
<1>3. PICK S : S = Elements(x.out) \cup {g}  OBVIOUS
<1>4. Append(x.out, g) \in Seq(S)  BY <1>3 DEF SuppOK, Answers
<1>5. PICK q : q = Append(x.out, g)  OBVIOUS
<1>6. Elements(q) \subseteq S /\ q \in Seq(Elements(q))  BY <1>4, <1>5 DEF Elements
<1>7. \A h \in S : /\ h.msg = "2/2" => f.msg = "1/2" /\ h.rc = f.rc /\ h.mic = f.mic
                   /\ h.msg = "grequest" => h.nonce = NoNonce
  BY <1>1, <1>3 DEF SuppOK, Answers
<1>8. Answers(q, f)  BY <1>6, <1>7 DEF Answers
<1> QED BY <1>2, <1>5, <1>8 DEF SuppOK

(* The station is disassociated; it is associated.                         *)
LEMMA DisassocShape ==
  ASSUME NEW p, SupShape(p), NEW q, q = wpa_sm_notify_disassoc(p)
  PROVE  SupShape(q)
BY DEF SupShape, wpa_sm_notify_disassoc

(* It is associated.                                                       *)
LEMMA AssocShape ==
  ASSUME NEW p, SupShape(p), NEW q, q = wpa_sm_notify_assoc(p)
  PROVE  SupShape(q)
BY DEF SupShape, wpa_sm_notify_assoc

(* It leaves.                                                              *)
LEMMA DeauthenticateOK ==
  ASSUME NEW x, NEW f, SuppOK(x, f), NEW y, y = wpa_sm_deauthenticate(x)
  PROVE  SuppOK(y, f) /\ y.rand = x.rand
<1>1. PICK z : z = Reply(x, "deauth", 0, NoNonce, NoKey)  OBVIOUS
<1>2. SuppOK(z, f) /\ z.rand = x.rand  BY <1>1, ReplyOK
<1>3. PICK q : q = wpa_sm_notify_disassoc(x.sup)  OBVIOUS
<1>4. SupShape(q)  BY <1>3, DisassocShape DEF SuppOK
<1>5. y = [z EXCEPT !.sup = q]  BY <1>1, <1>3 DEF wpa_sm_deauthenticate
<1> QED BY <1>2, <1>4, <1>5 DEF SuppOK

(* Message 1/4.                                                            *)
LEMMA Process1of4OK ==
  ASSUME NEW x, NEW f, SuppOK(x, f), NEW y, y = process_1_of_4(x, f)
  PROVE  SuppOK(y, f) /\ y.rand \in {x.rand, x.rand + 1}
<1>1. PICK p : p = x.sup  OBVIOUS
<1>2. SupShape(p)  BY <1>1 DEF SuppOK
<1>3. PICK e, k, t, q, b, u :
        /\ q = [p EXCEPT !.snonce = e, !.renew_snonce = FALSE, !.tptk = t,
                         !.tk_to_set = TRUE, !.anonce = f.nonce]
        /\ b \in {x.rand, x.rand + 1}
        /\ u = [x EXCEPT !.sup = q, !.rand = b]
        /\ y = Reply(u, "2/4", f.rc, e, k)
  <2>1. PICK renew, e, k :
          /\ e = IF renew THEN x.rand ELSE p.snonce
          /\ k = Ptk(p.pmk, f.nonce, e)
          /\ renew = (p.renew_snonce \/ p.kind # "steady")
    OBVIOUS
  <2>2. PICK t, q, b, u :
          /\ t = IF p.kind = "first" /\ p.tptk # NoKey THEN p.tptk ELSE k
          /\ q = [p EXCEPT !.snonce = e, !.renew_snonce = FALSE, !.tptk = t,
                           !.tk_to_set = TRUE, !.anonce = f.nonce]
          /\ b = IF renew THEN x.rand + 1 ELSE x.rand
          /\ u = [x EXCEPT !.sup = q, !.rand = b]
    OBVIOUS
  <2>3. y = Reply(u, "2/4", f.rc, e, k)
    BY <1>1, <2>1, <2>2 DEF process_1_of_4
  <2> QED BY <2>2, <2>3
<1>4. SupShape(q)  BY <1>2, <1>3 DEF SupShape
<1>5. SuppOK(u, f) /\ u.rand = b  BY <1>3, <1>4 DEF SuppOK
<1>6. SuppOK(y, f) /\ y.rand = u.rand
  <2>1. y = Reply(u, "2/4", f.rc, e, k)  BY <1>3
  <2> QED BY <1>5, <2>1, ReplyOK
<1> QED BY <1>3, <1>5, <1>6

(* A frame whose MIC is right was made with the key that is the PTK then.  *)
LEMMA VerifiedEffect ==
  ASSUME NEW p, SupShape(p), NEW f, MicKnown(p, f), NEW q, q = Verified(p, f)
  PROVE  SupShape(q) /\ q.ptk = f.mic
<1>1. CASE f.mic = p.tptk
  <2>1. q = [p EXCEPT !.tptk = NoKey, !.ptk = p.tptk, !.cleared = FALSE,
                      !.rx_replay_counter = f.rc]
    BY <1>1 DEF Verified
  <2> QED BY <1>1, <2>1 DEF SupShape
<1>2. CASE f.mic # p.tptk
  <2>1. q = [p EXCEPT !.rx_replay_counter = f.rc] /\ f.mic = p.ptk
    BY <1>2 DEF Verified, MicKnown
  <2> QED BY <2>1 DEF SupShape
<1> QED BY <1>1, <1>2

(* Keys go to the driver.                                                  *)
LEMMA InstallShape ==
  ASSUME NEW p, SupShape(p), NEW f,
         NEW q, q = InstallGtk(p, f), NEW t, t = wpa_supplicant_install_ptk(p)
  PROVE  SupShape(q) /\ SupShape(t)
<1>1. SupShape(q)  BY DEF SupShape, InstallGtk
<1>2. SupShape(t)  BY DEF SupShape, wpa_supplicant_install_ptk
<1> QED BY <1>1, <1>2

(* Message 3/4.                                                            *)
LEMMA Process3of4OK ==
  ASSUME NEW x, NEW f, SuppOK(x, f), NEW ok, NEW y, y = process_3_of_4(x, f, ok)
  PROVE  SuppOK(y, f) /\ y.rand = x.rand
<1>1. PICK w : w = Reply(x, "4/4", f.rc, NoNonce, x.sup.ptk)  OBVIOUS
<1>2. SuppOK(w, f) /\ w.rand = x.rand  BY <1>1, ReplyOK
<1>3. PICK p, z : p = w.sup /\ z = [w EXCEPT !.sup.renew_snonce = TRUE]  OBVIOUS
<1>4. z.sup = [p EXCEPT !.renew_snonce = TRUE]
      /\ z = [sup |-> z.sup, out |-> w.out, rand |-> w.rand]
  BY <1>2, <1>3 DEF SuppOK
<1>5. PICK a : a = [p EXCEPT !.renew_snonce = TRUE]  OBVIOUS
<1>6. SupShape(a)
  <2>1. SupShape(p)  BY <1>2, <1>3 DEF SuppOK
  <2> QED BY <1>5, <2>1 DEF SupShape
<1>7. SuppOK(z, f) /\ z.rand = x.rand /\ z.sup = a
  BY <1>2, <1>4, <1>5, <1>6 DEF SuppOK
<1>8. PICK b, d, e : /\ b = wpa_supplicant_install_ptk(a) /\ d = InstallGtk(b, f)
                     /\ e = [d EXCEPT !.msg_3_of_4_ok = TRUE]
  OBVIOUS
<1>9. SupShape(b)  BY <1>6, <1>8, InstallShape
<1>10. SupShape(d)  BY <1>8, <1>9, InstallShape
<1>11. SupShape(e)  BY <1>8, <1>10 DEF SupShape
<1>12. CASE y = wpa_sm_deauthenticate(x)  BY <1>12, DeauthenticateOK
<1>13. CASE y = wpa_sm_deauthenticate(z)  BY <1>7, <1>13, DeauthenticateOK
<1>14. CASE y = [z EXCEPT !.sup = e]
  BY <1>7, <1>11, <1>14 DEF SuppOK
<1>15. \/ y = wpa_sm_deauthenticate(x) \/ y = wpa_sm_deauthenticate(z)
       \/ y = [z EXCEPT !.sup = e]
  BY <1>1, <1>3, <1>7, <1>8 DEF process_3_of_4
<1> QED BY <1>12, <1>13, <1>14, <1>15

(* Message 1/2.                                                            *)
LEMMA Process1of2OK ==
  ASSUME NEW x, NEW f, SuppOK(x, f), f.msg = "1/2", x.sup.ptk = f.mic,
         NEW ok, NEW y, y = process_1_of_2(x, f, ok)
  PROVE  SuppOK(y, f) /\ y.rand = x.rand
<1>1. PICK q, z : q = InstallGtk(x.sup, f) /\ z = [x EXCEPT !.sup = q]  OBVIOUS
<1>2. SupShape(q)  BY <1>1, InstallShape DEF SuppOK
<1>3. SuppOK(z, f) /\ z.rand = x.rand  BY <1>1, <1>2 DEF SuppOK
<1>4. CASE y = wpa_sm_deauthenticate(x)  BY <1>4, DeauthenticateOK
<1>5. CASE y = Reply(z, "2/2", f.rc, NoNonce, f.mic)
  BY <1>3, <1>5, ReplyOK
<1>6. y = wpa_sm_deauthenticate(x) \/ y = Reply(z, "2/2", f.rc, NoNonce, f.mic)
  BY <1>1 DEF process_1_of_2
<1> QED BY <1>4, <1>5, <1>6

(* Any frame.                                                              *)
LEMMA RxEapolOK ==
  ASSUME NEW x, NEW f, SuppOK(x, f), f.msg \in {"1/4", "3/4", "1/2"},
         NEW ok, NEW y, y = wpa_sm_rx_eapol(x, f, ok)
  PROVE  SuppOK(y, f) /\ y.rand \in {x.rand, x.rand + 1}
<1>1. PICK q, z : q = Verified(x.sup, f) /\ z = [x EXCEPT !.sup = q]  OBVIOUS
<1>2. CASE y = x  BY <1>2
<1>3. CASE y = process_1_of_4(x, f)  BY <1>3, Process1of4OK
<1>4. ASSUME MicKnown(x.sup, f)
      PROVE  SuppOK(z, f) /\ z.rand = x.rand /\ z.sup.ptk = f.mic
  <2>1. SupShape(q) /\ q.ptk = f.mic  BY <1>1, <1>4, VerifiedEffect DEF SuppOK
  <2> QED BY <1>1, <2>1 DEF SuppOK
<1>5. CASE MicKnown(x.sup, f) /\ y = process_3_of_4(z, f, ok)
  BY <1>4, <1>5, Process3of4OK
<1>6. CASE MicKnown(x.sup, f) /\ f.msg = "1/2" /\ y = process_1_of_2(z, f, ok)
  BY <1>4, <1>6, Process1of2OK
<1>7. \/ y = x \/ y = process_1_of_4(x, f)
      \/ MicKnown(x.sup, f) /\ y = process_3_of_4(z, f, ok)
      \/ MicKnown(x.sup, f) /\ f.msg = "1/2" /\ y = process_1_of_2(z, f, ok)
  BY <1>1 DEF wpa_sm_rx_eapol
<1> QED BY <1>2, <1>3, <1>5, <1>6, <1>7

(* A new key is asked for.                                                 *)
LEMMA KeyRequestOK ==
  ASSUME NEW x, NEW f, SuppOK(x, f), NEW msg \in Requests,
         NEW y, y = wpa_sm_key_request(x, msg)
  PROVE  SuppOK(y, f) /\ y.rand = x.rand
<1>1. PICK p, z : p = x.sup /\ z = [x EXCEPT !.sup.request_counter = @ + 1]  OBVIOUS
<1>2. PICK q : q = [p EXCEPT !.request_counter = @ + 1]  OBVIOUS
<1>3. z.sup = q /\ z = [sup |-> z.sup, out |-> x.out, rand |-> x.rand]
  BY <1>1, <1>2 DEF SuppOK
<1>4. SupShape(q)
  <2>1. SupShape(p)  BY <1>1 DEF SuppOK
  <2> QED BY <1>2, <2>1 DEF SupShape
<1>5. SuppOK(z, f) /\ z.rand = x.rand  BY <1>3, <1>4 DEF SuppOK
<1>6. y = Reply(z, msg, x.sup.request_counter + 1, NoNonce, x.sup.ptk) /\ msg # "2/2"
  BY <1>1 DEF wpa_sm_key_request, Requests
<1> QED BY <1>5, <1>6, ReplyOK

(* Answers to a harmless frame are harmless.                               *)
LEMMA AnswersUp ==
  ASSUME NEW q, NEW f, Answers(q, f), NEW m, NEW r, DownFrame(f, m, r)
  PROVE  UpOK(q, m, r)
<1>1. \A g \in Elements(q) : UpFrame(g, m, r)
  BY DEF Answers, DownFrame, UpFrame, Old
<1> QED BY <1>1 DEF Answers, UpOK

(* The group keys in a frame on its way do not matter.                     *)
LEMMA RelabelledDown ==
  ASSUME NEW q, NEW m, NEW r, DownOK(q, m, r), NEW p, NEW G,
         p = [i \in DOMAIN q |-> [q[i] EXCEPT !.gtk = G[i]]]
  PROVE  DownOK(p, m, r) /\ Len(p) = Len(q)
<1>1. q \in Seq(Elements(q)) /\ \A f \in Elements(q) : DownFrame(f, m, r)  BY DEF DownOK
<1>2. DOMAIN q = 1 .. Len(q) /\ Len(q) \in Nat  BY <1>1
<1>3. \A i \in DOMAIN q : q[i] \in Elements(q)  BY DEF Elements
<1>4. \A i \in 1 .. Len(q) : DownFrame(p[i], m, r)
  <2> SUFFICES ASSUME NEW i \in 1 .. Len(q) PROVE DownFrame(p[i], m, r)  OBVIOUS
  <2>1. PICK f, g : f = q[i] /\ g = p[i]  OBVIOUS
  <2>2. DownFrame(f, m, r) /\ g = [f EXCEPT !.gtk = G[i]]  BY <1>1, <1>2, <1>3, <2>1
  <2>3. /\ g = [msg |-> f.msg, rc |-> f.rc, mic |-> f.mic, gtk |-> G[i], nonce |-> f.nonce]
    BY <2>2 DEF DownFrame
  <2>4. g.msg = f.msg /\ g.rc = f.rc /\ g.mic = f.mic
        /\ g = [msg |-> g.msg, rc |-> g.rc, mic |-> g.mic, gtk |-> g.gtk, nonce |-> g.nonce]
    BY <2>3
  <2>5. DownFrame(g, m, r)  BY <2>2, <2>4 DEF DownFrame, Old
  <2> QED BY <2>1, <2>5
<1>5. PICK S : S = {p[i] : i \in 1 .. Len(q)}  OBVIOUS
<1>6. p \in Seq(S) /\ Len(p) = Len(q)  BY <1>2, <1>5
<1>7. \A f \in S : DownFrame(f, m, r)  BY <1>4, <1>5
<1> QED BY <1>6, <1>7, DownSet

(* Setting a group key relabels those on their way.                        *)
LEMMA RelabelledQueues ==
  ASSUME NEW queues, NEW p,
         p = Relabelled(AfterSetkeysdone, queues) \/ p = Relabelled(AfterSetkeys, queues)
  PROVE  /\ p = [t \in Stations |-> p[t]]
         /\ \A t \in Stations : \A m, r :
              DownOK(queues[t], m, r) => DownOK(p[t], m, r) /\ Len(p[t]) = Len(queues[t])
<1>1. p = [t \in Stations |-> p[t]]  BY DEF Relabelled
<1>2. ASSUME NEW t \in Stations, NEW m, NEW r, DownOK(queues[t], m, r)
      PROVE  DownOK(p[t], m, r) /\ Len(p[t]) = Len(queues[t])
  <2>1. PICK q : q = queues[t]  OBVIOUS
  <2>2. PICK G : p[t] = [i \in DOMAIN q |-> [q[i] EXCEPT !.gtk = G[i]]]
    <3>1. CASE p = Relabelled(AfterSetkeysdone, queues)
      <4>1. PICK G : G = [i \in DOMAIN q |->
                            {[g EXCEPT !.key = AfterSetkeysdone(g.key)] : g \in q[i].gtk}]
        OBVIOUS
      <4>2. p[t] = [i \in DOMAIN q |-> [q[i] EXCEPT !.gtk =
                      {[g EXCEPT !.key = AfterSetkeysdone(g.key)] : g \in q[i].gtk}]]
        BY <2>1, <3>1 DEF Relabelled
      <4>3. p[t] = [i \in DOMAIN q |-> [q[i] EXCEPT !.gtk = G[i]]]  BY <4>1, <4>2
      <4> QED BY <4>3
    <3>2. CASE p = Relabelled(AfterSetkeys, queues)
      <4>1. PICK G : G = [i \in DOMAIN q |->
                            {[g EXCEPT !.key = AfterSetkeys(g.key)] : g \in q[i].gtk}]
        OBVIOUS
      <4>2. p[t] = [i \in DOMAIN q |-> [q[i] EXCEPT !.gtk =
                      {[g EXCEPT !.key = AfterSetkeys(g.key)] : g \in q[i].gtk}]]
        BY <2>1, <3>2 DEF Relabelled
      <4>3. p[t] = [i \in DOMAIN q |-> [q[i] EXCEPT !.gtk = G[i]]]  BY <4>1, <4>2
      <4> QED BY <4>3
    <3> QED BY <3>1, <3>2
  <2>3. PICK v : v = p[t]  OBVIOUS
  <2>4. v = [i \in DOMAIN q |-> [q[i] EXCEPT !.gtk = G[i]]]  BY <2>2, <2>3
  <2>5. DownOK(q, m, r)  BY <1>2, <2>1
  <2>6. DownOK(v, m, r) /\ Len(v) = Len(q)  BY <2>4, <2>5, RelabelledDown
  <2> QED BY <2>1, <2>3, <2>6
<1> QED BY <1>1, <1>2

(* And those that are set.                                                 *)
LEMMA RelabelledSups ==
  ASSUME \A t \in Stations : SupShape(sup[t]), NEW p,
         p = RelabelledKeys(AfterSetkeysdone) \/ p = RelabelledKeys(AfterSetkeys)
  PROVE  p = [t \in Stations |-> p[t]] /\ \A t \in Stations : SupShape(p[t])
<1>1. p = [t \in Stations |-> p[t]]  BY DEF RelabelledKeys
<1>2. ASSUME NEW t \in Stations PROVE SupShape(p[t])
  <2>1. PICK a, b : a = sup[t] /\ b = p[t]  OBVIOUS
  <2>2. PICK g : b = [a EXCEPT !.gtk = g]
    <3>1. CASE p = RelabelledKeys(AfterSetkeysdone)
      <4>1. b = [a EXCEPT !.gtk = [i \in {1, 2} |-> AfterSetkeysdone(@[i])]]
        BY <2>1, <3>1 DEF RelabelledKeys
      <4> QED BY <4>1
    <3>2. CASE p = RelabelledKeys(AfterSetkeys)
      <4>1. b = [a EXCEPT !.gtk = [i \in {1, 2} |-> AfterSetkeys(@[i])]]
        BY <2>1, <3>2 DEF RelabelledKeys
      <4> QED BY <4>1
    <3> QED BY <3>1, <3>2
  <2>3. SupShape(a)  BY <2>1
  <2>4. SupShape(b)  BY <2>2, <2>3 DEF SupShape
  <2> QED BY <2>1, <2>4
<1> QED BY <1>1, <1>2

-----------------------------------------------------------------------------
(* The invariant.                                                          *)
Crossing(s) == IF s \in crossed.ptk THEN TRUE ELSE FALSE

Shapes ==
  /\ rand \in Nat /\ rand > 0
  /\ sup = [s \in Stations |-> sup[s]]
  /\ down = [s \in Stations |-> down[s]] /\ up = [s \in Stations |-> up[s]]
  /\ crossed = [ptk |-> crossed.ptk, gtk |-> crossed.gtk]
  /\ group.state \in {"SETKEYS", "SETKEYSDONE"} /\ group.gn \in {1, 2}

(* The links d and u and the supplicant p of a station whose record is m,  *)
(* with r the next nonce.                                                  *)
Linked(d, u, p, m, r) ==
  /\ DownOK(d, m, r) /\ Len(d) <= CAP
  /\ UpOK(u, m, r) /\ Len(u) <= CAP
  /\ SupShape(p)

Settled ==
  \A s \in Stations : /\ Station(sm[s], Crossing(s), rand)
                      /\ Linked(down[s], up[s], sup[s], sm[s], rand)

(* Only the machines of the station in its loop are about to move.         *)
Eased == \A s \in Stations : s # run.st => AtEase(sm[s])

TimerInv == Inv /\ Shapes /\ Settled /\ Eased

(* At first there are no stations.                                         *)
LEMMA InitTimer == Init => TimerInv
<1> SUFFICES ASSUME Init PROVE TimerInv  OBVIOUS
<1>1. Shapes
  BY DEF Init, Shapes
<1>2. ASSUME NEW s \in Stations
      PROVE  /\ Station(sm[s], Crossing(s), rand) /\ AtEase(sm[s])
             /\ Linked(down[s], up[s], sup[s], sm[s], rand)
  <2>1. sm[s] = NoStation /\ down[s] = <<>> /\ up[s] = <<>> /\ rand = 1
    BY DEF Init
  <2>2. Station(sm[s], Crossing(s), rand) /\ AtEase(sm[s])
    BY <2>1, NoStationStruck DEF Struck
  <2>3. PICK k, p : sup[s] = NotAssociated(k, p)  BY DEF Init
  <2>4. SupShape(sup[s])  BY <2>3 DEF SupShape, NotAssociated
  <2>5. DownOK(down[s], sm[s], rand) /\ UpOK(up[s], sm[s], rand)
    BY <2>1 DEF DownOK, UpOK, Elements
  <2>6. Len(down[s]) <= CAP /\ Len(up[s]) <= CAP  BY <2>1, HandshakeAssumption
  <2> QED BY <2>2, <2>4, <2>5, <2>6 DEF Linked
<1> QED BY <1>1, <1>2, InitInv DEF TimerInv, Settled, Eased

(* A step that changes the record of one station (s) to m: what else it    *)
(* does must leave harmless frames harmless.                               *)
LEMMA OneSettled ==
  ASSUME TimerInv, Inv', Shapes', NEW s \in Stations, NEW m,
         sm' = [sm EXCEPT ![s] = m], rand <= rand',
         \A t \in Stations \ {s} : Crossing(t)' = Crossing(t),
         NEW c, c = Crossing(s)', Station(m, c, rand'),
         Linked(down'[s], up'[s], sup'[s], m, rand'),
         \A t \in Stations \ {s} : Linked(down'[t], up'[t], sup'[t], sm[t], rand),
         run.st \in {s, NoOne}, run'.st = s \/ AtEase(m)
  PROVE  TimerInv'
<1>1. sm'[s] = m /\ \A t \in Stations \ {s} : sm'[t] = sm[t]
  BY DEF TimerInv, Inv, StationsOK
<1>2. rand \in Nat /\ rand' \in Nat  BY DEF TimerInv, Shapes
<1>3. ASSUME NEW t \in Stations \ {s}
      PROVE  Station(sm'[t], Crossing(t)', rand')
             /\ Linked(down'[t], up'[t], sup'[t], sm'[t], rand')
  <2>1. PICK n, d, q, u, v, p : n = sm[t] /\ d = Crossing(t) /\ q = rand'
                             /\ u = down'[t] /\ v = up'[t] /\ p = sup'[t]
    OBVIOUS
  <2>2. Station(n, d, rand)  BY <1>3, <2>1 DEF TimerInv, Settled
  <2>3. q \in Nat /\ rand <= q  BY <1>2, <2>1
  <2>4. Station(n, d, q) /\ Ages(n, rand, n, q)  BY <1>2, <2>2, <2>3, StationLater
  <2>5. Linked(u, v, p, n, rand)  BY <1>3, <2>1
  <2>6. DownOK(u, n, q) /\ UpOK(v, n, q)  BY <2>4, <2>5, AgesDown, AgesUp DEF Linked
  <2>7. Linked(u, v, p, n, q)  BY <2>5, <2>6 DEF Linked
  <2>8. sm'[t] = n /\ Crossing(t)' = d  BY <1>1, <1>3, <2>1
  <2> QED BY <2>1, <2>4, <2>7, <2>8
<1>4. Settled'
  <2>1. Station(sm'[s], Crossing(s)', rand')
        /\ Linked(down'[s], up'[s], sup'[s], sm'[s], rand')
    BY <1>1
  <2> QED BY <1>3, <2>1 DEF Settled
<1>5. Eased'
  <2> SUFFICES ASSUME NEW t \in Stations, t # run'.st PROVE AtEase(sm'[t])  BY DEF Eased
  <2>1. CASE t = s  BY <1>1, <2>1
  <2>2. CASE t # s
    <3>1. t # run.st  BY <2>2, HandshakeAssumption
    <3> QED BY <1>1, <2>2, <3>1 DEF TimerInv, Eased
  <2> QED BY <2>1, <2>2
<1> QED BY <1>4, <1>5 DEF TimerInv

(* What is known of a station that is not in its loop.                     *)
LEMMA AtEaseNow ==
  ASSUME TimerInv, NEW s \in Stations, s # run.st
  PROVE  /\ SmOK(sm[s]) /\ AtEase(sm[s]) /\ rand \in Nat /\ rand > 0 /\ rand <= rand
         /\ Station(sm[s], Crossing(s), rand)
         /\ Linked(down[s], up[s], sup[s], sm[s], rand)
BY DEF TimerInv, Inv, StationsOK, Shapes, Settled, Eased

(* The record of a station that was at ease is struck, and nothing else is *)
(* done, except that links and supplicant of that station may change.      *)
LEMMA StruckTimer ==
  ASSUME TimerInv, Inv', run.st = NoOne, NEW s \in Stations, NEW m,
         NEW c, c = Crossing(s), Struck(sm[s], m, c, rand),
         sm' = [sm EXCEPT ![s] = m], UNCHANGED <<rand, crossed>>,
         NEW d, NEW u, NEW p, Linked(d, u, p, sm[s], rand),
         down' = [down EXCEPT ![s] = d], up' = [up EXCEPT ![s] = u],
         sup' = [sup EXCEPT ![s] = p],
         group'.state \in {"SETKEYS", "SETKEYSDONE"}, group'.gn \in {1, 2},
         run'.st = s \/ AtEase(m)
  PROVE  TimerInv'
<1>1. /\ down'[s] = d /\ up'[s] = u /\ sup'[s] = p
      /\ \A t \in Stations \ {s} : down'[t] = down[t] /\ up'[t] = up[t] /\ sup'[t] = sup[t]
  BY DEF TimerInv, Shapes
<1>2. Shapes'
  <2>1. /\ sup' = [t \in Stations |-> sup'[t]]
        /\ down' = [t \in Stations |-> down'[t]] /\ up' = [t \in Stations |-> up'[t]]
    BY DEF TimerInv, Shapes
  <2>2. rand' \in Nat /\ rand' > 0 /\ crossed' = [ptk |-> crossed'.ptk, gtk |-> crossed'.gtk]
    BY DEF TimerInv, Shapes
  <2> QED BY <2>1, <2>2 DEF Shapes
<1>3. \A t \in Stations : Crossing(t)' = Crossing(t)  BY DEF Crossing
<1>4. rand \in Nat /\ rand <= rand' /\ rand' = rand  BY DEF TimerInv, Shapes
<1>5. Station(m, c, rand') /\ c = Crossing(s)'  BY <1>3, <1>4 DEF Struck
<1>6. DownOK(d, m, rand) /\ UpOK(u, m, rand)
  BY AgesDown, AgesUp DEF Struck, Linked
<1>7. Linked(down'[s], up'[s], sup'[s], m, rand')
  BY <1>1, <1>4, <1>6 DEF Linked
<1>8. \A t \in Stations \ {s} : Linked(down'[t], up'[t], sup'[t], sm[t], rand)
  BY <1>1 DEF TimerInv, Settled
<1> QED BY <1>2, <1>3, <1>4, <1>5, <1>7, <1>8, OneSettled

(* A variable over the stations that is unchanged.                         *)
LEMMA SameLinks ==
  ASSUME TimerInv, NEW s \in Stations
  PROVE  /\ down = [down EXCEPT ![s] = down[s]] /\ up = [up EXCEPT ![s] = up[s]]
         /\ sup = [sup EXCEPT ![s] = sup[s]] /\ sm = [sm EXCEPT ![s] = sm[s]]
<1>1. down = [t \in Stations |-> down[t]] /\ up = [t \in Stations |-> up[t]]
      /\ sup = [t \in Stations |-> sup[t]] /\ sm = [t \in Stations |-> sm[t]]
  BY DEF TimerInv, Shapes, Inv, StationsOK
<1>2. down = [down EXCEPT ![s] = down[s]]  BY <1>1
<1>3. up = [up EXCEPT ![s] = up[s]]  BY <1>1
<1>4. sup = [sup EXCEPT ![s] = sup[s]]  BY <1>1
<1>5. sm = [sm EXCEPT ![s] = sm[s]]  BY <1>1
<1> QED BY <1>2, <1>3, <1>4, <1>5

(* Only the record of a station and run change.                            *)
Untouched == UNCHANGED <<sup, down, up, group, rand, crossed>>

(* The loop of a station begins with a record that was struck.             *)
LEMMA BeginTimer ==
  ASSUME TimerInv, Inv', Idle, NEW s \in Stations, NEW m,
         NEW c, c = Crossing(s), Struck(sm[s], m, c, rand), Begin(s, m), Untouched
  PROVE  TimerInv'
<1>1. run.st = NoOne /\ s # run.st  BY HandshakeAssumption DEF Idle
<1>2. sm' = [sm EXCEPT ![s] = m]  BY DEF Begin
<1>3. run'.st = s \/ AtEase(m)  BY DEF Begin, TimerInv, Inv, RunOK
<1>4. PICK d, u, p : d = down[s] /\ u = up[s] /\ p = sup[s]  OBVIOUS
<1>5. down' = [down EXCEPT ![s] = d] /\ up' = [up EXCEPT ![s] = u]
      /\ sup' = [sup EXCEPT ![s] = p]
  BY <1>4, SameLinks DEF Untouched
<1>6. group'.state \in {"SETKEYS", "SETKEYSDONE"} /\ group'.gn \in {1, 2}
  BY DEF TimerInv, Shapes, Untouched
<1>7. Linked(d, u, p, sm[s], rand)  BY <1>1, <1>4, AtEaseNow
<1>8. UNCHANGED <<rand, crossed>>  BY DEF Untouched
<1> QED BY <1>1, <1>2, <1>3, <1>5, <1>6, <1>7, <1>8, StruckTimer

(* A timeout starts the loop of its station.                               *)
LEMMA TimeoutTimer ==
  ASSUME TimerInv, Inv', NEW s \in Stations, Timeout(s)
  PROVE  TimerInv'
<1>1. PICK m, n, c : m = sm[s] /\ n = wpa_send_eapol_timeout(m) /\ c = Crossing(s)  OBVIOUS
<1>2. Idle /\ Begin(s, n) /\ m.timers > 0 /\ Untouched
  BY <1>1 DEF Timeout, Untouched
<1>3. SmOK(m) /\ AtEase(m) /\ rand \in Nat /\ Station(m, c, rand)
  BY <1>1, <1>2, AtEaseNow, HandshakeAssumption DEF Idle
<1>4. Struck(m, n, c, rand)  BY <1>1, <1>2, <1>3, TimeoutStruck
<1> QED BY <1>1, <1>2, <1>4, BeginTimer

(* So does the time for a new pairwise key.                                *)
LEMMA RekeyPtkTimer ==
  ASSUME TimerInv, Inv', NEW s \in Stations, wpa_rekey_ptk(s)
  PROVE  TimerInv'
<1>1. PICK m, n, c : m = sm[s] /\ n = wpa_request_new_ptk(m) /\ c = Crossing(s)  OBVIOUS
<1>2. Idle /\ Begin(s, n) /\ m.rekey /\ Untouched
  BY <1>1 DEF wpa_rekey_ptk, Untouched
<1>3. SmOK(m) /\ AtEase(m) /\ rand \in Nat /\ Station(m, c, rand)
  BY <1>1, <1>2, AtEaseNow, HandshakeAssumption DEF Idle
<1>4. m.rekey = TRUE  BY <1>2, <1>3 DEF Station, SmTyped, SmFlags
<1>5. Struck(m, n, c, rand)  BY <1>1, <1>3, <1>4, NewPtkStruck
<1> QED BY <1>1, <1>2, <1>5, BeginTimer

(* A frame arrives.                                                        *)
LEMMA APReceiveTimer ==
  ASSUME TimerInv, Inv', NEW s \in Stations, APReceive(s)
  PROVE  TimerInv'
<1>1. PICK m, f, c : m = sm[s] /\ f = Head(up[s]) /\ c = Crossing(s)  OBVIOUS
<1>2. Idle /\ run.st = NoOne /\ up[s] # <<>>
      /\ group' \in {group, [group EXCEPT !.GTKReKey = TRUE]}
      /\ UNCHANGED <<sup, down, rand, crossed>>
  BY DEF APReceive, Idle
<1>3. SmOK(m) /\ AtEase(m) /\ rand \in Nat /\ Station(m, c, rand)
      /\ Linked(down[s], up[s], sup[s], m, rand)
  BY <1>1, <1>2, AtEaseNow, HandshakeAssumption
<1>4. PICK d, u, p : d = down[s] /\ u = Tail(up[s]) /\ p = sup[s]  OBVIOUS
<1>5. UpFrame(f, m, rand) /\ Linked(d, u, p, m, rand)
  BY <1>1, <1>2, <1>3, <1>4, TailUp DEF Linked
<1>6. down' = [down EXCEPT ![s] = d] /\ up' = [up EXCEPT ![s] = u]
      /\ sup' = [sup EXCEPT ![s] = p]
  <2>1. up' = [up EXCEPT ![s] = u]  BY <1>4 DEF APReceive
  <2> QED BY <1>2, <1>4, <2>1, SameLinks
<1>7. group'.state \in {"SETKEYS", "SETKEYSDONE"} /\ group'.gn \in {1, 2}
  BY <1>2 DEF TimerInv, Shapes, Inv, GroupShape
<1>8. ASSUME NEW n, sm' = [sm EXCEPT ![s] = n], Struck(m, n, c, rand), run'.st = s \/ AtEase(n)
      PROVE  TimerInv'
  <2>1. UNCHANGED <<rand, crossed>>  BY <1>2
  <2>2. Struck(sm[s], n, c, rand) /\ Linked(d, u, p, sm[s], rand)  BY <1>1, <1>5, <1>8
  <2> QED BY <1>1, <1>2, <1>6, <1>7, <1>8, <2>1, <2>2, StruckTimer
<1>9. CASE /\ sm' = [sm EXCEPT ![s] = [EventDeauth(@) EXCEPT !.assoc = FALSE]]
           /\ run' = [run EXCEPT !.st = s, !.free = TRUE]
  <2>1. PICK n : n = [EventDeauth(m) EXCEPT !.assoc = FALSE]  OBVIOUS
  <2>2. Struck(m, n, c, rand)  BY <1>3, <2>1, DeauthStruck
  <2>3. sm' = [sm EXCEPT ![s] = n]  BY <1>1, <1>9, <2>1
  <2>4. run'.st = s  BY <1>9 DEF TimerInv, Inv, RunOK
  <2> QED BY <1>8, <2>2, <2>3, <2>4
<1>10. CASE sm' = [sm EXCEPT ![s].MICVerified = FALSE] /\ UNCHANGED run
  <2>1. PICK n : n = [m EXCEPT !.MICVerified = FALSE]  OBVIOUS
  <2>2. Struck(m, n, c, rand) /\ AtEase(n)  BY <1>3, <2>1, RefusedStruck
  <2>3. sm' = [sm EXCEPT ![s] = n]  BY <1>1, <1>10, <2>1
  <2> QED BY <1>8, <2>2, <2>3
<1>11. CASE Expected(m, f) /\ ~MicRefused(m, f) /\ Begin(s, wpa_receive(m, f))
  <2>1. PICK n : n = wpa_receive(m, f)  OBVIOUS
  <2>2. Struck(m, n, c, rand)  BY <1>3, <1>5, <1>11, <2>1, ReceiveStruck
  <2>3. sm' = [sm EXCEPT ![s] = n] /\ run'.st = s
    BY <1>11, <2>1 DEF Begin, TimerInv, Inv, RunOK
  <2> QED BY <1>8, <2>2, <2>3
<1>12. CASE /\ Expected(m, f) /\ ~MicRefused(m, f) /\ f.msg = "grequest"
            /\ sm' = [sm EXCEPT ![s] = wpa_receive(@, f)]
  <2>1. PICK n : n = wpa_receive(m, f)  OBVIOUS
  <2>2. Struck(m, n, c, rand) /\ AtEase(n)
    BY <1>3, <1>5, <1>12, <2>1, GroupRequestStruck
  <2>3. sm' = [sm EXCEPT ![s] = n]  BY <1>1, <1>12, <2>1
  <2> QED BY <1>8, <2>2, <2>3
<1>13. CASE UNCHANGED <<sm, run>>
  <2>1. Struck(m, m, c, rand)  BY <1>3 DEF Struck, Ages
  <2>2. sm' = [sm EXCEPT ![s] = m]  BY <1>1, <1>13, SameLinks
  <2> QED BY <1>3, <1>8, <2>1, <2>2
<1> QED BY <1>1, <1>9, <1>10, <1>11, <1>12, <1>13 DEF APReceive

(* A station associates, anew or again.                                    *)
LEMMA AssociateTimer ==
  ASSUME TimerInv, Inv', NEW s \in Stations, Associate(s)
  PROVE  TimerInv'
<1>1. PICK m, c : m = sm[s] /\ c = Crossing(s)  OBVIOUS
<1>2. Idle /\ run.st = NoOne /\ UNCHANGED <<down, up, rand, crossed>>
  BY DEF Associate, Idle
<1>3. SmOK(m) /\ AtEase(m) /\ rand \in Nat /\ Station(m, c, rand)
      /\ Linked(down[s], up[s], sup[s], m, rand)
  BY <1>1, <1>2, AtEaseNow, HandshakeAssumption
<1>4. PICK d, u, a, b, p :
        /\ d = down[s] /\ u = up[s] /\ a = sup[s]
        /\ b = (IF a.assoc THEN wpa_sm_notify_disassoc(a) ELSE a)
        /\ p = wpa_sm_notify_assoc(b)
  OBVIOUS
<1>5. SupShape(p)
  <2>1. SupShape(a)  BY <1>3, <1>4 DEF Linked
  <2>2. SupShape(b)  BY <1>4, <2>1, DisassocShape
  <2> QED BY <1>4, <2>2, AssocShape
<1>6. Linked(d, u, p, m, rand)  BY <1>3, <1>4, <1>5 DEF Linked
<1>7. down' = [down EXCEPT ![s] = d] /\ up' = [up EXCEPT ![s] = u]
      /\ sup' = [sup EXCEPT ![s] = p]
  <2>1. sup' = [sup EXCEPT ![s] = p]  BY <1>4 DEF Associate
  <2> QED BY <1>2, <1>4, <2>1, SameLinks
<1>8. PICK x : x = [sm |-> wpa_remove_ptk(m), done |-> group.done, out |-> <<>>, rand |-> rand]
  OBVIOUS
<1>9. PICK n : /\ Struck(m, n, c, rand) /\ Begin(s, n)
               /\ group' = group \/ \E k : group' = [group EXCEPT !.done = k]
  <2>1. CASE m.assoc
    <3>1. PICK k, l : k = wpa_remove_ptk(m) /\ l = EventReauth(x).sm  OBVIOUS
    <3>2. Begin(s, l) /\ group' = [group EXCEPT !.done = EventReauth(x).done]
      BY <1>1, <1>8, <2>1, <3>1 DEF Associate
    <3>3. SmOK(k)  BY <1>3, <3>1, RemovePtkSame
    <3>4. XOK(x) /\ x.sm = k
      BY <1>8, <3>1, <3>3 DEF XOK, XShape, TimerInv, Inv, GroupShape
    <3>5. Struck(m, l, c, rand)
      BY <1>3, <3>1, <3>3, <3>4, ReauthStruck
    <3> QED BY <3>2, <3>5
  <2>2. CASE ~m.assoc
    <3>1. PICK l : l = [wpa_auth_sta_associated(wpa_remove_ptk(m)) EXCEPT !.assoc = TRUE]
      OBVIOUS
    <3>2. Begin(s, l) /\ group' = group
      BY <1>1, <2>2, <3>1 DEF Associate
    <3>3. Struck(m, l, c, rand)  BY <1>3, <3>1, AssociatedStruck
    <3> QED BY <3>2, <3>3
  <2> QED BY <2>1, <2>2
<1>10. group'.state \in {"SETKEYS", "SETKEYSDONE"} /\ group'.gn \in {1, 2}
  BY <1>9 DEF TimerInv, Inv, GroupShape, Shapes
<1>11. sm' = [sm EXCEPT ![s] = n]  BY <1>9 DEF Begin
<1>12. Struck(sm[s], n, c, rand) /\ Linked(d, u, p, sm[s], rand) /\ UNCHANGED <<rand, crossed>>
  BY <1>1, <1>2, <1>6, <1>9
<1>13. run'.st = s \/ AtEase(n)  BY <1>9 DEF Begin, TimerInv, Inv, RunOK
<1> QED BY <1>1, <1>2, <1>7, <1>10, <1>11, <1>12, <1>13, StruckTimer

(* A station is forgotten.                                                 *)
LEMMA FreedTimer ==
  ASSUME TimerInv, Inv', NEW s \in Stations, ap_handle_timer(s) \/ ap_handle_session_timer(s)
  PROVE  TimerInv'
<1>1. PICK m, n, c : m = sm[s] /\ n = NoStation /\ c = Crossing(s)  OBVIOUS
<1>2. /\ Idle /\ run.st = NoOne /\ UNCHANGED <<sup, up, rand, crossed>>
      /\ sm' = [sm EXCEPT ![s] = n]
      /\ \E k : group' = [group EXCEPT !.done = k]
  BY <1>1 DEF ap_handle_timer, ap_handle_session_timer, Freed, Idle
<1>3. rand \in Nat /\ rand > 0 /\ Linked(down[s], up[s], sup[s], m, rand)
  BY <1>1, <1>2, AtEaseNow, HandshakeAssumption
<1>4. Struck(m, n, c, rand) /\ AtEase(n)  BY <1>1, <1>3, NoStationStruck
<1>5. PICK d : /\ down' = [down EXCEPT ![s] = d]
               /\ d = down[s] \/ d = Put(down[s], <<DeauthFrame>>)
  <2>1. CASE ap_handle_timer(s)
    <3>1. PICK d : d = down[s]  OBVIOUS
    <3>2. down' = [down EXCEPT ![s] = d]  BY <2>1, <3>1, SameLinks DEF ap_handle_timer
    <3> QED BY <3>1, <3>2
  <2>2. CASE ap_handle_session_timer(s)
    <3>1. PICK d : d = Put(down[s], <<DeauthFrame>>)  OBVIOUS
    <3>2. down' = [down EXCEPT ![s] = d]  BY <2>2, <3>1 DEF ap_handle_session_timer
    <3> QED BY <3>1, <3>2
  <2> QED BY <2>1, <2>2
<1>6. DownOK(d, m, rand) /\ Len(d) <= CAP
  <2>1. CASE d = down[s]  BY <1>3, <2>1 DEF Linked
  <2>2. CASE d = Put(down[s], <<DeauthFrame>>)
    <3>1. PICK e : e = <<DeauthFrame>>  OBVIOUS
    <3>2. e \in Seq({DeauthFrame})  BY <3>1
    <3>3. \A f \in {DeauthFrame} : DownFrame(f, m, rand)  BY DeauthGood
    <3>4. PICK S : S = {DeauthFrame}  OBVIOUS
    <3>5. DownOK(e, m, rand)  BY <3>2, <3>3, <3>4, DownSet
    <3>6. DownOK(down[s], m, rand)  BY <1>3 DEF Linked
    <3>7. d = Put(down[s], e)  BY <2>2, <3>1
    <3> QED BY <3>5, <3>6, <3>7, PutDown
  <2> QED BY <1>5, <2>1, <2>2
<1>7. PICK u, p : u = up[s] /\ p = sup[s]  OBVIOUS
<1>8. Linked(d, u, p, m, rand)  BY <1>3, <1>6, <1>7 DEF Linked
<1>9. up' = [up EXCEPT ![s] = u] /\ sup' = [sup EXCEPT ![s] = p]
  BY <1>2, <1>7, SameLinks
<1>10. group'.state \in {"SETKEYS", "SETKEYSDONE"} /\ group'.gn \in {1, 2}
  BY <1>2 DEF TimerInv, Inv, GroupShape, Shapes
<1>11. Struck(sm[s], n, c, rand) /\ Linked(d, u, p, sm[s], rand) /\ UNCHANGED <<rand, crossed>>
  BY <1>1, <1>2, <1>4, <1>8
<1> QED BY <1>1, <1>2, <1>4, <1>5, <1>9, <1>10, <1>11, StruckTimer

(* The walk of a rekeying visits one station more.                         *)
LEMMA UpdateStaTimer ==
  ASSUME TimerInv, Inv', NEW s \in Stations, wpa_group_update_sta(s)
  PROVE  TimerInv'
<1>1. run.st = NoOne /\ s # NoOne  BY HandshakeAssumption DEF wpa_group_update_sta
<1>2. PICK m, c : m = sm[s] /\ c = Crossing(s)  OBVIOUS
<1>3. SmOK(m) /\ AtEase(m) /\ rand \in Nat /\ Station(m, c, rand)
      /\ Linked(down[s], up[s], sup[s], m, rand)
  BY <1>1, <1>2, AtEaseNow
<1>4. PICK v \in BOOLEAN :
        /\ v = TRUE => m.ptk = "PTKINITDONE"
        /\ sm' = [sm EXCEPT ![s].GUpdateStationKeys = v]
        /\ v = TRUE => run'.st = s
        /\ group' = group \/ \E k : group' = [group EXCEPT !.done = k]
  <2>1. CASE m.ptk = "PTKINITDONE"
    BY <1>2, <2>1 DEF wpa_group_update_sta, TimerInv, Inv, RunOK
  <2>2. CASE m.ptk # "PTKINITDONE"
    BY <1>2, <2>2 DEF wpa_group_update_sta
  <2> QED BY <2>1, <2>2
<1>5. PICK n : n = [m EXCEPT !.GUpdateStationKeys = v]  OBVIOUS
<1>6. Struck(m, n, c, rand) /\ (v = FALSE => AtEase(n))
  BY <1>3, <1>4, <1>5, UpdateStruck
<1>7. sm' = [sm EXCEPT ![s] = n]  BY <1>2, <1>4, <1>5
<1>8. run'.st = s \/ AtEase(n)  BY <1>4, <1>6
<1>9. PICK d, u, p : d = down[s] /\ u = up[s] /\ p = sup[s]  OBVIOUS
<1>10. down' = [down EXCEPT ![s] = d] /\ up' = [up EXCEPT ![s] = u]
       /\ sup' = [sup EXCEPT ![s] = p]
  BY <1>9, SameLinks DEF wpa_group_update_sta
<1>11. group'.state \in {"SETKEYS", "SETKEYSDONE"} /\ group'.gn \in {1, 2}
  BY <1>4 DEF TimerInv, Inv, GroupShape, Shapes
<1>12. Struck(sm[s], n, c, rand) /\ Linked(d, u, p, sm[s], rand)  BY <1>2, <1>3, <1>6, <1>9
<1>13. UNCHANGED <<rand, crossed>>  BY DEF wpa_group_update_sta
<1> QED BY <1>1, <1>2, <1>7, <1>8, <1>10, <1>11, <1>12, <1>13, StruckTimer

(* The authenticator does nothing.                                         *)
Stays == UNCHANGED <<sm, group, run, crossed>>

(* Something happens on the links of a station or to its supplicant.       *)
LEMMA LinksTimer ==
  ASSUME TimerInv, Inv', Idle, Stays, NEW s \in Stations, rand' \in Nat, rand <= rand',
         NEW d, NEW u, NEW p, Linked(d, u, p, sm[s], rand),
         down' = [down EXCEPT ![s] = d], up' = [up EXCEPT ![s] = u],
         sup' = [sup EXCEPT ![s] = p]
  PROVE  TimerInv'
<1>1. /\ down'[s] = d /\ up'[s] = u /\ sup'[s] = p
      /\ \A t \in Stations \ {s} : down'[t] = down[t] /\ up'[t] = up[t] /\ sup'[t] = sup[t]
  BY DEF TimerInv, Shapes
<1>2. rand \in Nat /\ rand > 0  BY DEF TimerInv, Shapes
<1>3. Shapes'
  <2>1. /\ sup' = [t \in Stations |-> sup'[t]]
        /\ down' = [t \in Stations |-> down'[t]] /\ up' = [t \in Stations |-> up'[t]]
    BY DEF TimerInv, Shapes
  <2>2. /\ crossed' = [ptk |-> crossed'.ptk, gtk |-> crossed'.gtk]
        /\ group'.state \in {"SETKEYS", "SETKEYSDONE"} /\ group'.gn \in {1, 2}
    BY DEF TimerInv, Shapes, Stays
  <2>3. rand' > 0  BY <1>2
  <2> QED BY <2>1, <2>2, <2>3 DEF Shapes
<1>4. \A t \in Stations : Crossing(t)' = Crossing(t)  BY DEF Crossing, Stays
<1>5. PICK m, c, q : m = sm[s] /\ c = Crossing(s) /\ q = rand'  OBVIOUS
<1>6. run.st = NoOne /\ s # run.st  BY HandshakeAssumption DEF Idle
<1>7. Station(m, c, rand) /\ AtEase(m)  BY <1>5, <1>6, AtEaseNow
<1>8. Station(m, c, q) /\ Ages(m, rand, m, q)  BY <1>2, <1>5, <1>7, StationLater
<1>9. Linked(d, u, p, m, rand)  BY <1>5
<1>10. DownOK(d, m, q) /\ UpOK(u, m, q)  BY <1>8, <1>9, AgesDown, AgesUp DEF Linked
<1>11. Linked(d, u, p, m, q)  BY <1>9, <1>10 DEF Linked
<1>12. Linked(down'[s], up'[s], sup'[s], m, rand')  BY <1>1, <1>5, <1>11
<1>13. \A t \in Stations \ {s} : Linked(down'[t], up'[t], sup'[t], sm[t], rand)
  BY <1>1 DEF TimerInv, Settled
<1>14. sm' = [sm EXCEPT ![s] = m]  BY <1>5, SameLinks DEF Stays
<1>15. c = Crossing(s)' /\ Station(m, c, rand') /\ run.st \in {s, NoOne}
       /\ (run'.st = s \/ AtEase(m)) /\ \A t \in Stations \ {s} : Crossing(t)' = Crossing(t)
  BY <1>4, <1>5, <1>6, <1>7, <1>8
<1> QED BY <1>3, <1>12, <1>13, <1>14, <1>15, OneSettled

(* A frame is lost.                                                        *)
LEMMA LoseTimer ==
  ASSUME TimerInv, Inv', NEW s \in Stations, Lose(s)
  PROVE  TimerInv'
<1>1. Idle /\ Stays /\ rand' = rand /\ sup' = sup  BY DEF Lose, Stays
<1>2. PICK m : m = sm[s]  OBVIOUS
<1>3. Linked(down[s], up[s], sup[s], m, rand) /\ rand' \in Nat /\ rand <= rand'
  <2>1. s # run.st  BY <1>1, HandshakeAssumption DEF Idle
  <2> QED BY <1>1, <1>2, <2>1, AtEaseNow
<1>4. PICK p : p = sup[s]  OBVIOUS
<1>5. sup' = [sup EXCEPT ![s] = p]  BY <1>1, <1>4, SameLinks
<1>6. PICK d, u : /\ Linked(d, u, p, sm[s], rand)
                  /\ down' = [down EXCEPT ![s] = d] /\ up' = [up EXCEPT ![s] = u]
  <2>1. CASE down[s] # <<>> /\ down' = [down EXCEPT ![s] = Tail(@)] /\ up' = up
    <3>1. PICK d, u : d = Tail(down[s]) /\ u = up[s]  OBVIOUS
    <3>2. Linked(d, u, p, sm[s], rand)
      BY <1>2, <1>3, <1>4, <2>1, <3>1, TailDown DEF Linked
    <3>3. down' = [down EXCEPT ![s] = d] /\ up' = [up EXCEPT ![s] = u]
      BY <2>1, <3>1, SameLinks
    <3> QED BY <3>2, <3>3
  <2>2. CASE up[s] # <<>> /\ up' = [up EXCEPT ![s] = Tail(@)] /\ down' = down
    <3>1. PICK d, u : d = down[s] /\ u = Tail(up[s])  OBVIOUS
    <3>2. Linked(d, u, p, sm[s], rand)
      BY <1>2, <1>3, <1>4, <2>2, <3>1, TailUp DEF Linked
    <3>3. down' = [down EXCEPT ![s] = d] /\ up' = [up EXCEPT ![s] = u]
      BY <2>2, <3>1, SameLinks
    <3> QED BY <3>2, <3>3
  <2> QED BY <2>1, <2>2 DEF Lose
<1> QED BY <1>1, <1>3, <1>5, <1>6, LinksTimer

(* Frames of a station that answer a harmless one, or none.                *)
LEMMA AnswersPut ==
  ASSUME NEW u, NEW f, NEW m, NEW r, UpOK(u, m, r), NEW q, Answers(q, f), DownFrame(f, m, r)
  PROVE  UpOK(Put(u, q), m, r) /\ Len(Put(u, q)) <= CAP
<1>1. UpOK(q, m, r)  BY AnswersUp
<1> QED BY <1>1, PutUp

(* The station asks for a new key, or leaves.                              *)
LEMMA StationSendsTimer ==
  ASSUME TimerInv, Inv', NEW s \in Stations, KeyRequest(s) \/ Leave(s)
  PROVE  TimerInv'
<1>1. Idle /\ Stays /\ rand' = rand /\ down' = down  BY DEF KeyRequest, Leave, Stays
<1>2. PICK m : m = sm[s]  OBVIOUS
<1>3. Linked(down[s], up[s], sup[s], m, rand) /\ rand' \in Nat /\ rand <= rand'
  <2>1. s # run.st  BY <1>1, HandshakeAssumption DEF Idle
  <2> QED BY <1>1, <1>2, <2>1, AtEaseNow
<1>4. PICK x : x = [sup |-> sup[s], out |-> <<>>, rand |-> rand]  OBVIOUS
<1>5. PICK f : f = DeauthFrame  OBVIOUS
<1>6. DownFrame(f, m, rand)  BY <1>5, DeauthGood
<1>7. SuppOK(x, f)
  <2>1. Answers(<<>>, f)  BY NoAnswer
  <2> QED BY <1>3, <1>4, <2>1 DEF SuppOK, Linked
<1>8. PICK y : /\ SuppOK(y, f) /\ sup' = [sup EXCEPT ![s] = y.sup]
               /\ up' = [up EXCEPT ![s] = Put(@, y.out)]
  <2>1. CASE KeyRequest(s)
    <3>1. PICK msg \in Requests :
            /\ sup' = [sup EXCEPT ![s] = wpa_sm_key_request(x, msg).sup]
            /\ up' = [up EXCEPT ![s] = Put(@, wpa_sm_key_request(x, msg).out)]
      BY <1>4, <2>1 DEF KeyRequest
    <3>2. PICK y : y = wpa_sm_key_request(x, msg)  OBVIOUS
    <3>3. SuppOK(y, f)  BY <1>7, <3>2, KeyRequestOK
    <3> QED BY <3>1, <3>2, <3>3
  <2>2. CASE Leave(s)
    <3>1. PICK y : y = wpa_sm_deauthenticate(x)  OBVIOUS
    <3>2. SuppOK(y, f)  BY <1>7, <3>1, DeauthenticateOK
    <3> QED BY <1>4, <2>2, <3>1, <3>2 DEF Leave
  <2> QED BY <2>1, <2>2
<1>9. PICK d, u, p : d = down[s] /\ u = Put(up[s], y.out) /\ p = y.sup  OBVIOUS
<1>10. Linked(d, u, p, sm[s], rand)
  <2>1. UpOK(u, m, rand) /\ Len(u) <= CAP
    BY <1>3, <1>6, <1>8, <1>9, AnswersPut DEF Linked, SuppOK
  <2> QED BY <1>2, <1>3, <1>8, <1>9, <2>1 DEF Linked, SuppOK
<1>11. down' = [down EXCEPT ![s] = d] /\ up' = [up EXCEPT ![s] = u]
       /\ sup' = [sup EXCEPT ![s] = p]
  BY <1>1, <1>8, <1>9, SameLinks
<1> QED BY <1>1, <1>3, <1>10, <1>11, LinksTimer

(* A frame arrives at the station.                                         *)
LEMMA StaReceiveTimer ==
  ASSUME TimerInv, Inv', NEW s \in Stations, StaReceive(s)
  PROVE  TimerInv'
<1>1. Idle /\ Stays /\ down[s] # <<>> /\ down' = [down EXCEPT ![s] = Tail(@)]
  BY DEF StaReceive, Stays
<1>2. PICK m, f : m = sm[s] /\ f = Head(down[s])  OBVIOUS
<1>3. Linked(down[s], up[s], sup[s], m, rand) /\ rand \in Nat
  <2>1. s # run.st  BY <1>1, HandshakeAssumption DEF Idle
  <2> QED BY <1>1, <1>2, <2>1, AtEaseNow
<1>4. PICK d : d = Tail(down[s])  OBVIOUS
<1>5. DownFrame(f, m, rand) /\ DownOK(d, m, rand) /\ Len(d) <= CAP
  BY <1>1, <1>2, <1>3, <1>4, TailDown DEF Linked
<1>6. PICK x : x = [sup |-> sup[s], out |-> <<>>, rand |-> rand]  OBVIOUS
<1>7. SuppOK(x, f) /\ x.rand = rand
  <2>1. Answers(<<>>, f)  BY NoAnswer
  <2> QED BY <1>3, <1>6, <2>1 DEF SuppOK, Linked
<1>8. PICK ok, y :
        /\ y = IF ~sup[s].assoc THEN x
               ELSE IF f.msg = "deauth" THEN [x EXCEPT !.sup = wpa_sm_notify_disassoc(@)]
               ELSE wpa_sm_rx_eapol(x, f, ok)
        /\ sup' = [sup EXCEPT ![s] = y.sup]
        /\ up' = [up EXCEPT ![s] = Put(@, y.out)]
        /\ rand' = y.rand
  <2>1. PICK ok \in BOOLEAN :
          \E y \in {IF ~sup[s].assoc THEN x
                   ELSE IF f.msg = "deauth" THEN [x EXCEPT !.sup = wpa_sm_notify_disassoc(@)]
                   ELSE wpa_sm_rx_eapol(x, f, ok)} :
            /\ sup' = [sup EXCEPT ![s] = y.sup]
            /\ up' = [up EXCEPT ![s] = Put(@, y.out)]
            /\ rand' = y.rand
    BY <1>2, <1>6, Zenon DEF StaReceive
  <2> QED BY <2>1
<1>9. SuppOK(y, f) /\ y.rand \in {rand, rand + 1}
  <2>1. CASE y = x  BY <1>7, <2>1
  <2>2. CASE y = [x EXCEPT !.sup = wpa_sm_notify_disassoc(@)]
    <3>1. PICK q : q = wpa_sm_notify_disassoc(x.sup)  OBVIOUS
    <3>2. SupShape(q)  BY <1>7, <3>1, DisassocShape DEF SuppOK
    <3>3. y = [x EXCEPT !.sup = q]  BY <2>2, <3>1
    <3> QED BY <1>7, <3>2, <3>3 DEF SuppOK
  <2>3. CASE f.msg # "deauth" /\ y = wpa_sm_rx_eapol(x, f, ok)
    <3>1. f.msg \in {"1/4", "3/4", "1/2"}  BY <1>5, <2>3 DEF DownFrame
    <3> QED BY <1>7, <2>3, <3>1, RxEapolOK
  <2> QED BY <1>8, <2>1, <2>2, <2>3
<1>10. rand' \in Nat /\ rand <= rand'  BY <1>3, <1>8, <1>9
<1>11. PICK u, p : u = Put(up[s], y.out) /\ p = y.sup  OBVIOUS
<1>12. Linked(d, u, p, sm[s], rand)
  <2>1. UpOK(u, m, rand) /\ Len(u) <= CAP
    BY <1>3, <1>5, <1>9, <1>11, AnswersPut DEF Linked, SuppOK
  <2> QED BY <1>2, <1>5, <1>9, <1>11, <2>1 DEF Linked, SuppOK
<1>13. down' = [down EXCEPT ![s] = d] /\ up' = [up EXCEPT ![s] = u]
       /\ sup' = [sup EXCEPT ![s] = p]
  BY <1>1, <1>4, <1>8, <1>11
<1> QED BY <1>1, <1>10, <1>12, <1>13, LinksTimer

(* The records of all stations are as before, and so is rand.              *)
Still ==
  UNCHANGED <<sm, rand>> /\ run.st \in {run'.st, NoOne} /\ crossed'.ptk = crossed.ptk

(* The group machine moves.                                                *)
LEMMA StillTimer ==
  ASSUME TimerInv, Inv', Shapes', Still,
         \A t \in Stations : Linked(down'[t], up'[t], sup'[t], sm[t], rand)
  PROVE  TimerInv'
<1>1. Settled'
  <2> SUFFICES ASSUME NEW t \in Stations
               PROVE  Station(sm'[t], Crossing(t)', rand')
                      /\ Linked(down'[t], up'[t], sup'[t], sm'[t], rand')
    BY DEF Settled
  <2>1. sm'[t] = sm[t] /\ rand' = rand /\ Crossing(t)' = Crossing(t)  BY DEF Still, Crossing
  <2> QED BY <2>1 DEF TimerInv, Settled
<1>2. Eased'  BY HandshakeAssumption DEF TimerInv, Eased, Still
<1> QED BY <1>1, <1>2 DEF TimerInv

(* wpa_rekey_gtk.                                                          *)
LEMMA RekeyGtkTimer ==
  ASSUME TimerInv, Inv', wpa_rekey_gtk
  PROVE  TimerInv'
<1>1. Shapes'
  <2>1. group'.state = group.state /\ group'.gn = group.gn
    BY DEF wpa_rekey_gtk, TimerInv, Inv, GroupShape
  <2> QED BY <2>1 DEF wpa_rekey_gtk, TimerInv, Shapes
<1>2. Still  BY DEF wpa_rekey_gtk, Still, TimerInv, Inv, RunOK
<1>3. \A t \in Stations : Linked(down'[t], up'[t], sup'[t], sm[t], rand)
  BY DEF wpa_rekey_gtk, TimerInv, Settled
<1> QED BY <1>1, <1>2, <1>3, StillTimer

(* Relabelled links and supplicants are good ones.                         *)
LEMMA RelabelledLinks ==
  ASSUME TimerInv, NEW q, NEW p,
         \/ q = Relabelled(AfterSetkeysdone, down) /\ p = RelabelledKeys(AfterSetkeysdone)
         \/ q = Relabelled(AfterSetkeys, down) /\ p = RelabelledKeys(AfterSetkeys)
  PROVE  /\ q = [t \in Stations |-> q[t]] /\ p = [t \in Stations |-> p[t]]
         /\ \A t \in Stations : Linked(q[t], up[t], p[t], sm[t], rand)
<1>1. \A t \in Stations : Linked(down[t], up[t], sup[t], sm[t], rand)
  BY DEF TimerInv, Settled
<1>2. \A t \in Stations : SupShape(sup[t])  BY <1>1 DEF Linked
<1>3. p = [t \in Stations |-> p[t]] /\ \A t \in Stations : SupShape(p[t])
  BY <1>2, RelabelledSups
<1>4. /\ q = [t \in Stations |-> q[t]]
      /\ \A t \in Stations : \A m, r :
           DownOK(down[t], m, r) => DownOK(q[t], m, r) /\ Len(q[t]) = Len(down[t])
  BY RelabelledQueues
<1>5. \A t \in Stations : Linked(q[t], up[t], p[t], sm[t], rand)
  BY <1>1, <1>3, <1>4 DEF Linked
<1> QED BY <1>3, <1>4, <1>5

(* The group machine: the new key is made, is used, or it rests.           *)
LEMMA GroupStepTimer ==
  ASSUME TimerInv, Inv', wpa_group_sm_step
  PROVE  TimerInv'
<1>1. CASE wpa_group_setkeysdone /\ UNCHANGED sm
  <2>1. PICK q, p : q = down' /\ p = sup'  OBVIOUS
  <2>2. q = Relabelled(AfterSetkeysdone, down) /\ p = RelabelledKeys(AfterSetkeysdone)
    BY <1>1, <2>1 DEF wpa_group_setkeysdone
  <2>3. /\ q = [t \in Stations |-> q[t]] /\ p = [t \in Stations |-> p[t]]
        /\ \A t \in Stations : Linked(q[t], up[t], p[t], sm[t], rand)
    BY <2>2, RelabelledLinks
  <2>4. group'.state = "SETKEYSDONE" /\ group'.gn = group.gn
    BY <1>1 DEF wpa_group_setkeysdone, TimerInv, Inv, GroupShape
  <2>5. UNCHANGED <<sm, up, rand, crossed, run>>
    BY <1>1 DEF wpa_group_setkeysdone, wpa_group_sm_step
  <2>6. Shapes'
    BY <2>1, <2>3, <2>4, <2>5 DEF TimerInv, Shapes
  <2>7. Still  BY <2>5 DEF Still
  <2>8. \A t \in Stations : Linked(down'[t], up'[t], sup'[t], sm[t], rand)
    BY <2>1, <2>3, <2>5
  <2> QED BY <2>6, <2>7, <2>8, StillTimer
<1>2. CASE wpa_group_setkeys
  <2>1. PICK q, p : q = down' /\ p = sup'  OBVIOUS
  <2>2. q = Relabelled(AfterSetkeys, down) /\ p = RelabelledKeys(AfterSetkeys)
    BY <1>2, <2>1 DEF wpa_group_setkeys
  <2>3. /\ q = [t \in Stations |-> q[t]] /\ p = [t \in Stations |-> p[t]]
        /\ \A t \in Stations : Linked(q[t], up[t], p[t], sm[t], rand)
    BY <2>2, RelabelledLinks
  <2>4. group'.state = "SETKEYS" /\ group'.gn \in {1, 2}
    <3>1. group.gn \in {1, 2}  BY DEF TimerInv, Shapes
    <3>2. group'.state = "SETKEYS" /\ group'.gn = 3 - group.gn
      BY <1>2 DEF wpa_group_setkeys
    <3> QED BY <3>1, <3>2
  <2>5. UNCHANGED <<sm, up, rand>> /\ run'.st = run.st
    BY <1>2 DEF wpa_group_setkeys, wpa_group_sm_step, TimerInv, Inv, RunOK
  <2>6. crossed' = [ptk |-> crossed'.ptk, gtk |-> crossed'.gtk] /\ crossed'.ptk = crossed.ptk
    BY <1>2 DEF wpa_group_setkeys, TimerInv, Shapes
  <2>7. Shapes'
    BY <2>1, <2>3, <2>4, <2>5, <2>6 DEF TimerInv, Shapes
  <2>8. Still  BY <2>5, <2>6 DEF Still
  <2>9. \A t \in Stations : Linked(down'[t], up'[t], sup'[t], sm[t], rand)
    BY <2>1, <2>3, <2>5
  <2> QED BY <2>7, <2>8, <2>9, StillTimer
<1>3. CASE UNCHANGED <<sm, sup, down, group, crossed>>
  <2>1. UNCHANGED <<sm, sup, down, up, rand, group, crossed>> /\ run.st = NoOne
    BY <1>3 DEF wpa_group_sm_step
  <2>2. Shapes'  BY <2>1 DEF TimerInv, Shapes
  <2>3. Still  BY <2>1 DEF Still
  <2>4. \A t \in Stations : Linked(down'[t], up'[t], sup'[t], sm[t], rand)
    BY <2>1 DEF TimerInv, Settled
  <2> QED BY <2>2, <2>3, <2>4, StillTimer
<1> QED BY <1>1, <1>2, <1>3 DEF wpa_group_sm_step

(* wpa_sm_step.                                                            *)
LEMMA StepTimer ==
  ASSUME TimerInv, Inv', NEW s \in Stations, wpa_sm_step(s)
  PROVE  TimerInv'
<1>1. run.st = s  BY DEF wpa_sm_step
<1>2. PICK ok, x, y, z :
        /\ x = [sm |-> sm[s], done |-> group.done, out |-> <<>>, rand |-> rand]
        /\ y = PtkRound(x, CurrentGtk, ok)
        /\ z = GroupRound(y, CurrentGtk)
        /\ Round(s, z)
  BY DEF wpa_sm_step
<1>3. PICK c : c = Crossing(s)  OBVIOUS
<1>4. c \in BOOLEAN /\ rand \in Nat /\ rand > 0 /\ Station(sm[s], c, rand)
      /\ Linked(down[s], up[s], sup[s], sm[s], rand)
  BY <1>3 DEF Crossing, TimerInv, Shapes, Settled
<1>5. Given(x, c)
  <2>1. XOK(x) /\ x.rand = rand /\ x.sm = sm[s] /\ x.out = <<>>
    BY <1>2 DEF XOK, XShape, TimerInv, Inv, StationsOK, GroupShape
  <2>2. DownOK(<<>>, sm[s], rand)  BY DEF DownOK, Elements
  <2> QED BY <1>4, <2>1, <2>2 DEF Given
<1>6. PICK d : d = Crossing(s)'  OBVIOUS
<1>7. /\ crossed' = [ptk |-> crossed'.ptk, gtk |-> crossed.gtk]
      /\ crossed'.ptk = IF z.sm.ptk = "PTKSTART" /\ z.sm.grp = "REKEYNEGOTIATING"
                        THEN crossed.ptk \cup {s} ELSE crossed.ptk
  BY <1>2 DEF Round, TimerInv, Shapes
<1>8. /\ d \in BOOLEAN
      /\ (c = TRUE \/ (z.sm.ptk = "PTKSTART" /\ z.sm.grp = "REKEYNEGOTIATING")) => d = TRUE
      /\ \A t \in Stations \ {s} : Crossing(t)' = Crossing(t)
  <2>1. \A t \in Stations \ {s} : t \in crossed'.ptk <=> t \in crossed.ptk  BY <1>7
  <2>2. c = TRUE => s \in crossed.ptk  BY <1>3 DEF Crossing
  <2>3. s \in crossed'.ptk => d = TRUE  BY <1>6 DEF Crossing
  <2>4. (s \in crossed.ptk \/ (z.sm.ptk = "PTKSTART" /\ z.sm.grp = "REKEYNEGOTIATING"))
          => s \in crossed'.ptk
    BY <1>7
  <2>5. d \in BOOLEAN  BY <1>6 DEF Crossing
  <2>6. \A t \in Stations \ {s} : Crossing(t)' = Crossing(t)  BY <2>1 DEF Crossing
  <2> QED BY <2>2, <2>3, <2>4, <2>5, <2>6
<1>9. Made(x, z, d)  BY <1>2, <1>4, <1>5, <1>8, RoundMade
<1>10. PICK q, k : q = z.rand /\ k = z.sm  OBVIOUS
<1>11. /\ Station(k, d, q) /\ SmOK(k) /\ q \in Nat /\ rand <= q /\ q > 0
       /\ Ages(sm[s], rand, k, q) /\ DownOK(z.out, k, q) /\ rand' = q
  <2>1. x.sm = sm[s] /\ x.rand = rand  BY <1>2
  <2>2. rand' = q  BY <1>2, <1>10 DEF Round
  <2>3. /\ Station(k, d, q) /\ SmOK(k) /\ q \in Nat /\ rand <= q
        /\ Ages(sm[s], rand, k, q) /\ DownOK(z.out, k, q)
    BY <1>9, <1>10, <2>1 DEF Made, Given, XOK
  <2> QED BY <1>4, <2>2, <2>3
<1>12. PICK m : m = IF (PtkTarget(k) = None /\ GroupTarget(k) = None) /\ run.free
                    THEN NoStation ELSE k
  OBVIOUS
<1>13. sm' = [sm EXCEPT ![s] = m]  BY <1>2, <1>10, <1>12 DEF Round
<1>14. Station(m, d, q) /\ Ages(k, q, m, q) /\ Ages(sm[s], rand, m, q)
  <2>1. CASE m = k  BY <1>11, <2>1 DEF Ages
  <2>2. CASE m = NoStation
    <3>1. Struck(k, m, d, q)  BY <1>11, <2>2, NoStationStruck
    <3> QED BY <1>11, <3>1 DEF Struck, Ages
  <2> QED BY <1>12, <2>1, <2>2
<1>15. run'.st = s \/ AtEase(m)
  <2>1. CASE Resting(k)
    <3>1. AtEase(k)  BY <1>11, <2>1, LoopEnds
    <3>2. AtEase(NoStation)  BY <1>4, NoStationStruck
    <3> QED BY <1>12, <3>1, <3>2
  <2>2. CASE ~Resting(k)
    <3>1. run' = run  BY <1>2, <1>10, <2>2 DEF Round, Resting
    <3> QED BY <1>1, <3>1
  <2> QED BY <2>1, <2>2
<1>16. PICK sent : sent = [down EXCEPT ![s] = Put(@, z.out)]  OBVIOUS
<1>17. /\ sent = [t \in Stations |-> sent[t]] /\ sent[s] = Put(down[s], z.out)
       /\ \A t \in Stations \ {s} : sent[t] = down[t]
  BY <1>16 DEF TimerInv, Shapes
<1>18. DownOK(sent[s], m, q) /\ Len(sent[s]) <= CAP
  <2>1. DownOK(down[s], m, q)  BY <1>4, <1>14, AgesDown DEF Linked
  <2>2. DownOK(z.out, m, q)  BY <1>11, <1>14, AgesDown
  <2> QED BY <1>17, <2>1, <2>2, PutDown
<1>19. /\ down' = [t \in Stations |-> down'[t]] /\ sup' = [t \in Stations |-> sup'[t]]
       /\ DownOK(down'[s], m, q) /\ Len(down'[s]) <= CAP
       /\ \A t \in Stations \ {s} : DownOK(down'[t], sm[t], rand) /\ Len(down'[t]) <= CAP
       /\ \A t \in Stations : SupShape(sup'[t])
  <2>1. \A t \in Stations \ {s} : DownOK(sent[t], sm[t], rand) /\ Len(sent[t]) <= CAP
    BY <1>17 DEF TimerInv, Settled, Linked
  <2>2. \A t \in Stations : SupShape(sup[t])  BY DEF TimerInv, Settled, Linked
  <2>3. CASE down' = sent /\ sup' = sup
    BY <1>17, <1>18, <2>1, <2>2, <2>3 DEF TimerInv, Shapes
  <2>4. CASE /\ down' = Relabelled(AfterSetkeysdone, sent)
             /\ sup' = RelabelledKeys(AfterSetkeysdone)
    <3>1. PICK v, w : v = down' /\ w = sup'  OBVIOUS
    <3>2. v = Relabelled(AfterSetkeysdone, sent) /\ w = RelabelledKeys(AfterSetkeysdone)
      BY <2>4, <3>1
    <3>3. /\ v = [t \in Stations |-> v[t]]
          /\ \A t \in Stations : \A n, r :
               DownOK(sent[t], n, r) => DownOK(v[t], n, r) /\ Len(v[t]) = Len(sent[t])
      BY <3>2, RelabelledQueues
    <3>4. w = [t \in Stations |-> w[t]] /\ \A t \in Stations : SupShape(w[t])
      BY <2>2, <3>2, RelabelledSups
    <3>5. DownOK(v[s], m, q) /\ Len(v[s]) <= CAP  BY <1>18, <3>3
    <3>6. \A t \in Stations \ {s} : DownOK(v[t], sm[t], rand) /\ Len(v[t]) <= CAP
      BY <2>1, <3>3
    <3> QED BY <3>1, <3>3, <3>4, <3>5, <3>6
  <2> QED BY <1>2, <1>16, <2>3, <2>4 DEF Round
<1>20. up' = up  BY <1>2 DEF Round
<1>21. Shapes'
  <2>1. group'.state \in {"SETKEYS", "SETKEYSDONE"} /\ group'.gn \in {1, 2}
    <3>1. group.state \in {"SETKEYS", "SETKEYSDONE"} /\ group.gn \in {1, 2}
      BY DEF TimerInv, Shapes
    <3>2. group'.gn = group.gn /\ group'.state \in {group.state, "SETKEYSDONE"}
      BY <1>2 DEF Round, TimerInv, Inv, GroupShape
    <3> QED BY <3>1, <3>2
  <2>2. crossed' = [ptk |-> crossed'.ptk, gtk |-> crossed'.gtk]  BY <1>7
  <2>3. up' = [t \in Stations |-> up'[t]]  BY <1>20 DEF TimerInv, Shapes
  <2> QED BY <1>11, <1>19, <2>1, <2>2, <2>3 DEF Shapes
<1>22. Linked(down'[s], up'[s], sup'[s], m, rand')
  <2>1. UpOK(up[s], m, q) /\ Len(up[s]) <= CAP  BY <1>4, <1>14, AgesUp DEF Linked
  <2> QED BY <1>11, <1>19, <1>20, <2>1 DEF Linked
<1>23. \A t \in Stations \ {s} : Linked(down'[t], up'[t], sup'[t], sm[t], rand)
  BY <1>19, <1>20 DEF Linked, TimerInv, Settled
<1>24. rand <= rand' /\ Station(m, d, rand') /\ run.st \in {s, NoOne}  BY <1>1, <1>11, <1>14
<1> QED BY <1>6, <1>8, <1>13, <1>15, <1>21, <1>22, <1>23, <1>24, OneSettled

(* Every step keeps the invariant.                                         *)
LEMMA NextTimer ==
  ASSUME TimerInv, [Next]_vars
  PROVE  TimerInv'
<1>1. Inv'  BY NextInv DEF TimerInv
<1>2. CASE UNCHANGED vars
  <2>1. Shapes'  BY <1>2 DEF vars, TimerInv, Shapes
  <2>2. Still  BY <1>2 DEF vars, Still
  <2>3. \A t \in Stations : Linked(down'[t], up'[t], sup'[t], sm[t], rand)
    BY <1>2 DEF vars, TimerInv, Settled
  <2> QED BY <1>1, <2>1, <2>2, <2>3, StillTimer
<1>3. CASE wpa_rekey_gtk  BY <1>1, <1>3, RekeyGtkTimer
<1>4. CASE wpa_group_sm_step  BY <1>1, <1>4, GroupStepTimer
<1>5. ASSUME NEW s \in Stations,
             \/ wpa_sm_step(s) \/ wpa_group_update_sta(s) \/ Associate(s)
             \/ APReceive(s) \/ Timeout(s) \/ wpa_rekey_ptk(s)
      PROVE  TimerInv'
  BY <1>1, <1>5, StepTimer, UpdateStaTimer, AssociateTimer, APReceiveTimer, TimeoutTimer,
     RekeyPtkTimer
<1>6. ASSUME NEW s \in Stations,
             StaReceive(s) \/ Lose(s) \/ KeyRequest(s) \/ Leave(s)
      PROVE  TimerInv'
  BY <1>1, <1>6, StaReceiveTimer, LoseTimer, StationSendsTimer
<1>7. ASSUME NEW s \in Stations, ap_handle_timer(s) \/ ap_handle_session_timer(s)
      PROVE  TimerInv'
  BY <1>1, <1>7, FreedTimer
<1> QED BY <1>2, <1>3, <1>4, <1>5, <1>6, <1>7 DEF Next

(* The counters of tries and the replay counters stay within their bounds, *)
(* and the links hold no more than CAP frames, for every number of         *)
(* stations and every configured number of tries.                          *)
THEOREM TypeCorrect == Spec => []TypeOK
<1>1. TimerInv => TypeOK
  <2> SUFFICES ASSUME TimerInv PROVE TypeOK  OBVIOUS
  <2>1. ASSUME NEW s \in Stations
        PROVE  /\ sm[s].TimeoutCtr \in 0 .. PairwiseUpdateCount + 1
               /\ sm[s].GTimeoutCtr \in 0 .. GroupUpdateCount + 1
               /\ \A n \in sm[s].valid : n <= sm[s].ctr /\ n + RSNA_MAX_EAPOL_RETRIES > sm[s].ctr
               /\ Len(down[s]) <= CAP /\ Len(up[s]) <= CAP
    <3>1. SmCounters(sm[s]) /\ SmWindow(sm[s])
      BY DEF TimerInv, Settled, Station, SmTyped
    <3>2. Len(down[s]) <= CAP /\ Len(up[s]) <= CAP  BY DEF TimerInv, Settled, Linked
    <3> QED BY <3>1, <3>2 DEF SmCounters, SmWindow
  <2>2. group.done \in Nat
    BY AwaitedFinite, FS_CardinalityType DEF TimerInv, Inv, GroupCount
  <2>3. /\ group.state \in {"SETKEYS", "SETKEYSDONE"} /\ group.gn \in {1, 2}
        /\ run.st \in Stations \cup {NoOne}
    BY DEF TimerInv, Shapes, Inv, RunOK
  <2> QED BY <2>1, <2>2, <2>3 DEF TypeOK
<1>2. TimerInv /\ [Next]_vars => TimerInv'  BY NextTimer
<1> QED BY InitTimer, <1>1, <1>2, PTL DEF Spec

(* The authenticator waits for an answer only with a timeout registered,   *)
(* although every verified frame cancels all timeouts of its station.  An  *)
(* answer that does so makes a machine move on, because none of an earlier *)
(* group key handshake passes for an answer to the present pairwise        *)
(* handshake.  A Request for a group key moves none, and is the only way   *)
(* to be left waiting without a timeout (Unwatched).                       *)
THEOREM NeverWaitsForEver == Spec => []WaitsWithTimer
<1>1. TimerInv => WaitsWithTimer
  <2> SUFFICES ASSUME TimerInv, Idle, NEW s \in Stations
               PROVE  /\ sm[s].ptk \in {"PTKSTART", "PTKCALCNEGOTIATING", "PTKINITNEGOTIATING"}
                           => sm[s].timers > 0 \/ Unwatched(s)
                      /\ (sm[s].grp = "REKEYNEGOTIATING" /\ s \notin crossed.ptk)
                           => sm[s].timers > 0 \/ Unwatched(s)
    BY DEF WaitsWithTimer
  <2>1. PICK m, c : m = sm[s] /\ c = Crossing(s)  OBVIOUS
  <2>2. AtEase(m) /\ Station(m, c, rand)
    BY <2>1, AtEaseNow, HandshakeAssumption DEF Idle
  <2>3. m.ptk \in {"PTKSTART", "PTKCALCNEGOTIATING", "PTKINITNEGOTIATING"}
          => \/ m.timers > 0 \/ m.rx = "grequest"
             \/ m.ptk = "PTKCALCNEGOTIATING" /\ m.PTK_valid
    BY <2>2 DEF AtEase, Awaiting, Excused
  <2>4. s \notin crossed.ptk => c = FALSE  BY <2>1 DEF Crossing
  <2>5. m.grp = "REKEYNEGOTIATING" => GroupWaits(m)
    BY <2>2 DEF AtEase, GroupWaits
  <2>6. m.grp = "REKEYNEGOTIATING" /\ c = FALSE => m.timers > 0 \/ m.rx = "grequest"
    BY <2>2, <2>5 DEF Station, GroupTimerOK
  <2>7. m.timers > 0 \/ m.timers = 0  BY <2>2 DEF Station, SmTyped, SmCounters
  <2> QED BY <2>1, <2>3, <2>4, <2>6, <2>7 DEF Unwatched
<1>2. TimerInv /\ [Next]_vars => TimerInv'  BY NextTimer
<1> QED BY InitTimer, <1>1, <1>2, PTL DEF Spec

=================================================================================
