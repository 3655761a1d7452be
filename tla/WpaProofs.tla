------------------------------- MODULE WpaProofs -------------------------------
(***************************************************************************)
(* The count of stations whose group key handshake is awaited is right for *)
(* every finite set of stations: the new group key is used when all of     *)
(* them have answered or are gone, not before and not never because of a   *)
(* wrong count.                                                            *)
(*                                                                         *)
(* Every entry function of the two state machines of a station either      *)
(* leaves its flag GUpdateStationKeys and the count alone or lowers both   *)
(* (Kept).  The invariant adds what the removal of a station relies on: a  *)
(* station that is being freed passes through INITIALIZE, which discounts  *)
(* it, before its loop ends (Leaving), and no request is left when a loop  *)
(* has ended.                                                              *)
(***************************************************************************)
EXTENDS WpaHandshake, Integers, FiniteSetTheorems, TLAPS

Reqs == {"Disconnect", "Deauthentication", "Authentication", "ReAuthentication", "PTK"}

(* A record with the fields of struct wpa_state_machine.                   *)
SmShape(m) ==
  m = [assoc |-> m.assoc, started |-> m.started, ptk |-> m.ptk, grp |-> m.grp,
       requests |-> m.requests, PtkGroupInit |-> m.PtkGroupInit,
       TimeoutCtr |-> m.TimeoutCtr, GTimeoutCtr |-> m.GTimeoutCtr,
       TimeoutEvt |-> m.TimeoutEvt, rx |-> m.rx, last_mic |-> m.last_mic,
       MICVerified |-> m.MICVerified, GUpdateStationKeys |-> m.GUpdateStationKeys,
       has_GTK |-> m.has_GTK, ANonce |-> m.ANonce, SNonce |-> m.SNonce,
       alt_SNonce |-> m.alt_SNonce, alt_rc |-> m.alt_rc,
       update_snonce |-> m.update_snonce, PTK |-> m.PTK, PTK_valid |-> m.PTK_valid,
       key |-> m.key, ctr |-> m.ctr, valid |-> m.valid, prev |-> m.prev,
       req_counter |-> m.req_counter, timers |-> m.timers, rekey |-> m.rekey]

SmOK(m) ==
  /\ SmShape(m)
  /\ m.GUpdateStationKeys \in BOOLEAN
  /\ m.requests \subseteq Reqs

(* What the entry functions work on.                                       *)
XShape(x) == x = [sm |-> x.sm, done |-> x.done, out |-> x.out, rand |-> x.rand]
XOK(x) == XShape(x) /\ x.done \in Int /\ SmOK(x.sm)

(* The flag and whether the machine was started are the same in m and n;   *)
(* so are the requests and the state of WPA_PTK.                           *)
Same(m, n) ==
  /\ n.GUpdateStationKeys = m.GUpdateStationKeys
  /\ n.started = m.started
SamePtk(m, n) == n.requests = m.requests /\ n.ptk = m.ptk

(* From x to y the station is counted as before, or no more.               *)
Kept(x, y) ==
  /\ XOK(y)
  /\ y.sm.started = x.sm.started
  /\ \/ y.done = x.done /\ y.sm.GUpdateStationKeys = x.sm.GUpdateStationKeys
     \/ /\ x.sm.GUpdateStationKeys = TRUE
        /\ y.sm.GUpdateStationKeys = FALSE
        /\ y.done = x.done - 1

(* A station that is being freed is not counted, or will be discounted     *)
(* before its loop ends.                                                   *)
Leaving(m) ==
  \/ m.GUpdateStationKeys = FALSE
  \/ m.requests = {"Deauthentication"}
  \/ m.requests = {} /\ m.ptk = "DISCONNECTED"

-----------------------------------------------------------------------------
(* Steps that do not touch the count.                                      *)
LEMMA SameKept ==
  ASSUME NEW x, NEW y, XOK(x), XShape(y), y.done = x.done, SmOK(y.sm), Same(x.sm, y.sm)
  PROVE  Kept(x, y)
BY DEF Kept, XOK, Same

(* Staying is right.                                                       *)
LEMMA KeptReflexive ==
  ASSUME NEW x, XOK(x)
  PROVE  Kept(x, x)
BY DEF Kept

(* Steps compose: once discounted, a station is not counted again.         *)
LEMMA KeptTransitive ==
  ASSUME NEW x, NEW y, NEW z, XOK(x), Kept(x, y), Kept(y, z)
  PROVE  Kept(x, z)
BY DEF Kept, XOK

(* Sending a frame.                                                        *)
LEMMA SendKept ==
  ASSUME NEW x, XOK(x), NEW msg, NEW gtk, NEW y, y = Send(x, msg, gtk)
  PROVE  Kept(x, y) /\ SamePtk(x.sm, y.sm)
<1>1. XOK(y) /\ y.done = x.done /\ Same(x.sm, y.sm) /\ SamePtk(x.sm, y.sm)
  BY DEF XOK, XShape, SmOK, SmShape, Same, SamePtk, Send
<1> QED BY <1>1, SameKept DEF XOK

(* Removal of the pairwise key.                                            *)
LEMMA RemovePtkSame ==
  ASSUME NEW m, SmOK(m), NEW n, n = wpa_remove_ptk(m)
  PROVE  SmOK(n) /\ Same(m, n) /\ SamePtk(m, n)
BY DEF SmOK, SmShape, Same, SamePtk, wpa_remove_ptk

(* Discount lowers the count exactly for a station that was counted.       *)
LEMMA DiscountKept ==
  ASSUME NEW x, XOK(x), NEW y, y = Discount(x)
  PROVE  Kept(x, y) /\ y.sm.GUpdateStationKeys = FALSE /\ SamePtk(x.sm, y.sm)
<1>1. PICK m : m = x.sm  OBVIOUS
<1>2. SmOK(m)  BY <1>1 DEF XOK
<1>3. y.sm = [m EXCEPT !.GUpdateStationKeys = FALSE]
  BY <1>1 DEF XOK, XShape, SmOK, SmShape, Discount
<1>4. XShape(y) /\ y.done = IF m.GUpdateStationKeys THEN x.done - 1 ELSE x.done
  BY <1>1 DEF XOK, XShape, Discount
<1>5. SmOK(y.sm) /\ y.sm.GUpdateStationKeys = FALSE /\ SamePtk(m, y.sm)
      /\ y.sm.started = m.started
  BY <1>2, <1>3, ZenonT(40) DEF SmOK, SmShape, SamePtk
<1> QED BY <1>1, <1>2, <1>4, <1>5 DEF Kept, XOK, SmOK

(* The disconnection of a station leaves a request behind.                 *)
LEMMA StaDisconnectKept ==
  ASSUME NEW x, XOK(x), NEW y, y = wpa_sta_disconnect(x)
  PROVE  Kept(x, y)
<1>1. PICK m : m = wpa_remove_ptk(x.sm)  OBVIOUS
<1>2. SmOK(m) /\ Same(x.sm, m)  BY <1>1, RemovePtkSame DEF XOK
<1>3. y.sm = [m EXCEPT !.requests = @ \cup {"Deauthentication"}, !.assoc = FALSE]
  BY <1>1 DEF XOK, XShape, wpa_sta_disconnect
<1>4. XShape(y) /\ y.done = x.done
  BY DEF XOK, XShape, wpa_sta_disconnect
<1>5. SmOK(y.sm) /\ Same(m, y.sm)
  <2>1. SmShape(y.sm)  BY <1>2, <1>3 DEF SmOK, SmShape
  <2>2. Same(m, y.sm) /\ y.sm.requests = m.requests \cup {"Deauthentication"}
    BY <1>2, <1>3 DEF SmOK, SmShape, Same
  <2> QED BY <1>2, <2>1, <2>2 DEF SmOK, Same, Reqs
<1> QED BY <1>2, <1>4, <1>5, SameKept DEF Same

-----------------------------------------------------------------------------
(* The entry functions of WPA_PTK.                                         *)
LEMMA InitializeKept ==
  ASSUME NEW x, XOK(x), NEW y, y = INITIALIZE(x)
  PROVE  Kept(x, y) /\ y.sm.GUpdateStationKeys = FALSE
<1>1. PICK z : z = Discount(x)  OBVIOUS
<1>2. Kept(x, z) /\ XOK(z) /\ z.sm.GUpdateStationKeys = FALSE
  BY <1>1, DiscountKept DEF Kept
<1>3. PICK m : m = wpa_remove_ptk(z.sm)  OBVIOUS
<1>4. SmOK(m) /\ Same(z.sm, m)  BY <1>2, <1>3, RemovePtkSame DEF XOK
<1>5. y.sm = [m EXCEPT !.ptk = "INITIALIZE", !.TimeoutCtr = 0]
  BY <1>1, <1>2, <1>3 DEF XOK, XShape, INITIALIZE
<1>6. XShape(y) /\ y.done = z.done
  BY <1>1, <1>2 DEF XOK, XShape, INITIALIZE
<1>7. SmOK(y.sm) /\ Same(m, y.sm)
  <2>1. SmShape(y.sm)  BY <1>4, <1>5 DEF SmOK, SmShape
  <2>2. Same(m, y.sm) /\ y.sm.requests = m.requests
    BY <1>4, <1>5 DEF SmOK, SmShape, Same
  <2> QED BY <1>4, <2>1, <2>2 DEF SmOK, Same
<1>8. Kept(z, y) /\ y.sm.GUpdateStationKeys = FALSE
  BY <1>2, <1>4, <1>6, <1>7, SameKept DEF Same
<1> QED BY <1>2, <1>8, KeptTransitive

(* DISCONNECT takes its request back and disconnects the station.          *)
LEMMA DisconnectKept ==
  ASSUME NEW x, XOK(x), NEW y, y = DISCONNECT(x)
  PROVE  Kept(x, y)
<1>1. PICK z : z = [x EXCEPT !.sm.ptk = "DISCONNECT", !.sm.requests = @ \ {"Disconnect"}]
  OBVIOUS
<1>2. PICK m : m = x.sm  OBVIOUS
<1>3. SmOK(m)  BY <1>2 DEF XOK
<1>4. z.sm = [m EXCEPT !.ptk = "DISCONNECT", !.requests = @ \ {"Disconnect"}]
  BY <1>1, <1>2 DEF XOK, XShape, SmOK, SmShape
<1>5. XShape(z) /\ z.done = x.done
  BY <1>1 DEF XOK, XShape, SmOK, SmShape
<1>6. SmOK(z.sm) /\ Same(m, z.sm)
  <2>1. SmShape(z.sm)  BY <1>3, <1>4 DEF SmOK, SmShape
  <2>2. Same(m, z.sm) /\ z.sm.requests = m.requests \ {"Disconnect"}
    BY <1>3, <1>4 DEF SmOK, SmShape, Same
  <2> QED BY <1>3, <2>1, <2>2 DEF SmOK, Same
<1>7. Kept(x, z)  BY <1>2, <1>5, <1>6, SameKept
<1>8. y = wpa_sta_disconnect(z)  BY <1>1 DEF DISCONNECT
<1> QED BY <1>7, <1>8, StaDisconnectKept, KeptTransitive DEF Kept

(* DISCONNECTED takes the request for deauthentication back.               *)
LEMMA DisconnectedKept ==
  ASSUME NEW x, XOK(x), NEW y, y = DISCONNECTED(x)
  PROVE  /\ Kept(x, y)
         /\ y.sm.ptk = "DISCONNECTED"
         /\ y.sm.requests = x.sm.requests \ {"Deauthentication"}
<1>1. PICK m : m = x.sm  OBVIOUS
<1>2. SmOK(m)  BY <1>1 DEF XOK
<1>3. y.sm = [m EXCEPT !.ptk = "DISCONNECTED", !.requests = @ \ {"Deauthentication"}]
  BY <1>1 DEF XOK, XShape, SmOK, SmShape, DISCONNECTED
<1>4. XShape(y) /\ y.done = x.done
  BY DEF XOK, XShape, DISCONNECTED
<1>5. /\ SmOK(y.sm) /\ Same(m, y.sm)
      /\ y.sm.ptk = "DISCONNECTED" /\ y.sm.requests = m.requests \ {"Deauthentication"}
  <2>1. SmShape(y.sm)  BY <1>2, <1>3 DEF SmOK, SmShape
  <2>2. /\ Same(m, y.sm) /\ y.sm.ptk = "DISCONNECTED"
        /\ y.sm.requests = m.requests \ {"Deauthentication"}
    BY <1>2, <1>3 DEF SmOK, SmShape, Same
  <2> QED BY <1>2, <2>1, <2>2 DEF SmOK, Same
<1> QED BY <1>1, <1>4, <1>5, SameKept

(* AUTHENTICATION forgets the pairwise key.                                *)
LEMMA AuthenticationKept ==
  ASSUME NEW x, XOK(x), NEW y, y = AUTHENTICATION(x)
  PROVE  Kept(x, y)
<1>1. PICK m : m = x.sm  OBVIOUS
<1>2. SmOK(m)  BY <1>1 DEF XOK
<1>3. y.sm = [m EXCEPT !.ptk = "AUTHENTICATION", !.PTK = NoKey, !.PTK_valid = FALSE,
                         !.requests = @ \ {"Authentication"}]
  BY <1>1 DEF XOK, XShape, SmOK, SmShape, AUTHENTICATION
<1>4. XShape(y) /\ y.done = x.done
  BY DEF XOK, XShape, SmOK, SmShape, AUTHENTICATION
<1>5. SmOK(y.sm) /\ Same(m, y.sm)
  <2>1. SmShape(y.sm)  BY <1>2, <1>3 DEF SmOK, SmShape
  <2>2. Same(m, y.sm) /\ y.sm.requests = m.requests \ {"Authentication"}
    BY <1>2, <1>3 DEF SmOK, SmShape, Same
  <2> QED BY <1>2, <2>1, <2>2 DEF SmOK, Same
<1> QED BY <1>1, <1>4, <1>5, SameKept

(* AUTHENTICATION2 takes a new nonce.                                      *)
LEMMA Authentication2Kept ==
  ASSUME NEW x, XOK(x), NEW y, y = AUTHENTICATION2(x)
  PROVE  Kept(x, y)
<1>1. PICK m : m = x.sm  OBVIOUS
<1>2. SmOK(m)  BY <1>1 DEF XOK
<1>3. y.sm = [m EXCEPT !.ptk = "AUTHENTICATION2", !.ANonce = x.rand,
                         !.TimeoutCtr = 0, !.requests = @ \ {"ReAuthentication"}]
  BY <1>1 DEF XOK, XShape, SmOK, SmShape, AUTHENTICATION2
<1>4. XShape(y) /\ y.done = x.done
  BY DEF XOK, XShape, SmOK, SmShape, AUTHENTICATION2
<1>5. SmOK(y.sm) /\ Same(m, y.sm)
  <2>1. SmShape(y.sm)  BY <1>2, <1>3 DEF SmOK, SmShape
  <2>2. Same(m, y.sm) /\ y.sm.requests = m.requests \ {"ReAuthentication"}
    BY <1>2, <1>3 DEF SmOK, SmShape, Same
  <2> QED BY <1>2, <2>1, <2>2 DEF SmOK, Same
<1> QED BY <1>1, <1>4, <1>5, SameKept

(* INITPSK.                                                                *)
LEMMA InitpskKept ==
  ASSUME NEW x, XOK(x), NEW y, y = INITPSK(x)
  PROVE  Kept(x, y)
<1>1. PICK m : m = x.sm  OBVIOUS
<1>2. SmOK(m)  BY <1>1 DEF XOK
<1>3. y.sm = [m EXCEPT !.ptk = "INITPSK", !.req_counter = 0]
  BY <1>1 DEF XOK, XShape, SmOK, SmShape, INITPSK
<1>4. XShape(y) /\ y.done = x.done
  BY DEF XOK, XShape, SmOK, SmShape, INITPSK
<1>5. SmOK(y.sm) /\ Same(m, y.sm)
  <2>1. SmShape(y.sm)  BY <1>2, <1>3 DEF SmOK, SmShape
  <2>2. Same(m, y.sm) /\ y.sm.requests = m.requests
    BY <1>2, <1>3 DEF SmOK, SmShape, Same
  <2> QED BY <1>2, <2>1, <2>2 DEF SmOK, Same
<1> QED BY <1>1, <1>4, <1>5, SameKept

(* PTKSTART sends message 1/4 while tries are left.                        *)
LEMMA PtkstartKept ==
  ASSUME NEW x, XOK(x), NEW y, y = PTKSTART(x)
  PROVE  Kept(x, y)
<1>1. PICK m : m = x.sm  OBVIOUS
<1>2. SmOK(m)  BY <1>1 DEF XOK
<1>3. PICK z : z = [x EXCEPT !.sm = [x.sm EXCEPT
              !.ptk = "PTKSTART", !.requests = @ \ {"PTK"}, !.TimeoutEvt = FALSE,
              !.alt_SNonce = NoNonce, !.TimeoutCtr = @ + 1]]
  OBVIOUS
<1>4. z.sm = [m EXCEPT !.ptk = "PTKSTART", !.requests = @ \ {"PTK"}, !.TimeoutEvt = FALSE,
                       !.alt_SNonce = NoNonce, !.TimeoutCtr = @ + 1]
  BY <1>1, <1>3 DEF XOK, XShape, SmOK, SmShape
<1>5. XShape(z) /\ z.done = x.done
  BY <1>3 DEF XOK, XShape, SmOK, SmShape
<1>6. SmOK(z.sm) /\ Same(m, z.sm)
  <2>1. SmShape(z.sm)  BY <1>2, <1>4 DEF SmOK, SmShape
  <2>2. Same(m, z.sm) /\ z.sm.requests = m.requests \ {"PTK"}
    BY <1>2, <1>4 DEF SmOK, SmShape, Same
  <2> QED BY <1>2, <2>1, <2>2 DEF SmOK, Same
<1>7. Kept(x, z) /\ XOK(z)  BY <1>1, <1>5, <1>6, SameKept DEF Kept
<1>8. y = z \/ y = Send(z, "1/4", {})  BY <1>3 DEF PTKSTART
<1> QED BY <1>7, <1>8, SendKept, KeptTransitive

(* A key that explains the MIC is taken, another is not.                   *)
LEMMA PtkcalcnegotiatingKept ==
  ASSUME NEW x, XOK(x), NEW y, y = PTKCALCNEGOTIATING(x)
  PROVE  Kept(x, y)
<1>1. PICK m : m = x.sm  OBVIOUS
<1>2. SmOK(m)  BY <1>1 DEF XOK
<1>3. PICK n : n = [m EXCEPT !.ptk = "PTKCALCNEGOTIATING", !.rx = "none",
                             !.update_snonce = FALSE]
  OBVIOUS
<1>4. SmOK(n) /\ Same(m, n)
  <2>1. SmShape(n)  BY <1>2, <1>3 DEF SmOK, SmShape
  <2>2. Same(m, n) /\ n.requests = m.requests
    BY <1>2, <1>3 DEF SmOK, SmShape, Same
  <2> QED BY <1>2, <2>1, <2>2 DEF SmOK, Same
<1>5. PICK key : key = Ptk(PSK, m.ANonce, m.SNonce)  OBVIOUS
<1>6. y.sm = IF m.last_mic # key THEN n
             ELSE [n EXCEPT !.timers = 0, !.MICVerified = TRUE,
                            !.PTK = key, !.PTK_valid = TRUE]
  BY <1>1, <1>3, <1>5 DEF XOK, XShape, SmOK, SmShape, PTKCALCNEGOTIATING
<1>7. XShape(y) /\ y.done = x.done
  BY DEF XOK, XShape, PTKCALCNEGOTIATING
<1>8. SmOK(y.sm) /\ Same(n, y.sm)
  <2>1. CASE m.last_mic # key  BY <1>4, <1>6, <2>1 DEF Same
  <2>2. CASE m.last_mic = key
    <3>1. y.sm = [n EXCEPT !.timers = 0, !.MICVerified = TRUE, !.PTK = key, !.PTK_valid = TRUE]
      BY <1>6, <2>2
    <3>2. SmShape(y.sm)  BY <1>4, <3>1 DEF SmOK, SmShape
    <3>3. Same(n, y.sm) /\ y.sm.requests = n.requests
      BY <1>4, <3>1 DEF SmOK, SmShape, Same
    <3> QED BY <1>4, <3>2, <3>3 DEF SmOK, Same
  <2> QED BY <2>1, <2>2
<1> QED BY <1>1, <1>4, <1>7, <1>8, SameKept DEF Same

(* PTKCALCNEGOTIATING2.                                                    *)
LEMMA Ptkcalcnegotiating2Kept ==
  ASSUME NEW x, XOK(x), NEW y, y = PTKCALCNEGOTIATING2(x)
  PROVE  Kept(x, y)
<1>1. PICK m : m = x.sm  OBVIOUS
<1>2. SmOK(m)  BY <1>1 DEF XOK
<1>3. y.sm = [m EXCEPT !.ptk = "PTKCALCNEGOTIATING2", !.TimeoutCtr = 0]
  BY <1>1 DEF XOK, XShape, SmOK, SmShape, PTKCALCNEGOTIATING2
<1>4. XShape(y) /\ y.done = x.done
  BY DEF XOK, XShape, SmOK, SmShape, PTKCALCNEGOTIATING2
<1>5. SmOK(y.sm) /\ Same(m, y.sm)
  <2>1. SmShape(y.sm)  BY <1>2, <1>3 DEF SmOK, SmShape
  <2>2. Same(m, y.sm) /\ y.sm.requests = m.requests
    BY <1>2, <1>3 DEF SmOK, SmShape, Same
  <2> QED BY <1>2, <2>1, <2>2 DEF SmOK, Same
<1> QED BY <1>1, <1>4, <1>5, SameKept

(* PTKINITNEGOTIATING sends message 3/4 while tries are left.              *)
LEMMA PtkinitnegotiatingKept ==
  ASSUME NEW x, XOK(x), NEW gtk, NEW y, y = PTKINITNEGOTIATING(x, gtk)
  PROVE  Kept(x, y)
<1>1. PICK m : m = x.sm  OBVIOUS
<1>2. SmOK(m)  BY <1>1 DEF XOK
<1>3. PICK z : z = [x EXCEPT !.sm = [x.sm EXCEPT
              !.ptk = "PTKINITNEGOTIATING", !.TimeoutEvt = FALSE, !.TimeoutCtr = @ + 1]]
  OBVIOUS
<1>4. z.sm = [m EXCEPT !.ptk = "PTKINITNEGOTIATING", !.TimeoutEvt = FALSE,
                       !.TimeoutCtr = @ + 1]
  BY <1>1, <1>3 DEF XOK, XShape, SmOK, SmShape
<1>5. XShape(z) /\ z.done = x.done
  BY <1>3 DEF XOK, XShape, SmOK, SmShape
<1>6. SmOK(z.sm) /\ Same(m, z.sm)
  <2>1. SmShape(z.sm)  BY <1>2, <1>4 DEF SmOK, SmShape
  <2>2. Same(m, z.sm) /\ z.sm.requests = m.requests
    BY <1>2, <1>4 DEF SmOK, SmShape, Same
  <2> QED BY <1>2, <2>1, <2>2 DEF SmOK, Same
<1>7. Kept(x, z) /\ XOK(z)  BY <1>1, <1>5, <1>6, SameKept DEF Kept
<1>8. y = z \/ y = Send(z, "3/4", {gtk})  BY <1>3 DEF PTKINITNEGOTIATING
<1> QED BY <1>7, <1>8, SendKept, KeptTransitive

(* PTKINITDONE sets the key, or disconnects if the driver refuses it.      *)
LEMMA PtkinitdoneKept ==
  ASSUME NEW x, XOK(x), NEW ok, NEW y, y = PTKINITDONE(x, ok)
  PROVE  Kept(x, y)
<1>1. PICK m : m = x.sm  OBVIOUS
<1>2. SmOK(m)  BY <1>1 DEF XOK
<1>3. PICK z : z = [x EXCEPT !.sm.ptk = "PTKINITDONE", !.sm.rx = "none"]  OBVIOUS
<1>4. z.sm = [m EXCEPT !.ptk = "PTKINITDONE", !.rx = "none"]
  BY <1>1, <1>3 DEF XOK, XShape, SmOK, SmShape
<1>5. XShape(z) /\ z.done = x.done
  BY <1>3 DEF XOK, XShape, SmOK, SmShape
<1>6. SmOK(z.sm) /\ Same(m, z.sm)
  <2>1. SmShape(z.sm)  BY <1>2, <1>4 DEF SmOK, SmShape
  <2>2. Same(m, z.sm) /\ z.sm.requests = m.requests
    BY <1>2, <1>4 DEF SmOK, SmShape, Same
  <2> QED BY <1>2, <2>1, <2>2 DEF SmOK, Same
<1>7. Kept(x, z) /\ XOK(z)  BY <1>1, <1>5, <1>6, SameKept DEF Kept
<1>8. CASE ~ok
  <2>1. y = wpa_sta_disconnect(z)  BY <1>3, <1>8 DEF PTKINITDONE
  <2> QED BY <2>1, <1>7, StaDisconnectKept, KeptTransitive
<1>9. CASE ok
  <2>1. PICK n : n = z.sm  OBVIOUS
  <2>2. y = [z EXCEPT !.sm = [z.sm EXCEPT !.key = z.sm.PTK, !.rekey = TRUE, !.has_GTK = TRUE]]
    BY <1>3, <1>9 DEF PTKINITDONE
  <2>3. y.sm = [n EXCEPT !.key = n.PTK, !.rekey = TRUE, !.has_GTK = TRUE]
    BY <2>1, <2>2, <1>7 DEF XOK, XShape
  <2>4. XShape(y) /\ y.done = z.done
    BY <2>2, <1>7 DEF XOK, XShape, SmOK, SmShape
  <2>5. SmOK(y.sm) /\ Same(n, y.sm)
    <3>1. SmShape(y.sm)  BY <1>6, <2>1, <2>3 DEF SmOK, SmShape
    <3>2. Same(n, y.sm) /\ y.sm.requests = n.requests
      BY <1>6, <2>1, <2>3 DEF SmOK, SmShape, Same
    <3> QED BY <1>6, <2>1, <3>1, <3>2 DEF SmOK, Same
  <2> QED BY <1>7, <2>1, <2>4, <2>5, SameKept, KeptTransitive
<1> QED BY <1>8, <1>9

(* A step of WPA_PTK counts the station as before or no more, and takes a  *)
(* station that is being freed a step further.                             *)
LEMMA PtkRoundKept ==
  ASSUME NEW x, XOK(x), NEW gtk, NEW ok, NEW y, y = PtkRound(x, gtk, ok)
  PROVE  Kept(x, y) /\ (Leaving(x.sm) => Leaving(y.sm))
<1>1. PICK t : t = PtkTarget(x.sm)  OBVIOUS
<1>2. y = EnterPtk(x, t, gtk, ok)  BY <1>1 DEF PtkRound
<1>3. Kept(x, y)
  BY <1>2, KeptReflexive, InitializeKept, DisconnectKept, DisconnectedKept,
     AuthenticationKept, Authentication2Kept, InitpskKept, PtkstartKept,
     PtkcalcnegotiatingKept, Ptkcalcnegotiating2Kept, PtkinitnegotiatingKept,
     PtkinitdoneKept DEF EnterPtk
<1>4. CASE x.sm.GUpdateStationKeys = FALSE
  BY <1>3, <1>4 DEF Kept, Leaving
<1>5. CASE x.sm.requests = {"Deauthentication"}
  <2>1. t = "DISCONNECTED"  BY <1>1, <1>5 DEF PtkTarget
  <2>2. y = DISCONNECTED(x)  BY <1>2, <2>1 DEF EnterPtk
  <2> QED BY <1>3, <1>5, <2>2, DisconnectedKept DEF Leaving
<1>6. CASE x.sm.requests = {} /\ x.sm.ptk = "DISCONNECTED"
  <2>1. t = "INITIALIZE"  BY <1>1, <1>6 DEF PtkTarget
  <2>2. y = INITIALIZE(x)  BY <1>2, <2>1 DEF EnterPtk
  <2> QED BY <1>3, <2>2, InitializeKept DEF Leaving
<1> QED BY <1>3, <1>4, <1>5, <1>6 DEF Leaving

-----------------------------------------------------------------------------
(* The entry functions of WPA_PTK_GROUP.                                   *)
LEMMA GroupIdleKept ==
  ASSUME NEW x, XOK(x), NEW y, y = GROUP_IDLE(x)
  PROVE  Kept(x, y) /\ SamePtk(x.sm, y.sm)
<1>1. PICK m : m = x.sm  OBVIOUS
<1>2. SmOK(m)  BY <1>1 DEF XOK
<1>3. y.sm = [m EXCEPT !.grp = "IDLE", !.GTimeoutCtr = 0, !.PtkGroupInit = FALSE]
  BY <1>1 DEF XOK, XShape, SmOK, SmShape, GROUP_IDLE
<1>4. XShape(y) /\ y.done = x.done
  BY DEF XOK, XShape, SmOK, SmShape, GROUP_IDLE
<1>5. SmOK(y.sm) /\ Same(m, y.sm) /\ SamePtk(m, y.sm)
  <2>1. SmShape(y.sm)  BY <1>2, <1>3 DEF SmOK, SmShape
  <2>2. Same(m, y.sm) /\ y.sm.requests = m.requests /\ SamePtk(m, y.sm)
    BY <1>2, <1>3 DEF SmOK, SmShape, Same, SamePtk
  <2> QED BY <1>2, <2>1, <2>2 DEF SmOK, Same
<1> QED BY <1>1, <1>4, <1>5, SameKept

(* REKEYNEGOTIATING sends message 1/2 while tries are left.                *)
LEMMA RekeynegotiatingKept ==
  ASSUME NEW x, XOK(x), NEW gtk, NEW y, y = REKEYNEGOTIATING(x, gtk)
  PROVE  Kept(x, y) /\ SamePtk(x.sm, y.sm)
<1>1. PICK m : m = x.sm  OBVIOUS
<1>2. SmOK(m)  BY <1>1 DEF XOK
<1>3. PICK z : z = [x EXCEPT !.sm.grp = "REKEYNEGOTIATING", !.sm.GTimeoutCtr = @ + 1]
  OBVIOUS
<1>4. z.sm = [m EXCEPT !.grp = "REKEYNEGOTIATING", !.GTimeoutCtr = @ + 1]
  BY <1>1, <1>3 DEF XOK, XShape, SmOK, SmShape
<1>5. XShape(z) /\ z.done = x.done
  BY <1>3 DEF XOK, XShape, SmOK, SmShape
<1>6. SmOK(z.sm) /\ Same(m, z.sm) /\ SamePtk(m, z.sm)
  <2>1. SmShape(z.sm)  BY <1>2, <1>4 DEF SmOK, SmShape
  <2>2. Same(m, z.sm) /\ z.sm.requests = m.requests /\ SamePtk(m, z.sm)
    BY <1>2, <1>4 DEF SmOK, SmShape, Same, SamePtk
  <2> QED BY <1>2, <2>1, <2>2 DEF SmOK, Same
<1>7. Kept(x, z) /\ XOK(z)  BY <1>1, <1>5, <1>6, SameKept DEF Kept
<1>8. PICK u : u = [z EXCEPT !.sm.TimeoutEvt = FALSE]  OBVIOUS
<1>9. PICK n : n = z.sm  OBVIOUS
<1>10. u.sm = [n EXCEPT !.TimeoutEvt = FALSE]
  BY <1>7, <1>8, <1>9 DEF XOK, XShape, SmOK, SmShape
<1>11. XShape(u) /\ u.done = z.done
  BY <1>7, <1>8 DEF XOK, XShape, SmOK, SmShape
<1>12. SmOK(u.sm) /\ Same(n, u.sm) /\ SamePtk(n, u.sm)
  <2>1. SmShape(u.sm)  BY <1>6, <1>9, <1>10 DEF SmOK, SmShape
  <2>2. Same(n, u.sm) /\ u.sm.requests = n.requests /\ SamePtk(n, u.sm)
    BY <1>6, <1>9, <1>10 DEF SmOK, SmShape, Same, SamePtk
  <2> QED BY <1>6, <1>9, <2>1, <2>2 DEF SmOK, Same
<1>13. Kept(z, u) /\ XOK(u)  BY <1>7, <1>9, <1>11, <1>12, SameKept DEF Kept
<1>14. y = z \/ y = Send(u, "1/2", {gtk})  BY <1>3, <1>8 DEF REKEYNEGOTIATING
<1>15. CASE y = z  BY <1>1, <1>6, <1>7, <1>15
<1>16. CASE y = Send(u, "1/2", {gtk})
  <2>1. Kept(u, y) /\ SamePtk(u.sm, y.sm)  BY <1>13, <1>16, SendKept
  <2>2. Kept(x, y)  BY <2>1, <1>7, <1>13, KeptTransitive
  <2> QED BY <2>1, <2>2, <1>1, <1>6, <1>9, <1>12 DEF SamePtk
<1> QED BY <1>14, <1>15, <1>16

(* REKEYESTABLISHED: the station has answered and is discounted.           *)
LEMMA RekeyestablishedKept ==
  ASSUME NEW x, XOK(x), NEW y, y = REKEYESTABLISHED(x)
  PROVE  Kept(x, y) /\ y.sm.GUpdateStationKeys = FALSE
<1>1. PICK z : z = Discount(x)  OBVIOUS
<1>2. Kept(x, z) /\ XOK(z) /\ z.sm.GUpdateStationKeys = FALSE
  BY <1>1, DiscountKept DEF Kept
<1>3. PICK m : m = z.sm  OBVIOUS
<1>4. SmOK(m)  BY <1>2, <1>3 DEF XOK
<1>5. y = [z EXCEPT !.sm = [z.sm EXCEPT !.grp = "REKEYESTABLISHED", !.rx = "none",
                                        !.GTimeoutCtr = 0, !.has_GTK = TRUE]]
  BY <1>1 DEF REKEYESTABLISHED
<1>6. y.sm = [m EXCEPT !.grp = "REKEYESTABLISHED", !.rx = "none",
                       !.GTimeoutCtr = 0, !.has_GTK = TRUE]
  BY <1>2, <1>3, <1>5 DEF XOK, XShape
<1>7. XShape(y) /\ y.done = z.done
  BY <1>2, <1>5 DEF XOK, XShape, SmOK, SmShape
<1>8. SmOK(y.sm) /\ Same(m, y.sm)
  <2>1. SmShape(y.sm)  BY <1>4, <1>6 DEF SmOK, SmShape
  <2>2. Same(m, y.sm) /\ y.sm.requests = m.requests
    BY <1>4, <1>6 DEF SmOK, SmShape, Same
  <2> QED BY <1>4, <2>1, <2>2 DEF SmOK, Same
<1>9. Kept(z, y) /\ y.sm.GUpdateStationKeys = FALSE
  BY <1>2, <1>3, <1>7, <1>8, SameKept DEF Same
<1> QED BY <1>2, <1>9, KeptTransitive

(* KEYERROR: the station has not answered; it is discounted and            *)
(* disconnected.                                                           *)
LEMMA KeyerrorKept ==
  ASSUME NEW x, XOK(x), NEW y, y = KEYERROR(x)
  PROVE  Kept(x, y) /\ y.sm.GUpdateStationKeys = FALSE
<1>1. PICK z : z = Discount(x)  OBVIOUS
<1>2. Kept(x, z) /\ XOK(z) /\ z.sm.GUpdateStationKeys = FALSE
  BY <1>1, DiscountKept DEF Kept
<1>3. PICK m : m = z.sm  OBVIOUS
<1>4. SmOK(m)  BY <1>2, <1>3 DEF XOK
<1>5. y = [z EXCEPT !.sm.grp = "KEYERROR", !.sm.requests = @ \cup {"Disconnect"}]
  BY <1>1 DEF KEYERROR
<1>6. y.sm = [m EXCEPT !.grp = "KEYERROR", !.requests = @ \cup {"Disconnect"}]
  BY <1>2, <1>3, <1>5 DEF XOK, XShape, SmOK, SmShape
<1>7. XShape(y) /\ y.done = z.done
  BY <1>2, <1>5 DEF XOK, XShape, SmOK, SmShape
<1>8. SmOK(y.sm) /\ Same(m, y.sm)
  <2>1. SmShape(y.sm)  BY <1>4, <1>6 DEF SmOK, SmShape
  <2>2. Same(m, y.sm) /\ y.sm.requests = m.requests \cup {"Disconnect"}
    BY <1>4, <1>6 DEF SmOK, SmShape, Same
  <2> QED BY <1>4, <2>1, <2>2 DEF SmOK, Same, Reqs
<1>9. Kept(z, y) /\ y.sm.GUpdateStationKeys = FALSE
  BY <1>2, <1>3, <1>7, <1>8, SameKept DEF Same
<1> QED BY <1>2, <1>9, KeptTransitive

(* A step of WPA_PTK_GROUP, in the same way.                               *)
LEMMA GroupRoundKept ==
  ASSUME NEW x, XOK(x), NEW gtk, NEW y, y = GroupRound(x, gtk)
  PROVE  Kept(x, y) /\ (Leaving(x.sm) => Leaving(y.sm))
<1>1. PICK t : t = GroupTarget(x.sm)  OBVIOUS
<1>2. y = EnterGroup(x, t, gtk)  BY <1>1 DEF GroupRound
<1>3. CASE y = GROUP_IDLE(x)  BY <1>3, GroupIdleKept DEF Leaving, SamePtk, Kept
<1>4. CASE y = REKEYNEGOTIATING(x, gtk)
  <2>1. Kept(x, y) /\ SamePtk(x.sm, y.sm)  BY <1>4, RekeynegotiatingKept
  <2> QED BY <2>1 DEF Leaving, SamePtk, Kept
<1>5. CASE y = REKEYESTABLISHED(x)  BY <1>5, RekeyestablishedKept DEF Leaving
<1>6. CASE y = KEYERROR(x)  BY <1>6, KeyerrorKept DEF Leaving
<1>7. CASE y = x  BY <1>7, KeptReflexive
<1> QED BY <1>2, <1>3, <1>4, <1>5, <1>6, <1>7 DEF EnterGroup

-----------------------------------------------------------------------------
(* What the other actions do to the record of a station.                   *)
LEMMA NoStationOK ==
  SmOK(NoStation) /\ NoStation.GUpdateStationKeys = FALSE /\ NoStation.requests = {}
BY DEF NoStation, SmOK, SmShape

(* A frame is accepted.                                                    *)
LEMMA ReceiveSame ==
  ASSUME NEW m, SmOK(m), NEW f, NEW n, n = wpa_receive(m, f)
  PROVE  SmOK(n) /\ Same(m, n)
<1>1. /\ SmShape(n) /\ Same(m, n)
      /\ n.requests = IF f.msg = "request" THEN m.requests \cup {"PTK"} ELSE m.requests
  BY DEF SmOK, SmShape, Same, wpa_receive
<1> QED BY <1>1 DEF SmOK, Same, Reqs

(* A timeout is noted.                                                     *)
LEMMA TimeoutSame ==
  ASSUME NEW m, SmOK(m), NEW n, n = wpa_send_eapol_timeout(m)
  PROVE  SmOK(n) /\ Same(m, n)
BY DEF SmOK, SmShape, Same, wpa_send_eapol_timeout

(* A new pairwise key is asked for.                                        *)
LEMMA NewPtkSame ==
  ASSUME NEW m, SmOK(m), NEW n, n = wpa_request_new_ptk(m)
  PROVE  SmOK(n) /\ Same(m, n)
<1>1. SmShape(n) /\ Same(m, n) /\ n.requests = m.requests \cup {"PTK"}
  BY DEF SmOK, SmShape, Same, wpa_request_new_ptk
<1> QED BY <1>1 DEF SmOK, Same, Reqs

(* handle_deauth: the station is about to be freed.                        *)
LEMMA DeauthSame ==
  ASSUME NEW m, SmOK(m), NEW n, n = [EventDeauth(m) EXCEPT !.assoc = FALSE]
  PROVE  SmOK(n) /\ Same(m, n) /\ n.requests = m.requests \cup {"Deauthentication"}
<1>1. PICK u : u = wpa_remove_ptk(m)  OBVIOUS
<1>2. SmOK(u) /\ Same(m, u) /\ SamePtk(m, u)  BY <1>1, RemovePtkSame
<1>3. n = [[u EXCEPT !.requests = @ \cup {"Deauthentication"}] EXCEPT !.assoc = FALSE]
  BY <1>1 DEF EventDeauth
<1>4. SmShape(n) /\ Same(u, n) /\ n.requests = u.requests \cup {"Deauthentication"}
  BY <1>2, <1>3 DEF SmOK, SmShape, Same
<1> QED BY <1>2, <1>4 DEF SmOK, Same, SamePtk, Reqs

(* The station associates.                                                 *)
LEMMA AssociatedSame ==
  ASSUME NEW m, SmOK(m), NEW n, n = [wpa_auth_sta_associated(m) EXCEPT !.assoc = TRUE]
  PROVE  /\ SmOK(n) /\ n.GUpdateStationKeys = m.GUpdateStationKeys
         /\ m.started => n.started
<1>1. /\ SmShape(n) /\ n.GUpdateStationKeys = m.GUpdateStationKeys
      /\ m.started => n.started
      /\ \/ n.requests = m.requests \cup {"ReAuthentication"}
         \/ n.requests = m.requests \cup {"Authentication"}
  BY DEF SmOK, SmShape, wpa_auth_sta_associated
<1> QED BY <1>1 DEF SmOK, Reqs

(* Reauthentication cancels the pending update of the group key.           *)
LEMMA ReauthKept ==
  ASSUME NEW x, XOK(x), NEW y, y = EventReauth(x)
  PROVE  Kept(x, y)
<1>1. PICK z : z = IF x.sm.GUpdateStationKeys
                   THEN [Discount(x) EXCEPT !.sm.PtkGroupInit = TRUE] ELSE x
  OBVIOUS
<1>2. Kept(x, z)
  <2>1. CASE x.sm.GUpdateStationKeys
    <3>1. PICK u : u = Discount(x)  OBVIOUS
    <3>2. Kept(x, u) /\ XOK(u)  BY <3>1, DiscountKept DEF Kept
    <3>3. PICK m : m = u.sm  OBVIOUS
    <3>4. z = [u EXCEPT !.sm.PtkGroupInit = TRUE]  BY <1>1, <2>1, <3>1
    <3>5. z.sm = [m EXCEPT !.PtkGroupInit = TRUE]
      BY <3>2, <3>3, <3>4 DEF XOK, XShape, SmOK, SmShape
    <3>6. XShape(z) /\ z.done = u.done
      BY <3>2, <3>4 DEF XOK, XShape, SmOK, SmShape
    <3>7. SmOK(z.sm) /\ Same(m, z.sm)
      <4>1. SmOK(m)  BY <3>2, <3>3 DEF XOK
      <4>2. SmShape(z.sm)  BY <3>5, <4>1 DEF SmOK, SmShape
      <4>3. Same(m, z.sm) /\ z.sm.requests = m.requests
        BY <3>5, <4>1 DEF SmOK, SmShape, Same
      <4> QED BY <4>1, <4>2, <4>3 DEF SmOK, Same
    <3> QED BY <3>2, <3>3, <3>6, <3>7, SameKept, KeptTransitive
  <2>2. CASE ~x.sm.GUpdateStationKeys  BY <1>1, <2>2, KeptReflexive
  <2> QED BY <2>1, <2>2
<1>3. XOK(z)  BY <1>2 DEF Kept
<1>4. PICK m : m = wpa_remove_ptk(z.sm)  OBVIOUS
<1>5. SmOK(m) /\ Same(z.sm, m)  BY <1>3, <1>4, RemovePtkSame DEF XOK
<1>6. y.sm = [m EXCEPT !.requests = @ \cup {"ReAuthentication"}]
  BY <1>1, <1>3, <1>4 DEF XOK, XShape, EventReauth
<1>7. XShape(y) /\ y.done = z.done
  BY <1>1, <1>3 DEF XOK, XShape, EventReauth
<1>8. SmOK(y.sm) /\ Same(m, y.sm)
  <2>1. SmShape(y.sm) /\ Same(m, y.sm) /\ y.sm.requests = m.requests \cup {"ReAuthentication"}
    BY <1>5, <1>6 DEF SmOK, SmShape, Same
  <2> QED BY <1>5, <2>1 DEF SmOK, Same, Reqs
<1> QED BY <1>2, <1>3, <1>5, <1>7, <1>8, SameKept, KeptTransitive DEF Same

-----------------------------------------------------------------------------
(* The inductive invariant.                                                *)
StationsOK ==
  /\ sm = [s \in Stations |-> sm[s]]
  /\ \A s \in Stations : SmOK(sm[s])
  /\ \A s \in Stations : sm[s].GUpdateStationKeys = TRUE => sm[s].started

GroupShape ==
  /\ group = [state |-> group.state, GTKReKey |-> group.GTKReKey,
              done |-> group.done, gn |-> group.gn]
  /\ group.done \in Int

RunOK ==
  /\ run = [st |-> run.st, free |-> run.free, todo |-> run.todo, rekey |-> run.rekey,
            next |-> run.next]
  /\ run.st \in Stations \cup {NoOne}
  /\ run.next \in Stations \cup {NoOne}
  /\ ~run.rekey => run.next = NoOne
  /\ run.todo \subseteq Stations
  /\ run.st \notin run.todo
  /\ \A s \in run.todo : sm[s].started

(* No request is left when the loop of a station has ended, and only a     *)
(* station in its loop is being freed.                                     *)
RequestsOK ==
  /\ \A s \in Stations : s # run.st => sm[s].requests = {}
  /\ run.st = NoOne => run.free = FALSE
  /\ run.free \in BOOLEAN
  /\ run.free = TRUE => Leaving(sm[run.st])

Inv == StationsOK /\ GroupShape /\ RunOK /\ RequestsOK /\ GroupCount

(* The set of stations awaited is finite.                                  *)
LEMMA AwaitedFinite == IsFiniteSet(Awaited)
<1>1. IsFiniteSet(Stations)  BY HandshakeAssumption
<1>2. Awaited \subseteq Stations  BY DEF Awaited
<1> QED BY <1>1, <1>2, FS_Subset

(* At first there are no stations.                                         *)
LEMMA InitInv == Init => Inv
<1> SUFFICES ASSUME Init PROVE Inv  OBVIOUS
<1>1. \A s \in Stations : sm[s] = NoStation  BY DEF Init
<1>2. StationsOK  BY <1>1, NoStationOK DEF Init, StationsOK
<1>3. GroupShape /\ group.done = 0  BY DEF Init, GroupShape
<1>4. RunOK /\ run.st = NoOne /\ run.free = FALSE
  BY HandshakeAssumption DEF Init, RunOK
<1>5. RequestsOK  BY <1>1, <1>4, NoStationOK DEF RequestsOK
<1>6. Awaited = {}  BY <1>1, NoStationOK DEF Awaited
<1>7. GroupCount  BY <1>3, <1>6, FS_EmptySet DEF GroupCount
<1> QED BY <1>2, <1>3, <1>4, <1>5, <1>7 DEF Inv

(* A step that changes the record of one station, not one a rekeying has   *)
(* yet to visit, and the count with its flag.                              *)
LEMMA OneStation ==
  ASSUME Inv, NEW s \in Stations, s \notin run.todo, NEW m, SmOK(m),
         m.GUpdateStationKeys = TRUE => m.started,
         sm' = [sm EXCEPT ![s] = m],
         GroupShape',
         run'.todo = run.todo,
         \/ group'.done = group.done /\ m.GUpdateStationKeys = sm[s].GUpdateStationKeys
         \/ /\ sm[s].GUpdateStationKeys = TRUE
            /\ m.GUpdateStationKeys = FALSE
            /\ group'.done = group.done - 1
  PROVE  /\ StationsOK' /\ GroupCount'
         /\ sm'[s] = m
         /\ \A t \in Stations \ {s} : sm'[t] = sm[t]
<1>1. sm'[s] = m /\ \A t \in Stations \ {s} : sm'[t] = sm[t]
  BY DEF Inv, StationsOK
<1>2. StationsOK'
  BY <1>1 DEF Inv, StationsOK
<1>3. GroupCount'
  <2>1. CASE group'.done = group.done /\ m.GUpdateStationKeys = sm[s].GUpdateStationKeys
    <3>1. Awaited' = Awaited  BY <1>1, <2>1 DEF Awaited
    <3> QED BY <2>1, <3>1 DEF Inv, GroupCount
  <2>2. CASE /\ sm[s].GUpdateStationKeys = TRUE
             /\ m.GUpdateStationKeys = FALSE
             /\ group'.done = group.done - 1
    <3>1. s \in Awaited  BY <2>2 DEF Awaited
    <3>2. Awaited' = Awaited \ {s}  BY <1>1, <2>2 DEF Awaited
    <3>3. Cardinality(Awaited \ {s}) = Cardinality(Awaited) - 1
      BY <3>1, AwaitedFinite, FS_RemoveElement
    <3> QED BY <2>2, <3>2, <3>3 DEF Inv, GroupCount
  <2> QED BY <2>1, <2>2
<1> QED BY <1>1, <1>2, <1>3

(* The step loop of a station begins.                                      *)
LEMMA BeginInv ==
  ASSUME Inv, Idle, NEW s \in Stations, NEW m, SmOK(m), Begin(s, m),
         m.GUpdateStationKeys = TRUE => m.started,
         GroupShape',
         \/ group'.done = group.done /\ m.GUpdateStationKeys = sm[s].GUpdateStationKeys
         \/ /\ sm[s].GUpdateStationKeys = TRUE
            /\ m.GUpdateStationKeys = FALSE
            /\ group'.done = group.done - 1
  PROVE  Inv'
<1>1. run.todo = {} /\ run.st = NoOne /\ run.free = FALSE
  BY DEF Idle, Inv, RequestsOK
<1>2. /\ run' = [st |-> s, free |-> run.free, todo |-> run.todo, rekey |-> run.rekey,
                 next |-> run.next]
      /\ sm' = [sm EXCEPT ![s] = m]
  BY DEF Begin, Inv, RunOK
<1>3. run'.st = s /\ run'.free = FALSE /\ run'.todo = {}
  BY <1>1, <1>2
<1>4. /\ StationsOK' /\ GroupCount'
      /\ \A t \in Stations \ {s} : sm'[t] = sm[t]
  BY <1>1, <1>2, <1>3, OneStation
<1>5. RunOK'  BY <1>2, <1>3 DEF Inv, RunOK
<1>6. \A t \in Stations : t # s => sm'[t].requests = {}
  <2> SUFFICES ASSUME NEW t \in Stations, t # s PROVE sm'[t].requests = {}  OBVIOUS
  <2>1. t # run.st  BY <1>1, HandshakeAssumption
  <2> QED BY <2>1, <1>4 DEF Inv, RequestsOK
<1>7. RequestsOK'
  BY <1>3, <1>6, HandshakeAssumption DEF RequestsOK
<1> QED BY <1>4, <1>5, <1>7 DEF Inv

(* wpa_sm_step: the machines move on, and when the loop is over a station  *)
(* that was to be freed is no longer counted.                              *)
LEMMA StepInv ==
  ASSUME Inv, NEW s \in Stations, wpa_sm_step(s)
  PROVE  Inv'
<1>1. run.st = s /\ s \notin run.todo
  BY DEF wpa_sm_step, Inv, RunOK
<1>2. PICK ok, x, y, z :
        /\ x = [sm |-> sm[s], done |-> group.done, out |-> <<>>, rand |-> rand]
        /\ y = PtkRound(x, CurrentGtk, ok)
        /\ z = GroupRound(y, CurrentGtk)
        /\ Round(s, z)
  BY DEF wpa_sm_step
<1>3. XOK(x) /\ x.sm = sm[s] /\ x.done = group.done
  BY <1>2 DEF Inv, StationsOK, GroupShape, XOK, XShape
<1>4. Kept(x, y) /\ XOK(y) /\ (Leaving(x.sm) => Leaving(y.sm))
  <2>1. Kept(x, y) /\ (Leaving(x.sm) => Leaving(y.sm))  BY <1>2, <1>3, PtkRoundKept
  <2> QED BY <2>1 DEF Kept
<1>5. Kept(y, z) /\ (Leaving(y.sm) => Leaving(z.sm))
  BY <1>2, <1>4, GroupRoundKept
<1>6. Kept(x, z) /\ XOK(z)
  <2>1. Kept(x, z)  BY <1>3, <1>4, <1>5, KeptTransitive
  <2> QED BY <2>1 DEF Kept
<1>7. Leaving(sm[s]) => Leaving(z.sm)  BY <1>3, <1>4, <1>5
<1>8. PICK over \in BOOLEAN : over = (PtkTarget(z.sm) = None /\ GroupTarget(z.sm) = None)
  OBVIOUS
<1>9. PICK m : m = IF over /\ run.free THEN NoStation ELSE z.sm  OBVIOUS
<1>10. /\ sm' = [sm EXCEPT ![s] = m]
       /\ run' = IF over THEN [run EXCEPT !.st = NoOne, !.free = FALSE] ELSE run
  BY <1>2, <1>8, <1>9 DEF Round
<1>11. GroupShape' /\ group'.done = z.done
  BY <1>2, <1>6 DEF Round, Inv, GroupShape, XOK
<1>12. over = TRUE => z.sm.requests = {} /\ z.sm.ptk # "DISCONNECTED"
  <2> SUFFICES ASSUME over = TRUE PROVE z.sm.requests = {} /\ z.sm.ptk # "DISCONNECTED"
    OBVIOUS
  <2>1. PtkTarget(z.sm) = None  BY <1>8
  <2>2. PICK n : n = z.sm  OBVIOUS
  <2>3. n.requests \subseteq Reqs  BY <1>6, <2>2 DEF XOK, SmOK
  <2>4. n.requests \cap Reqs = {}  BY <2>1, <2>2 DEF PtkTarget, None, Reqs
  <2>5. n.ptk # "DISCONNECTED"  BY <2>1, <2>2, <2>3, <2>4 DEF PtkTarget, None, Reqs
  <2> QED BY <2>2, <2>3, <2>4, <2>5
<1>13. over = TRUE /\ run.free = TRUE => z.sm.GUpdateStationKeys = FALSE
  <2> SUFFICES ASSUME over = TRUE, run.free = TRUE PROVE z.sm.GUpdateStationKeys = FALSE
    OBVIOUS
  <2>1. Leaving(z.sm)  BY <1>1, <1>7 DEF Inv, RequestsOK
  <2> QED BY <2>1, <1>12 DEF Leaving
<1>14. /\ SmOK(m) /\ (m.GUpdateStationKeys = TRUE => m.started)
       /\ \/ z.done = group.done /\ m.GUpdateStationKeys = sm[s].GUpdateStationKeys
          \/ /\ sm[s].GUpdateStationKeys = TRUE
             /\ m.GUpdateStationKeys = FALSE
             /\ z.done = group.done - 1
  <2>1. CASE over /\ run.free
    <3>1. m = NoStation /\ z.sm.GUpdateStationKeys = FALSE
      BY <2>1, <1>9, <1>13 DEF Inv, RequestsOK
    <3> QED BY <3>1, <1>3, <1>6, NoStationOK DEF Kept
  <2>2. CASE ~(over /\ run.free)
    <3>1. m = z.sm  BY <2>2, <1>9
    <3>2. sm[s].GUpdateStationKeys = TRUE => sm[s].started  BY DEF Inv, StationsOK
    <3> QED BY <3>1, <3>2, <1>3, <1>6 DEF Kept, XOK
  <2> QED BY <2>1, <2>2
<1>15. run'.todo = run.todo /\ run' = [st |-> run'.st, free |-> run'.free,
                                       todo |-> run'.todo, rekey |-> run'.rekey,
                                       next |-> run'.next]
       /\ run'.rekey = run.rekey /\ run'.next = run.next
       /\ IF over THEN run'.st = NoOne /\ run'.free = FALSE
          ELSE run'.st = s /\ run'.free = run.free
  BY <1>1, <1>10 DEF Inv, RunOK
<1>16. /\ StationsOK' /\ GroupCount' /\ sm'[s] = m
       /\ \A t \in Stations \ {s} : sm'[t] = sm[t]
  <2>1. run'.todo = run.todo  BY <1>15
  <2>2. \/ group'.done = group.done /\ m.GUpdateStationKeys = sm[s].GUpdateStationKeys
        \/ /\ sm[s].GUpdateStationKeys = TRUE
           /\ m.GUpdateStationKeys = FALSE
           /\ group'.done = group.done - 1
    BY <1>11, <1>14
  <2>3. SmOK(m) /\ (m.GUpdateStationKeys = TRUE => m.started)  BY <1>14
  <2>4. sm' = [sm EXCEPT ![s] = m]  BY <1>10
  <2> QED BY <1>1, <1>11, <2>1, <2>2, <2>3, <2>4, OneStation
<1>17. RunOK'
  <2>1. \A t \in run.todo : t # s /\ sm'[t] = sm[t] /\ sm[t].started /\ t # NoOne
    BY <1>1, <1>16, HandshakeAssumption DEF Inv, RunOK
  <2> QED BY <1>1, <1>15, <2>1 DEF Inv, RunOK
<1>18. RequestsOK'
  <2>1. \A t \in Stations \ {s} : sm'[t].requests = {}
    BY <1>1, <1>16 DEF Inv, RequestsOK
  <2>2. CASE over
    <3>1. m.requests = {}  BY <2>2, <1>9, <1>12, NoStationOK
    <3> QED BY <2>1, <2>2, <3>1, <1>15, <1>16 DEF RequestsOK
  <2>3. CASE ~over
    <3>1. m = z.sm  BY <2>3, <1>9
    <3>2. run.free \in BOOLEAN /\ (run.free = TRUE => Leaving(m))
      BY <3>1, <1>1, <1>7 DEF Inv, RequestsOK
    <3> QED BY <2>1, <2>3, <3>2, <1>15, <1>16, HandshakeAssumption DEF RequestsOK
  <2> QED BY <2>2, <2>3
<1> QED BY <1>11, <1>16, <1>17, <1>18 DEF Inv

(* Nothing that the invariant is about changes.                            *)
LEMMA UnchangedInv ==
  ASSUME Inv, UNCHANGED <<sm, group, run>>
  PROVE  Inv'
BY DEF Inv, StationsOK, GroupShape, RunOK, RequestsOK, GroupCount, Awaited

(* A rekeying of the group key is asked for.                               *)
LEMMA RekeyGtkInv ==
  ASSUME Inv, wpa_rekey_gtk
  PROVE  Inv'
<1>1. /\ run' = [st |-> run.st, free |-> run.free, todo |-> run.todo, rekey |-> TRUE,
                 next |-> run.next]
      /\ sm' = sm
  BY DEF wpa_rekey_gtk, Inv, RunOK
<1>2. GroupShape' /\ group'.done = group.done
  BY DEF wpa_rekey_gtk, Inv, GroupShape
<1>3. run'.st = run.st /\ run'.free = run.free /\ run'.todo = run.todo  BY <1>1
<1>4. Awaited' = Awaited  BY <1>1, <1>3 DEF Awaited
<1> QED BY <1>1, <1>2, <1>3, <1>4 DEF Inv, StationsOK, RunOK, RequestsOK, GroupCount

(* A rekeying starts to count anew; it visits every station that can have  *)
(* been counted.                                                           *)
LEMMA SetkeysInv ==
  ASSUME Inv, run.st = NoOne, wpa_group_setkeys
  PROVE  Inv'
<1>1. /\ run' = [st |-> run.st, free |-> run.free,
                 todo |-> {s \in Stations : sm[s].started}, rekey |-> run.rekey,
                 next |-> run.next]
      /\ sm' = sm
  BY DEF wpa_group_setkeys, Inv, RunOK
<1>2. GroupShape' /\ group'.done = 0
  BY DEF wpa_group_setkeys, GroupShape
<1>3. run'.st = NoOne /\ run'.free = run.free /\ run'.todo = {s \in Stations : sm[s].started}
  BY <1>1
<1>4. Awaited' = {}
  <2> SUFFICES ASSUME NEW s \in Awaited' PROVE FALSE  OBVIOUS
  <2>1. s \in Stations /\ s \notin run'.todo /\ sm[s].GUpdateStationKeys
    BY <1>1 DEF Awaited
  <2>2. sm[s].GUpdateStationKeys = TRUE  BY <2>1 DEF Inv, StationsOK, SmOK
  <2>3. sm[s].started  BY <2>1, <2>2 DEF Inv, StationsOK
  <2> QED BY <1>3, <2>1, <2>3
<1>5. GroupCount'  BY <1>2, <1>4, FS_EmptySet DEF GroupCount
<1>6. RunOK'  BY <1>1, <1>3, HandshakeAssumption DEF Inv, RunOK
<1> QED BY <1>1, <1>2, <1>3, <1>5, <1>6 DEF Inv, StationsOK, RequestsOK

(* A step of the group machine.                                            *)
LEMMA GroupStepInv ==
  ASSUME Inv, wpa_group_sm_step
  PROVE  Inv'
<1>1. CASE wpa_group_setkeysdone /\ UNCHANGED sm
  <2>1. GroupShape' /\ group'.done = group.done /\ run' = run /\ sm' = sm
    BY <1>1 DEF wpa_group_setkeysdone, Inv, GroupShape
  <2>2. Awaited' = Awaited  BY <2>1 DEF Awaited
  <2> QED BY <2>1, <2>2 DEF Inv, StationsOK, RunOK, RequestsOK, GroupCount
<1>2. CASE wpa_group_setkeys
  BY <1>2, SetkeysInv DEF wpa_group_sm_step
<1>3. CASE /\ run' = [run EXCEPT !.rekey = FALSE, !.st = run.next, !.next = NoOne]
           /\ UNCHANGED <<sm, group>>
  <2>1. run.st = NoOne /\ run.todo = {} /\ run.free = FALSE
    BY DEF wpa_group_sm_step, Inv, RequestsOK
  <2>2. run' = [st |-> run.next, free |-> run.free, todo |-> run.todo, rekey |-> FALSE,
                next |-> NoOne]
    BY <1>3 DEF Inv, RunOK
  <2>3. run'.st = run.next /\ run'.free = run.free /\ run'.todo = run.todo  BY <2>2
  <2>4. Awaited' = Awaited  BY <1>3, <2>3 DEF Awaited
  <2>5. RunOK'  BY <1>3, <2>1, <2>2, <2>3 DEF Inv, RunOK
  <2>6. RequestsOK'
    BY <1>3, <2>1, <2>3, HandshakeAssumption DEF Inv, RequestsOK
  <2> QED BY <1>3, <2>4, <2>5, <2>6 DEF Inv, StationsOK, GroupShape, GroupCount
<1> QED BY <1>1, <1>2, <1>3 DEF wpa_group_sm_step

(* The walk of a rekeying visits one station more.                         *)
LEMMA UpdateStaInv ==
  ASSUME Inv, NEW s \in Stations, wpa_group_update_sta(s)
  PROVE  Inv'
<1>1. run.st = NoOne /\ s \in run.todo /\ s # NoOne /\ run.free = FALSE
  BY HandshakeAssumption DEF wpa_group_update_sta, Inv, RequestsOK
<1>2. PICK f \in BOOLEAN :
        /\ sm' = [sm EXCEPT ![s].GUpdateStationKeys = f]
        /\ run' = [st |-> IF f THEN s ELSE NoOne, free |-> run.free,
                   todo |-> run.todo \ {s}, rekey |-> run.rekey, next |-> run.next]
        /\ IF f THEN group' = [group EXCEPT !.done = @ + 1] ELSE group' = group
  BY <1>1 DEF wpa_group_update_sta, Inv, RunOK
<1>3. PICK m : m = sm[s]  OBVIOUS
<1>4. SmOK(m) /\ m.started /\ m.requests = {}
  BY <1>1, <1>3 DEF Inv, StationsOK, RunOK, RequestsOK
<1>5. PICK n : n = [m EXCEPT !.GUpdateStationKeys = f]  OBVIOUS
<1>6. SmOK(n) /\ n.started = m.started /\ n.requests = m.requests /\ n.GUpdateStationKeys = f
  BY <1>4, <1>5 DEF SmOK, SmShape
<1>7. sm' = [sm EXCEPT ![s] = n]  BY <1>2, <1>3, <1>5
<1>8. sm'[s] = n /\ \A t \in Stations \ {s} : sm'[t] = sm[t]
  BY <1>7 DEF Inv, StationsOK
<1>9. StationsOK'
  BY <1>4, <1>6, <1>7, <1>8 DEF Inv, StationsOK
<1>10. GroupShape' /\ group'.done = IF f THEN group.done + 1 ELSE group.done
  BY <1>2 DEF Inv, GroupShape
<1>11. /\ run'.st = IF f THEN s ELSE NoOne
       /\ run'.free = FALSE /\ run'.todo = run.todo \ {s}
  BY <1>1, <1>2
<1>12. RunOK'
  BY <1>1, <1>2, <1>8, <1>11, HandshakeAssumption DEF Inv, RunOK
<1>13. RequestsOK'
  BY <1>1, <1>4, <1>6, <1>8, <1>11, HandshakeAssumption DEF Inv, RequestsOK
<1>14. GroupCount'
  <2>1. CASE f = TRUE
    <3>1. Awaited' = Awaited \cup {s} /\ s \notin Awaited
      BY <1>1, <1>6, <1>8, <1>11, <2>1 DEF Awaited, Inv, RunOK
    <3>2. Cardinality(Awaited \cup {s}) = Cardinality(Awaited) + 1
      BY <3>1, AwaitedFinite, FS_AddElement
    <3> QED BY <1>10, <2>1, <3>1, <3>2 DEF Inv, GroupCount
  <2>2. CASE f = FALSE
    <3>1. Awaited' = Awaited
      BY <1>1, <1>6, <1>8, <1>11, <2>2 DEF Awaited, Inv, RunOK
    <3> QED BY <1>10, <2>2, <3>1 DEF Inv, GroupCount
  <2> QED BY <2>1, <2>2
<1> QED BY <1>9, <1>10, <1>12, <1>13, <1>14 DEF Inv

(* The record of a station that is not in its loop.                        *)
LEMMA AtRest ==
  ASSUME Inv, Idle, NEW s \in Stations
  PROVE  /\ SmOK(sm[s]) /\ sm[s].requests = {}
         /\ sm[s].GUpdateStationKeys = TRUE => sm[s].started
BY HandshakeAssumption DEF Idle, Inv, StationsOK, RequestsOK

(* The count is unchanged.                                                 *)
LEMMA GroupSame ==
  ASSUME Inv, group' = group
  PROVE  GroupShape' /\ group'.done = group.done
BY DEF Inv, GroupShape

(* A station associates, anew or again.                                    *)
LEMMA AssociateInv ==
  ASSUME Inv, NEW s \in Stations, Associate(s)
  PROVE  Inv'
<1>1. Idle  BY DEF Associate
<1>2. PICK x : x = [sm |-> wpa_remove_ptk(sm[s]), done |-> group.done,
                    out |-> <<>>, rand |-> rand]
  OBVIOUS
<1>3. PICK u : u = wpa_remove_ptk(sm[s])  OBVIOUS
<1>4. SmOK(u) /\ Same(sm[s], u)  BY <1>1, <1>3, AtRest, RemovePtkSame
<1>5. XOK(x) /\ x.sm = u /\ x.done = group.done
  BY <1>2, <1>3, <1>4 DEF XOK, XShape, Inv, GroupShape
<1>6. CASE sm[s].assoc
  <2>1. PICK y : y = EventReauth(x)  OBVIOUS
  <2>2. Kept(x, y)  BY <1>5, <2>1, ReauthKept
  <2>3. Begin(s, y.sm) /\ group' = [group EXCEPT !.done = y.done]
    BY <1>2, <1>6, <2>1 DEF Associate
  <2>4. GroupShape' /\ group'.done = y.done
    BY <2>2, <2>3 DEF Inv, GroupShape, Kept, XOK
  <2>5. /\ SmOK(y.sm) /\ (y.sm.GUpdateStationKeys = TRUE => y.sm.started)
        /\ \/ y.done = group.done /\ y.sm.GUpdateStationKeys = sm[s].GUpdateStationKeys
           \/ /\ sm[s].GUpdateStationKeys = TRUE
              /\ y.sm.GUpdateStationKeys = FALSE
              /\ y.done = group.done - 1
    BY <1>1, <1>4, <1>5, <2>2, AtRest DEF Kept, XOK, Same
  <2> QED BY <1>1, <2>3, <2>4, <2>5, BeginInv
<1>7. CASE ~sm[s].assoc
  <2>1. PICK n : n = [wpa_auth_sta_associated(u) EXCEPT !.assoc = TRUE]  OBVIOUS
  <2>2. Begin(s, n) /\ group' = group
    BY <1>2, <1>3, <1>5, <1>7, <2>1 DEF Associate
  <2>3. /\ SmOK(n) /\ n.GUpdateStationKeys = u.GUpdateStationKeys
        /\ u.started => n.started
    BY <1>4, <2>1, AssociatedSame
  <2>4. /\ n.GUpdateStationKeys = sm[s].GUpdateStationKeys
        /\ n.GUpdateStationKeys = TRUE => n.started
    BY <1>1, <1>4, <2>3, AtRest DEF Same
  <2> QED BY <1>1, <2>2, <2>3, <2>4, BeginInv, GroupSame
<1> QED BY <1>6, <1>7

(* The loop begins for a record that differs in neither flag.              *)
LEMMA BeginSameInv ==
  ASSUME Inv, Idle, NEW s \in Stations, NEW m, SmOK(m), Same(sm[s], m),
         Begin(s, m), group' = group
  PROVE  Inv'
<1>1. /\ m.GUpdateStationKeys = sm[s].GUpdateStationKeys
      /\ m.GUpdateStationKeys = TRUE => m.started
  BY AtRest DEF Same
<1> QED BY <1>1, BeginInv, GroupSame

(* A frame arrives: the station is to be freed, or a MIC is wrong, or the  *)
(* step loop begins, or the frame is ignored.                              *)
LEMMA APReceiveInv ==
  ASSUME Inv, NEW s \in Stations, APReceive(s)
  PROVE  Inv'
<1>1. Idle  BY DEF APReceive
<1>2. PICK f : f = Head(up[s])  OBVIOUS
<1>3. PICK m : m = sm[s]  OBVIOUS
<1>4. SmOK(m) /\ m.requests = {} /\ (m.GUpdateStationKeys = TRUE => m.started)
  BY <1>1, <1>3, AtRest
<1>5. run.todo = {} /\ run.st = NoOne /\ run.free = FALSE
  BY <1>1 DEF Idle, Inv, RequestsOK
<1>6. CASE /\ sm' = [sm EXCEPT ![s] = [EventDeauth(@) EXCEPT !.assoc = FALSE]]
           /\ run' = [run EXCEPT !.st = s, !.free = TRUE]
           /\ group' = group
  <2>1. PICK n : n = [EventDeauth(m) EXCEPT !.assoc = FALSE]  OBVIOUS
  <2>2. SmOK(n) /\ Same(m, n) /\ n.requests = {"Deauthentication"}
    BY <1>4, <2>1, DeauthSame
  <2>3. sm' = [sm EXCEPT ![s] = n]  BY <1>3, <1>6, <2>1
  <2>4. run' = [st |-> s, free |-> TRUE, todo |-> run.todo, rekey |-> run.rekey,
                next |-> run.next]
    BY <1>6 DEF Inv, RunOK
  <2>5. run'.st = s /\ run'.free = TRUE /\ run'.todo = {} /\ run'.todo = run.todo
    BY <1>5, <2>4
  <2>6. /\ n.GUpdateStationKeys = sm[s].GUpdateStationKeys
        /\ n.GUpdateStationKeys = TRUE => n.started
    BY <1>3, <1>4, <2>2 DEF Same
  <2>7. /\ StationsOK' /\ GroupCount' /\ sm'[s] = n
        /\ \A t \in Stations \ {s} : sm'[t] = sm[t]
    BY <1>1, <1>5, <1>6, <2>2, <2>3, <2>5, <2>6, OneStation, GroupSame
  <2>8. RunOK'  BY <2>4, <2>5 DEF Inv, RunOK
  <2>9. \A t \in Stations : t # s => sm'[t].requests = {}
    BY <1>1, <2>7, AtRest
  <2>10. RequestsOK'
    BY <2>2, <2>5, <2>7, <2>9, HandshakeAssumption DEF RequestsOK, Leaving
  <2> QED BY <1>6, <2>7, <2>8, <2>10, GroupSame DEF Inv
<1>7. CASE sm' = [sm EXCEPT ![s].MICVerified = FALSE] /\ UNCHANGED <<run, group>>
  <2>1. PICK n : n = [m EXCEPT !.MICVerified = FALSE]  OBVIOUS
  <2>2. SmOK(n) /\ Same(m, n) /\ n.requests = m.requests
    <3>1. SmShape(n)  BY <1>4, <2>1 DEF SmOK, SmShape
    <3>2. Same(m, n) /\ n.requests = m.requests
      BY <1>4, <2>1 DEF SmOK, SmShape, Same
    <3> QED BY <1>4, <3>1, <3>2 DEF SmOK, Same
  <2>3. sm' = [sm EXCEPT ![s] = n]  BY <1>3, <1>7, <2>1
  <2>4. /\ n.GUpdateStationKeys = sm[s].GUpdateStationKeys
        /\ n.GUpdateStationKeys = TRUE => n.started
    BY <1>3, <1>4, <2>2 DEF Same
  <2>5. /\ StationsOK' /\ GroupCount' /\ sm'[s] = n
        /\ \A t \in Stations \ {s} : sm'[t] = sm[t]
    BY <1>1, <1>5, <1>7, <2>2, <2>3, <2>4, OneStation, GroupSame
  <2>6. RunOK'  BY <1>5, <1>7 DEF Inv, RunOK
  <2>7. RequestsOK'
    BY <1>4, <1>5, <1>7, <2>2, <2>5 DEF Inv, RequestsOK
  <2> QED BY <1>7, <2>5, <2>6, <2>7, GroupSame DEF Inv
<1>8. CASE Begin(s, wpa_receive(sm[s], f)) /\ group' = group
  <2>1. PICK n : n = wpa_receive(m, f)  OBVIOUS
  <2>2. SmOK(n) /\ Same(m, n)  BY <1>4, <2>1, ReceiveSame
  <2> QED BY <1>1, <1>3, <1>8, <2>1, <2>2, BeginSameInv
<1>9. CASE /\ f.msg = "grequest"
           /\ sm' = [sm EXCEPT ![s] = wpa_receive(@, f)]
           /\ group' = [group EXCEPT !.GTKReKey = TRUE]
           /\ run' = [run EXCEPT !.rekey = TRUE, !.next = s]
  <2>1. PICK n : n = wpa_receive(m, f)  OBVIOUS
  <2>2. SmOK(n) /\ Same(m, n)  BY <1>4, <2>1, ReceiveSame
  <2>3. n.requests = {}  BY <1>4, <1>9, <2>1 DEF wpa_receive, SmOK, SmShape
  <2>4. sm' = [sm EXCEPT ![s] = n]  BY <1>3, <1>9, <2>1
  <2>5. GroupShape' /\ group'.done = group.done
    BY <1>9 DEF Inv, GroupShape
  <2>6. run' = [st |-> run.st, free |-> run.free, todo |-> run.todo, rekey |-> TRUE,
                next |-> s]
    BY <1>9 DEF Inv, RunOK
  <2>7. run'.st = NoOne /\ run'.free = FALSE /\ run'.todo = {} /\ run'.todo = run.todo
    BY <1>5, <2>6
  <2>8. /\ n.GUpdateStationKeys = sm[s].GUpdateStationKeys
        /\ n.GUpdateStationKeys = TRUE => n.started
    BY <1>3, <1>4, <2>2 DEF Same
  <2>9. /\ StationsOK' /\ GroupCount' /\ sm'[s] = n
        /\ \A t \in Stations \ {s} : sm'[t] = sm[t]
    BY <1>5, <2>2, <2>4, <2>5, <2>7, <2>8, OneStation
  <2>10. RunOK'  BY <2>6, <2>7 DEF RunOK
  <2>11. \A t \in Stations : sm'[t].requests = {}
    BY <1>1, <2>3, <2>9, AtRest
  <2>12. RequestsOK'  BY <2>7, <2>11 DEF RequestsOK
  <2> QED BY <2>5, <2>9, <2>10, <2>12 DEF Inv
<1>10. CASE UNCHANGED <<sm, run, group>>
  BY <1>10, UnchangedInv
<1> QED BY <1>2, <1>6, <1>7, <1>8, <1>9, <1>10 DEF APReceive

(* A timeout starts the loop of its station.                               *)
LEMMA TimeoutInv ==
  ASSUME Inv, NEW s \in Stations, Timeout(s)
  PROVE  Inv'
<1>1. PICK n : n = wpa_send_eapol_timeout(sm[s])  OBVIOUS
<1>2. Idle /\ Begin(s, n) /\ group' = group  BY <1>1 DEF Timeout
<1>3. SmOK(n) /\ Same(sm[s], n)  BY <1>1, <1>2, AtRest, TimeoutSame
<1> QED BY <1>2, <1>3, BeginSameInv

(* So does the time for a new pairwise key.                                *)
LEMMA RekeyPtkInv ==
  ASSUME Inv, NEW s \in Stations, wpa_rekey_ptk(s)
  PROVE  Inv'
<1>1. PICK n : n = wpa_request_new_ptk(sm[s])  OBVIOUS
<1>2. Idle /\ Begin(s, n) /\ group' = group  BY <1>1 DEF wpa_rekey_ptk
<1>3. SmOK(n) /\ Same(sm[s], n)  BY <1>1, <1>2, AtRest, NewPtkSame
<1> QED BY <1>2, <1>3, BeginSameInv

(* A station that is freed is counted no more.                             *)
LEMMA FreedInv ==
  ASSUME Inv, Idle, NEW s \in Stations, Freed(s)
  PROVE  Inv'
<1>1. run.todo = {} /\ run.st = NoOne /\ run.free = FALSE /\ run' = run
  BY DEF Idle, Inv, RequestsOK, Freed
<1>2. sm' = [sm EXCEPT ![s] = NoStation]  BY DEF Freed
<1>3. sm[s].GUpdateStationKeys \in BOOLEAN  BY AtRest DEF SmOK
<1>4. /\ GroupShape'
      /\ group'.done = IF sm[s].GUpdateStationKeys THEN group.done - 1 ELSE group.done
  BY DEF Freed, Inv, GroupShape
<1>5. \/ group'.done = group.done /\ NoStation.GUpdateStationKeys = sm[s].GUpdateStationKeys
      \/ /\ sm[s].GUpdateStationKeys = TRUE
         /\ NoStation.GUpdateStationKeys = FALSE
         /\ group'.done = group.done - 1
  BY <1>3, <1>4, NoStationOK
<1>6. /\ StationsOK' /\ GroupCount' /\ sm'[s] = NoStation
      /\ \A t \in Stations \ {s} : sm'[t] = sm[t]
  BY <1>1, <1>2, <1>4, <1>5, NoStationOK, OneStation
<1>7. RunOK'  BY <1>1 DEF Inv, RunOK
<1>8. RequestsOK'
  BY <1>1, <1>6, NoStationOK DEF Inv, RequestsOK
<1> QED BY <1>4, <1>6, <1>7, <1>8 DEF Inv

(* Every step keeps the invariant.                                         *)
LEMMA NextInv ==
  ASSUME Inv, [Next]_vars
  PROVE  Inv'
<1>1. CASE UNCHANGED vars
  BY <1>1, UnchangedInv DEF vars
<1>2. CASE wpa_rekey_gtk  BY <1>2, RekeyGtkInv
<1>3. CASE wpa_group_sm_step  BY <1>3, GroupStepInv
<1>4. ASSUME NEW s \in Stations,
             \/ wpa_sm_step(s) \/ wpa_group_update_sta(s) \/ Associate(s)
             \/ APReceive(s) \/ Timeout(s) \/ wpa_rekey_ptk(s)
      PROVE  Inv'
  BY <1>4, StepInv, UpdateStaInv, AssociateInv, APReceiveInv, TimeoutInv, RekeyPtkInv
<1>5. ASSUME NEW s \in Stations,
             StaReceive(s) \/ Lose(s) \/ KeyRequest(s) \/ Leave(s)
      PROVE  Inv'
  <2>1. UNCHANGED <<sm, group, run>>
    BY <1>5 DEF StaReceive, Lose, KeyRequest, Leave
  <2> QED BY <2>1, UnchangedInv
<1>6. ASSUME NEW s \in Stations, ap_handle_timer(s) \/ ap_handle_session_timer(s)
      PROVE  Inv'
  <2>1. Idle /\ Freed(s)  BY <1>6 DEF ap_handle_timer, ap_handle_session_timer
  <2> QED BY <2>1, FreedInv
<1> QED BY <1>1, <1>2, <1>3, <1>4, <1>5, <1>6 DEF Next

(* GKeyDoneStations is the number of stations whose answer is awaited,     *)
(* whatever number of stations associate, answer, time out, leave or are   *)
(* removed, also while a rekeying walks over them: a new group key is put  *)
(* to use when the last of them is done, and never before.                 *)
THEOREM CountsAwaited == Spec => []GroupCount
<1>1. Inv /\ [Next]_vars => Inv'  BY NextInv
<1>2. Inv => GroupCount  BY DEF Inv
<1> QED BY InitInv, <1>1, <1>2, PTL DEF Spec

===============================================================================
