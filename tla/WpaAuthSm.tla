------------------------------- MODULE WpaAuthSm -------------------------------
(***************************************************************************)
(* The key state machines that hostapd keeps for one station: WPA_PTK (the *)
(* 4-way handshake) and WPA_PTK_GROUP (the group key handshake), for WPA2  *)
(* with a pre-shared key.                                                  *)
(*                                                                         *)
(* The operators take and return a record x with                           *)
(*   sm    struct wpa_state_machine,                                       *)
(*   done  GKeyDoneStations of the group the station is in,                *)
(*   out   the frames sent to the station,                                 *)
(*   rand  the next nonce of random_get_bytes: a number never used before. *)
(*                                                                         *)
(* A pairwise key is the triple of what it is derived from: the master     *)
(* key, ANonce and SNonce.  A MIC is the key it was made with.  The array  *)
(* key_replay holds consecutive counters, so it is the counter sent last   *)
(* (ctr) and the set of those that are valid.                              *)
(***************************************************************************)
EXTENDS Naturals, Sequences

CONSTANTS
  PairwiseUpdateCount,      \* dot11RSNAConfigPairwiseUpdateCount
  GroupUpdateCount,         \* dot11RSNAConfigGroupUpdateCount
  RSNA_MAX_EAPOL_RETRIES

ASSUME WpaAssumption ==
  /\ PairwiseUpdateCount \in Nat \ {0}
  /\ GroupUpdateCount \in Nat \ {0}
  /\ RSNA_MAX_EAPOL_RETRIES \in Nat \ {0}

PSK == 1
NoKey == <<>>
ClearedKey == <<0, 0, 0>>      \* what is left of a key that was zeroed
Ptk(pmk, anonce, snonce) == <<pmk, anonce, snonce>>

NoNonce == 0

(* A station the authenticator knows nothing of, and wpa_auth_sta_init.    *)
(* requests: the flags Disconnect, DeauthenticationRequest,                *)
(* AuthenticationRequest, ReAuthenticationRequest and PTKRequest.          *)
(* rx: EAPOLKeyReceived with EAPOLKeyPairwise and EAPOLKeyRequest.         *)
(* timers: how often wpa_send_eapol_timeout is registered; rekey: whether  *)
(* wpa_rekey_ptk is.  key: the pairwise key in the driver.                 *)
NoStation ==
  [assoc |-> FALSE, started |-> FALSE, ptk |-> "INITIALIZE", grp |-> "IDLE",
   requests |-> {}, PtkGroupInit |-> FALSE,
   TimeoutCtr |-> 0, GTimeoutCtr |-> 0, TimeoutEvt |-> FALSE,
   rx |-> "none", last_mic |-> NoKey, MICVerified |-> FALSE,
   GUpdateStationKeys |-> FALSE, has_GTK |-> FALSE,
   ANonce |-> NoNonce, SNonce |-> NoNonce,
   alt_SNonce |-> NoNonce, alt_rc |-> 0, update_snonce |-> FALSE,
   PTK |-> NoKey, PTK_valid |-> FALSE, key |-> NoKey,
   ctr |-> 0, valid |-> {}, prev |-> {}, req_counter |-> 0,
   timers |-> 0, rekey |-> FALSE]

-----------------------------------------------------------------------------
(* Variant: no counter drops out of key_replay.                            *)
WindowUnlimited(valid, n) == valid \cup {n}

(* The array key_replay has room for RSNA_MAX_EAPOL_RETRIES counters.      *)
Window(valid, n) == {i \in valid \cup {n} : i + RSNA_MAX_EAPOL_RETRIES > n}

(* Sending.  A frame with a MIC is not sent without a valid PTK, but it    *)
(* takes a replay counter and registers the timeout all the same.          *)
Send(x, msg, gtk) ==
  LET n == x.sm.ctr + 1
      mic == IF msg = "1/4" THEN NoKey ELSE x.sm.PTK
      frame == [msg |-> msg, rc |-> n, mic |-> mic, gtk |-> gtk,
                nonce |-> IF msg = "1/2" THEN NoNonce ELSE x.sm.ANonce]
  IN  [x EXCEPT
        !.sm.ctr = n,
        !.sm.valid = Window(@, n),
        !.sm.timers = @ + 1,
        !.out = IF msg = "1/4" \/ x.sm.PTK_valid THEN Append(@, frame) ELSE @]

wpa_remove_ptk(sm) ==
  [sm EXCEPT !.PTK_valid = FALSE, !.PTK = NoKey, !.key = NoKey, !.rekey = FALSE]

DeauthFrame == [msg |-> "deauth", rc |-> 0, mic |-> NoKey, gtk |-> {}, nonce |-> NoNonce]

(* wpa_sta_disconnect, through ap_sta_disconnect: the station is told, and *)
(* the event WPA_DEAUTH comes back.                                        *)
wpa_sta_disconnect(x) ==
  [x EXCEPT
    !.sm = [wpa_remove_ptk(x.sm) EXCEPT
              !.requests = @ \cup {"Deauthentication"}, !.assoc = FALSE],
    !.out = Append(@, DeauthFrame)]

(* A pending group key update of the station is counted no more.           *)
Discount(x) ==
  [x EXCEPT !.done = IF x.sm.GUpdateStationKeys THEN @ - 1 ELSE @,
            !.sm.GUpdateStationKeys = FALSE]

-----------------------------------------------------------------------------
(* Entering the states of WPA_PTK.                                         *)

INITIALIZE(x) ==
  LET y == Discount(x)
  IN  [y EXCEPT !.sm = [wpa_remove_ptk(y.sm) EXCEPT
                          !.ptk = "INITIALIZE", !.TimeoutCtr = 0]]

DISCONNECT(x) ==
  wpa_sta_disconnect(
    [x EXCEPT !.sm.ptk = "DISCONNECT", !.sm.requests = @ \ {"Disconnect"}])

DISCONNECTED(x) ==
  [x EXCEPT !.sm.ptk = "DISCONNECTED", !.sm.requests = @ \ {"Deauthentication"}]

AUTHENTICATION(x) ==
  [x EXCEPT !.sm = [x.sm EXCEPT
     !.ptk = "AUTHENTICATION", !.PTK = NoKey, !.PTK_valid = FALSE,
     !.requests = @ \ {"Authentication"}]]

AUTHENTICATION2(x) ==
  [x EXCEPT
     !.sm = [x.sm EXCEPT !.ptk = "AUTHENTICATION2", !.ANonce = x.rand,
               !.TimeoutCtr = 0, !.requests = @ \ {"ReAuthentication"}],
     !.rand = @ + 1]

INITPSK(x) == [x EXCEPT !.sm.ptk = "INITPSK", !.sm.req_counter = 0]

PTKSTART(x) ==
  LET y == [x EXCEPT !.sm = [x.sm EXCEPT
              !.ptk = "PTKSTART", !.requests = @ \ {"PTK"}, !.TimeoutEvt = FALSE,
              !.alt_SNonce = NoNonce, !.TimeoutCtr = @ + 1]]
  IN  IF y.sm.TimeoutCtr > PairwiseUpdateCount THEN y ELSE Send(y, "1/4", {})

(* Variant: the timeout is cancelled before the MIC is looked at.          *)
PtkCalcCancels(x) ==
  LET key == Ptk(PSK, x.sm.ANonce, x.sm.SNonce)
      sm == [x.sm EXCEPT !.ptk = "PTKCALCNEGOTIATING", !.rx = "none",
                         !.update_snonce = FALSE, !.timers = 0]
  IN  [x EXCEPT !.sm =
        IF x.sm.last_mic # key THEN sm
        ELSE [sm EXCEPT !.MICVerified = TRUE, !.PTK = key, !.PTK_valid = TRUE]]

(* The key derived from the last frame received is taken if it explains    *)
(* the MIC of that frame.                                                  *)
PTKCALCNEGOTIATING(x) ==
  LET key == Ptk(PSK, x.sm.ANonce, x.sm.SNonce)
      sm == [x.sm EXCEPT !.ptk = "PTKCALCNEGOTIATING", !.rx = "none",
                         !.update_snonce = FALSE]
  IN  [x EXCEPT !.sm =
        IF x.sm.last_mic # key THEN sm
        ELSE [sm EXCEPT !.timers = 0, !.MICVerified = TRUE,
                        !.PTK = key, !.PTK_valid = TRUE]]

PTKCALCNEGOTIATING2(x) ==
  [x EXCEPT !.sm.ptk = "PTKCALCNEGOTIATING2", !.sm.TimeoutCtr = 0]

PTKINITNEGOTIATING(x, gtk) ==
  LET y == [x EXCEPT !.sm = [x.sm EXCEPT
              !.ptk = "PTKINITNEGOTIATING", !.TimeoutEvt = FALSE, !.TimeoutCtr = @ + 1]]
  IN  IF y.sm.TimeoutCtr > PairwiseUpdateCount THEN y ELSE Send(y, "3/4", {gtk})

(* Variant: a key is set only where there was none.                        *)
PtkInitDoneOnce(x, ok) ==
  LET y == [x EXCEPT !.sm.ptk = "PTKINITDONE", !.sm.rx = "none"]
  IN  IF ~ok THEN wpa_sta_disconnect(y)
      ELSE [y EXCEPT !.sm = [y.sm EXCEPT !.key = IF @ = NoKey THEN y.sm.PTK ELSE @,
                                         !.rekey = TRUE, !.has_GTK = TRUE]]

(* ok: the driver takes the key.                                           *)
PTKINITDONE(x, ok) ==
  LET y == [x EXCEPT !.sm.ptk = "PTKINITDONE", !.sm.rx = "none"]
  IN  IF ~ok THEN wpa_sta_disconnect(y)
      ELSE [y EXCEPT !.sm = [y.sm EXCEPT !.key = y.sm.PTK, !.rekey = TRUE,
                                         !.has_GTK = TRUE]]

(* SM_STEP(WPA_PTK): the state entered next, None if the machine stays.    *)
None == "none"
PtkTarget(sm) ==
  LET received == sm.rx = "pairwise"
      spent == sm.TimeoutCtr > PairwiseUpdateCount
  IN  IF "Disconnect" \in sm.requests THEN "DISCONNECT"
      ELSE IF "Deauthentication" \in sm.requests THEN "DISCONNECTED"
      ELSE IF "Authentication" \in sm.requests THEN "AUTHENTICATION"
      ELSE IF "ReAuthentication" \in sm.requests THEN "AUTHENTICATION2"
      ELSE IF "PTK" \in sm.requests THEN "PTKSTART"
      ELSE CASE sm.ptk = "DISCONNECT" -> "DISCONNECTED"
             [] sm.ptk = "DISCONNECTED" -> "INITIALIZE"
             [] sm.ptk = "AUTHENTICATION" -> "AUTHENTICATION2"
             [] sm.ptk = "AUTHENTICATION2" -> "INITPSK"
             [] sm.ptk = "INITPSK" -> "PTKSTART"
             [] sm.ptk = "PTKSTART" ->
                  IF received THEN "PTKCALCNEGOTIATING"
                  ELSE IF spent THEN "DISCONNECT"
                  ELSE IF sm.TimeoutEvt THEN "PTKSTART" ELSE None
             [] sm.ptk = "PTKCALCNEGOTIATING" ->
                  IF sm.MICVerified THEN "PTKCALCNEGOTIATING2"
                  ELSE IF received THEN "PTKCALCNEGOTIATING"
                  ELSE IF sm.TimeoutEvt THEN "PTKSTART" ELSE None
             [] sm.ptk = "PTKCALCNEGOTIATING2" -> "PTKINITNEGOTIATING"
             [] sm.ptk = "PTKINITNEGOTIATING" ->
                  IF sm.update_snonce THEN "PTKCALCNEGOTIATING"
                  ELSE IF received /\ sm.MICVerified THEN "PTKINITDONE"
                  ELSE IF spent THEN "DISCONNECT"
                  ELSE IF sm.TimeoutEvt THEN "PTKINITNEGOTIATING" ELSE None
             [] OTHER -> None

EnterPtk(x, state, gtk, ok) ==
  CASE state = "INITIALIZE" -> INITIALIZE(x)
    [] state = "DISCONNECT" -> DISCONNECT(x)
    [] state = "DISCONNECTED" -> DISCONNECTED(x)
    [] state = "AUTHENTICATION" -> AUTHENTICATION(x)
    [] state = "AUTHENTICATION2" -> AUTHENTICATION2(x)
    [] state = "INITPSK" -> INITPSK(x)
    [] state = "PTKSTART" -> PTKSTART(x)
    [] state = "PTKCALCNEGOTIATING" -> PTKCALCNEGOTIATING(x)
    [] state = "PTKCALCNEGOTIATING2" -> PTKCALCNEGOTIATING2(x)
    [] state = "PTKINITNEGOTIATING" -> PTKINITNEGOTIATING(x, gtk)
    [] state = "PTKINITDONE" -> PTKINITDONE(x, ok)
    [] OTHER -> x

-----------------------------------------------------------------------------
(* WPA_PTK_GROUP.                                                          *)

GROUP_IDLE(x) ==
  [x EXCEPT !.sm.grp = "IDLE", !.sm.GTimeoutCtr = 0, !.sm.PtkGroupInit = FALSE]

REKEYNEGOTIATING(x, gtk) ==
  LET y == [x EXCEPT !.sm.grp = "REKEYNEGOTIATING", !.sm.GTimeoutCtr = @ + 1]
  IN  IF y.sm.GTimeoutCtr > GroupUpdateCount THEN y
      ELSE Send([y EXCEPT !.sm.TimeoutEvt = FALSE], "1/2", {gtk})

REKEYESTABLISHED(x) ==
  LET y == Discount(x)
  IN  [y EXCEPT !.sm = [y.sm EXCEPT !.grp = "REKEYESTABLISHED", !.rx = "none",
                                    !.GTimeoutCtr = 0, !.has_GTK = TRUE]]

KEYERROR(x) ==
  LET y == Discount(x)
  IN  [y EXCEPT !.sm.grp = "KEYERROR", !.sm.requests = @ \cup {"Disconnect"}]

GroupTarget(sm) ==
  IF sm.PtkGroupInit THEN "IDLE"
  ELSE CASE sm.grp = "IDLE" -> IF sm.GUpdateStationKeys THEN "REKEYNEGOTIATING" ELSE None
         [] sm.grp = "REKEYNEGOTIATING" ->
              IF sm.rx = "group" /\ sm.MICVerified THEN "REKEYESTABLISHED"
              ELSE IF sm.GTimeoutCtr > GroupUpdateCount THEN "KEYERROR"
              ELSE IF sm.TimeoutEvt THEN "REKEYNEGOTIATING" ELSE None
         [] OTHER -> "IDLE"

EnterGroup(x, state, gtk) ==
  CASE state = "IDLE" -> GROUP_IDLE(x)
    [] state = "REKEYNEGOTIATING" -> REKEYNEGOTIATING(x, gtk)
    [] state = "REKEYESTABLISHED" -> REKEYESTABLISHED(x)
    [] state = "KEYERROR" -> KEYERROR(x)
    [] OTHER -> x

-----------------------------------------------------------------------------
(* One round of both machines.  It is the last one unless a state was      *)
(* entered (changed).                                                      *)
PtkRound(x, gtk, ok) == EnterPtk(x, PtkTarget(x.sm), gtk, ok)
GroupRound(x, gtk) == EnterGroup(x, GroupTarget(x.sm), gtk)

(* Requests for a new 4-way handshake, for another group key or with the   *)
(* address of another station.                                             *)
Requests == {"request", "grequest"}

(* wpa_receive: whether the frame may be processed in the state of sm.     *)
SNonceUpdate(sm, m) ==
  /\ m.msg = "2/4" /\ m.rc \notin sm.valid /\ m.rc \in sm.prev
  /\ sm.ptk = "PTKINITNEGOTIATING" /\ sm.SNonce # m.nonce

AltSNonce(sm, m) ==
  /\ m.msg = "4/4" /\ m.rc \notin sm.valid /\ m.rc = sm.alt_rc
  /\ sm.ptk = "PTKINITNEGOTIATING" /\ sm.alt_SNonce # NoNonce

Expected(sm, m) ==
  CASE m.msg = "2/4" -> \/ SNonceUpdate(sm, m)
                        \/ /\ m.rc \in sm.valid
                           /\ sm.ptk \in {"PTKSTART", "PTKCALCNEGOTIATING"}
    [] m.msg = "4/4" -> /\ m.rc \in sm.valid \/ AltSNonce(sm, m)
                        /\ sm.ptk = "PTKINITNEGOTIATING" /\ sm.PTK_valid
    [] m.msg = "2/2" -> /\ m.rc \in sm.valid
                        /\ sm.grp = "REKEYNEGOTIATING" /\ sm.PTK_valid
    [] m.msg \in Requests -> m.rc > sm.req_counter
    [] OTHER -> FALSE

(* The MIC: with a valid PTK it must be right, or right with the earlier   *)
(* SNonce; then no timeout is waited for any more.  Without one, or on an  *)
(* update of SNonce, PTKCALCNEGOTIATING looks at it.                       *)
AltKey(sm) == Ptk(PSK, sm.ANonce, sm.alt_SNonce)
AltMic(sm, m) ==
  m.mic # sm.PTK /\ m.msg = "4/4" /\ sm.alt_SNonce # NoNonce /\ m.mic = AltKey(sm)
Checked(sm, m) == sm.PTK_valid /\ ~SNonceUpdate(sm, m)
MicRefused(sm, m) ==
  \/ Checked(sm, m) /\ m.mic # sm.PTK /\ ~AltMic(sm, m)
  \/ ~Checked(sm, m) /\ m.msg \in Requests

(* The state for the frame once it is accepted; the step loop follows.     *)
wpa_receive(sm, m) ==
  LET update == SNonceUpdate(sm, m)
      alt == Checked(sm, m) /\ AltMic(sm, m)
      request == m.msg \in Requests
      newptk == m.msg = "request"
  IN  [sm EXCEPT
        !.MICVerified = Checked(sm, m),
        !.timers = IF Checked(sm, m) THEN 0 ELSE @,
        !.PTK = IF alt THEN AltKey(sm) ELSE @,
        !.PTK_valid = IF newptk THEN FALSE ELSE @,
        !.alt_SNonce = IF update THEN sm.SNonce ELSE IF alt THEN NoNonce ELSE @,
        !.alt_rc = IF update THEN sm.ctr ELSE @,
        !.update_snonce = @ \/ update,
        !.requests = IF newptk THEN @ \cup {"PTK"} ELSE @,
        !.req_counter = IF request THEN m.rc ELSE @,
        !.prev = IF request THEN @
                 ELSE IF m.msg = "2/4" THEN {i \in sm.valid : i > m.rc} ELSE {},
        !.valid = IF request THEN @ ELSE {},
        !.rx = IF request THEN m.msg ELSE IF m.msg = "2/2" THEN "group" ELSE "pairwise",
        !.last_mic = m.mic,
        !.SNonce = m.nonce]


(* wpa_send_eapol_timeout and wpa_request_new_ptk.                         *)
wpa_send_eapol_timeout(sm) == [sm EXCEPT !.timers = @ - 1, !.TimeoutEvt = TRUE]

wpa_request_new_ptk(sm) ==
  [sm EXCEPT !.requests = @ \cup {"PTK"}, !.PTK_valid = FALSE, !.rekey = FALSE]

(* wpa_auth_sm_event with WPA_AUTH or WPA_ASSOC, with WPA_DEAUTH, and with *)
(* WPA_REAUTH: reauthentication cancels the pending group key update.      *)
EventDeauth(sm) ==
  [wpa_remove_ptk(sm) EXCEPT !.requests = @ \cup {"Deauthentication"}]

EventReauth(x) ==
  LET y == IF x.sm.GUpdateStationKeys
           THEN [Discount(x) EXCEPT !.sm.PtkGroupInit = TRUE] ELSE x
  IN  [y EXCEPT !.sm = [wpa_remove_ptk(y.sm) EXCEPT
                          !.requests = @ \cup {"ReAuthentication"}]]

(* wpa_auth_sta_associated.                                                *)
wpa_auth_sta_associated(sm) ==
  IF sm.started
  THEN [sm EXCEPT !.ctr = 0, !.valid = {}, !.requests = @ \cup {"ReAuthentication"}]
  ELSE [sm EXCEPT !.started = TRUE, !.requests = @ \cup {"Authentication"}]

===============================================================================
