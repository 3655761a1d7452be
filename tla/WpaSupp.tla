-------------------------------- MODULE WpaSupp --------------------------------
(***************************************************************************)
(* The key handshakes in the supplicant (rsn_supp/wpa.c), for WPA2.  The   *)
(* operators take and return a record x with                               *)
(*   sup   struct wpa_sm and the keys it set in the driver,                *)
(*   out   the frames sent,                                                *)
(*   rand  the next random nonce.                                          *)
(*                                                                         *)
(* kind is "steady" for wpa_supplicant.  The authenticator also works with *)
(* supplicants that send a new SNonce in every message 2/4, and use the    *)
(* latest one or keep to the first one: "latest" and "first", otherwise    *)
(* the same, stand for those (external).                                   *)
(***************************************************************************)
EXTENDS Naturals, Sequences, WpaAuthSm

(* No key in the driver, nothing known: kind and pmk are the supplicant's  *)
(* own.  cleared: the TK in ptk has been zeroed.  gtk: the group keys in   *)
(* the driver, by key index.                                               *)
NotAssociated(kind, pmk) ==
  [kind |-> kind, pmk |-> pmk, assoc |-> FALSE,
   snonce |-> NoNonce, renew_snonce |-> TRUE, anonce |-> NoNonce,
   tptk |-> NoKey, ptk |-> NoKey, cleared |-> FALSE, tk_to_set |-> FALSE,
   rx_replay_counter |-> 0, msg_3_of_4_ok |-> FALSE, request_counter |-> 0,
   key |-> NoKey, gtk |-> [i \in {1, 2} |-> "none"]]

(* wpa_sm_notify_disassoc, and the driver's keys are removed.  Neither     *)
(* tk_to_set nor the nonces are touched.                                   *)
wpa_sm_notify_disassoc(sup) ==
  [sup EXCEPT !.assoc = FALSE, !.tptk = NoKey, !.ptk = NoKey, !.cleared = TRUE,
              !.msg_3_of_4_ok = FALSE, !.key = NoKey,
              !.gtk = [i \in {1, 2} |-> "none"]]

wpa_sm_notify_assoc(sup) ==
  [sup EXCEPT !.assoc = TRUE, !.rx_replay_counter = 0, !.renew_snonce = TRUE,
              !.ptk = NoKey, !.tptk = NoKey, !.cleared = TRUE]

Reply(x, msg, rc, nonce, mic) ==
  [x EXCEPT !.out = Append(@, [msg |-> msg, rc |-> rc, nonce |-> nonce, mic |-> mic])]

(* wpa_sm_deauthenticate.                                                  *)
wpa_sm_deauthenticate(x) ==
  [Reply(x, "deauth", 0, NoNonce, NoKey) EXCEPT !.sup = wpa_sm_notify_disassoc(x.sup)]

process_1_of_4(x, m) ==
  LET renew == x.sup.renew_snonce \/ x.sup.kind # "steady"
      snonce == IF renew THEN x.rand ELSE x.sup.snonce
      key == Ptk(x.sup.pmk, m.nonce, snonce)
      keep == x.sup.kind = "first" /\ x.sup.tptk # NoKey
      sup == [x.sup EXCEPT !.snonce = snonce, !.renew_snonce = FALSE,
                !.tptk = IF keep THEN @ ELSE key, !.tk_to_set = TRUE, !.anonce = m.nonce]
  IN  Reply([x EXCEPT !.sup = sup, !.rand = IF renew THEN @ + 1 ELSE @],
            "2/4", m.rc, snonce, key)

(* wpa_supplicant_verify_eapol_key_mic: a frame made with the temporary    *)
(* PTK makes that the PTK.                                                 *)
MicKnown(sup, m) == m.mic # NoKey /\ m.mic \in {sup.tptk, sup.ptk}

Verified(sup, m) ==
  IF m.mic = sup.tptk
  THEN [sup EXCEPT !.tptk = NoKey, !.ptk = sup.tptk, !.cleared = FALSE,
                   !.rx_replay_counter = m.rc]
  ELSE [sup EXCEPT !.rx_replay_counter = m.rc]

(* Variant: the key is set again when message 3/4 comes again.             *)
InstallPtkAgain(sup) ==
  IF ~sup.tk_to_set THEN sup
  ELSE [sup EXCEPT !.key = IF sup.cleared THEN ClearedKey ELSE sup.ptk, !.cleared = TRUE]

(* The TK goes to the driver once and is then zeroed in memory.            *)
wpa_supplicant_install_ptk(sup) ==
  IF ~sup.tk_to_set THEN sup
  ELSE [sup EXCEPT !.key = IF sup.cleared THEN ClearedKey ELSE sup.ptk,
                   !.cleared = TRUE, !.tk_to_set = FALSE]

(* Variant: a group key is set only where there was none.                  *)
InstallGtkOnce(sup, m) ==
  [sup EXCEPT !.gtk = [i \in {1, 2} |->
     IF @[i] = "none" /\ \E g \in m.gtk : g.idx = i
     THEN (CHOOSE g \in m.gtk : g.idx = i).key ELSE @[i]]]

InstallGtk(sup, m) ==
  [sup EXCEPT !.gtk = [i \in {1, 2} |->
     IF \E g \in m.gtk : g.idx = i THEN (CHOOSE g \in m.gtk : g.idx = i).key ELSE @[i]]]

(* A failing driver makes it leave; the 4/4 was sent before.               *)
process_3_of_4(x, m, ok) ==
  IF x.sup.anonce # m.nonce THEN wpa_sm_deauthenticate(x)
  ELSE LET y == [Reply(x, "4/4", m.rc, NoNonce, x.sup.ptk) EXCEPT
                   !.sup.renew_snonce = TRUE]
           installed == InstallGtk(wpa_supplicant_install_ptk(y.sup), m)
       IN  IF ~ok THEN wpa_sm_deauthenticate(y)
           ELSE [y EXCEPT !.sup = [installed EXCEPT !.msg_3_of_4_ok = TRUE]]

process_1_of_2(x, m, ok) ==
  IF ~x.sup.msg_3_of_4_ok \/ ~ok THEN wpa_sm_deauthenticate(x)
  ELSE Reply([x EXCEPT !.sup = InstallGtk(x.sup, m)], "2/2", m.rc, NoNonce, x.sup.ptk)

(* wpa_sm_rx_eapol.  ok: the driver takes the keys.                        *)
wpa_sm_rx_eapol(x, m, ok) ==
  LET y == [x EXCEPT !.sup = Verified(x.sup, m)]
  IN  IF m.rc <= x.sup.rx_replay_counter THEN x
      ELSE IF m.msg = "1/4" THEN process_1_of_4(x, m)
      ELSE IF ~MicKnown(x.sup, m) THEN x
      ELSE IF m.msg = "3/4" THEN process_3_of_4(y, m, ok)
      ELSE process_1_of_2(y, m, ok)

(* wpa_sm_key_request: for a new pairwise key (request), or for a new      *)
(* group key (grequest, which wpa_supplicant itself never sends).          *)
wpa_sm_key_request(x, msg) ==
  Reply([x EXCEPT !.sup.request_counter = @ + 1],
        msg, x.sup.request_counter + 1, NoNonce, x.sup.ptk)

===============================================================================
