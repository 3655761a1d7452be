------------------------------ MODULE CPMachine ------------------------------
(***************************************************************************)
(* The controlled port (CP) state machine of the PAE, translated from      *)
(* src/src/pae/ieee802_1x_cp.c.  Every state entry function SM_STATE(CP,X) *)
(* is an operator CP_X on a node record n with the fields                  *)
(*    n.cp   struct ieee802_1x_cp_sm and its three eloop timeouts          *)
(*    n.sa   the participant's keys and SAs (module KaySa)                 *)
(* so that a pass of SM_STEP(CP), which may enter two states one after the *)
(* other, is the composition of the entry functions.                       *)
(***************************************************************************)
EXTENDS KaySa

CONSTANT Ciphers          \* (cipher suite, confidentiality offset) pairs

ASSUME CiphersAssumption == Ciphers # {}

TransmitDelay == 6        \* MKA_LIFE_TIME, seconds
RetireDelay   == 3        \* MKA_SAK_RETIRE_TIME, seconds
NoTimer       == -1       \* an eloop timeout that is not registered
Timers        == {NoTimer} \cup 0..TransmitDelay

Connect == {"PENDING", "UNAUTHENTICATED", "AUTHENTICATED", "SECURE"}

CPStates == {"INIT", "CHANGE", "ALLOWED", "AUTHENTICATED", "SECURED", "RECEIVE",
             "RECEIVING", "READY", "TRANSMIT", "TRANSMITTING", "ABANDON", "RETIRE"}

(***************************************************************************)
(* Besides the fields of the C structure: step_timer is the zero-delay     *)
(* timeout ieee802_1x_cp_step_cb, transmit_timer and retire_timer are the  *)
(* seconds left of the other two; new_info records that the pass called    *)
(* ieee802_1x_kay_enable_new_info; fault, that a NULL key identifier was   *)
(* compared.  transmit_when and retire_when say whether the C variable is  *)
(* nonzero.  protect_frames stands for all the SecY settings an entry      *)
(* function makes together (protect, validate, replay): TRUE for the       *)
(* KaY's configured ones, FALSE for plain operation.                       *)
(***************************************************************************)
CpRecord ==
  [ state : CPStates, connect : Connect, chgd_server : BOOLEAN, elected_self : BOOLEAN,
    cipher : Ciphers, current_cipher : Ciphers,
    new_sak : BOOLEAN, dki : KI, dan : AN,
    using_receive_sas : BOOLEAN, all_receiving : BOOLEAN,
    server_transmitting : BOOLEAN, using_transmit_sa : BOOLEAN,
    lki : KI, lan : AN, ltx : BOOLEAN, lrx : BOOLEAN,
    oki : KI, oan : AN, otx : BOOLEAN, orx : BOOLEAN,
    protect_frames : BOOLEAN, port_valid : BOOLEAN, controlled_port : BOOLEAN,
    transmit_when : BOOLEAN, retire_when : BOOLEAN,
    step_timer : BOOLEAN, transmit_timer : Timers, retire_timer : Timers,
    new_info : BOOLEAN, fault : BOOLEAN ]

changed_cipher(cp) == cp.current_cipher # cp.cipher

changed_connect(cp) ==
  cp.connect # "SECURE" \/ cp.chgd_server \/ changed_cipher(cp)

-----------------------------------------------------------------------------
(* The calls CP makes into the KaY that come back into CP. *)

enable_rx_sas(n, k) ==
  LET ans == RxAnsOf(n.sa, k)
  IN  IF n.sa.principal /\ ans # {}
      THEN [cp |-> [n.cp EXCEPT !.using_receive_sas = TRUE, !.step_timer = TRUE],
            sa |-> [n.sa EXCEPT !.rxuse = @ \cup ans]]
      ELSE n

enable_tx_sas(n, k) ==
  LET ans == TxAnsOf(n.sa, k)
  IN  IF n.sa.principal /\ ans # {}
      THEN [cp |-> [n.cp EXCEPT !.using_transmit_sa = TRUE, !.step_timer = TRUE],
            sa |-> [n.sa EXCEPT !.txuse = @ \cup ans]]
      ELSE IF n.sa.principal /\ k = NoKey /\ \E a \in AN : n.sa.txsa[a] # NoKey
      THEN [n EXCEPT !.cp = [@ EXCEPT !.fault = TRUE]]
      ELSE n

-----------------------------------------------------------------------------
(* State entry functions. *)

CP_INIT(n) ==
  [n EXCEPT !.cp = [@ EXCEPT !.state = "INIT",
      !.controlled_port = FALSE, !.port_valid = FALSE,
      !.lki = NoKey, !.ltx = FALSE, !.lrx = FALSE,
      !.oki = NoKey, !.otx = FALSE, !.orx = FALSE,
      !.chgd_server = FALSE]]

(* A variant that leaves the controlled port open while the keys change. *)
ChangeLeavesPortOpen(n) ==
  [cp |-> [n.cp EXCEPT !.state = "CHANGE", !.port_valid = FALSE],
   sa |-> delete_sas(delete_sas(n.sa, n.cp.lki), n.cp.oki)]

CP_CHANGE(n) ==
  [cp |-> [n.cp EXCEPT !.state = "CHANGE", !.port_valid = FALSE, !.controlled_port = FALSE],
   sa |-> delete_sas(delete_sas(n.sa, n.cp.lki), n.cp.oki)]

PlainPort(n, state) ==
  [n EXCEPT !.cp = [@ EXCEPT !.state = state,
      !.protect_frames = FALSE, !.port_valid = FALSE, !.controlled_port = TRUE]]

CP_ALLOWED(n)       == PlainPort(n, "ALLOWED")
CP_AUTHENTICATED(n) == PlainPort(n, "AUTHENTICATED")

CP_SECURED(n) ==
  [n EXCEPT !.cp = [@ EXCEPT !.state = "SECURED",
      !.chgd_server = FALSE, !.protect_frames = TRUE,
      !.current_cipher = n.cp.cipher, !.port_valid = TRUE]]

(* The latest key becomes the old one, the distributed key the latest; its *)
(* SAs are created and the receive SA enabled.                             *)
CP_RECEIVE(n) ==
  LET cp1 == [n.cp EXCEPT !.state = "RECEIVE",
                !.oki = n.cp.lki, !.oan = n.cp.lan, !.otx = n.cp.ltx, !.orx = n.cp.lrx,
                !.lki = n.cp.dki, !.lan = n.cp.dan, !.ltx = FALSE, !.lrx = FALSE]
      sa1 == set_old_sa_attr(n.sa, cp1.oki, cp1.oan, cp1.otx, cp1.orx)
      sa2 == set_latest_sa_attr(sa1, cp1.lki, cp1.lan, FALSE, FALSE)
      m   == enable_rx_sas([cp |-> cp1, sa |-> create_sas(sa2, cp1.lki)], cp1.lki)
  IN  [m EXCEPT !.cp = [@ EXCEPT !.new_sak = FALSE, !.all_receiving = FALSE]]

(* A variant that does not clear using_receive_sas. *)
ReceivingKeepsUsing(n) ==
  LET cp1 == [n.cp EXCEPT !.state = "RECEIVING", !.lrx = TRUE,
                !.transmit_when = TRUE, !.transmit_timer = TransmitDelay,
                !.step_timer = TRUE, !.server_transmitting = FALSE]
  IN  [cp |-> cp1, sa |-> set_latest_sa_attr(n.sa, cp1.lki, cp1.lan, cp1.ltx, TRUE)]

CP_RECEIVING(n) ==
  LET cp1 == [n.cp EXCEPT !.state = "RECEIVING", !.lrx = TRUE,
                !.transmit_when = TRUE, !.transmit_timer = TransmitDelay,
                !.step_timer = TRUE,
                !.using_receive_sas = FALSE, !.server_transmitting = FALSE]
  IN  [cp |-> cp1, sa |-> set_latest_sa_attr(n.sa, cp1.lki, cp1.lan, cp1.ltx, TRUE)]

CP_READY(n) == [n EXCEPT !.cp = [@ EXCEPT !.state = "READY", !.new_info = TRUE]]

CP_TRANSMIT(n) ==
  LET cp1 == [n.cp EXCEPT !.state = "TRANSMIT", !.controlled_port = TRUE, !.ltx = TRUE]
      sa1 == set_latest_sa_attr(n.sa, cp1.lki, cp1.lan, TRUE, cp1.lrx)
      m   == enable_tx_sas([cp |-> cp1, sa |-> sa1], cp1.lki)
  IN  [m EXCEPT !.cp = [@ EXCEPT !.all_receiving = FALSE, !.server_transmitting = FALSE]]

(* A variant that registers the retire timeout in milliseconds. *)
TransmittingInMilliseconds(n) ==
  LET cp1 == [n.cp EXCEPT !.state = "TRANSMITTING",
                !.retire_when = n.cp.orx,
                !.retire_timer = IF n.cp.orx THEN 1000 * RetireDelay ELSE 0,
                !.otx = FALSE, !.new_info = TRUE, !.using_transmit_sa = FALSE]
  IN  [cp |-> cp1, sa |-> set_old_sa_attr(n.sa, cp1.oki, cp1.oan, FALSE, cp1.orx)]

CP_TRANSMITTING(n) ==
  LET cp1 == [n.cp EXCEPT !.state = "TRANSMITTING",
                !.retire_when = n.cp.orx,
                !.retire_timer = IF n.cp.orx THEN RetireDelay ELSE 0,
                !.otx = FALSE, !.new_info = TRUE, !.using_transmit_sa = FALSE]
  IN  [cp |-> cp1, sa |-> set_old_sa_attr(n.sa, cp1.oki, cp1.oan, FALSE, cp1.orx)]

(* A variant that abandons the key without deleting its SAs. *)
AbandonKeepsSas(n) ==
  LET cp1 == [n.cp EXCEPT !.state = "ABANDON", !.lrx = FALSE, !.lki = NoKey,
                !.new_sak = FALSE]
  IN  [cp |-> cp1, sa |-> set_latest_sa_attr(n.sa, NoKey, n.cp.lan, n.cp.ltx, FALSE)]

CP_ABANDON(n) ==
  LET cp1 == [n.cp EXCEPT !.state = "ABANDON", !.lrx = FALSE, !.lki = NoKey,
                !.new_sak = FALSE]
      sa1 == set_latest_sa_attr(n.sa, n.cp.lki, n.cp.lan, n.cp.ltx, FALSE)
      sa2 == delete_sas(sa1, n.cp.lki)
  IN  [cp |-> cp1, sa |-> set_latest_sa_attr(sa2, NoKey, n.cp.lan, n.cp.ltx, FALSE)]

CP_RETIRE(n) ==
  LET cp1 == [n.cp EXCEPT !.state = "RETIRE", !.oki = NoKey, !.orx = FALSE, !.otx = FALSE]
  IN  [cp |-> cp1, sa |-> set_old_sa_attr(n.sa, NoKey, cp1.oan, FALSE, FALSE)]

-----------------------------------------------------------------------------
(* One pass of SM_STEP(CP).  In RECEIVING and READY the second condition    *)
(* is tested after the first state was entered.                            *)

StepCHANGE(n) ==
  CASE n.cp.connect = "UNAUTHENTICATED" -> CP_ALLOWED(n)
    [] n.cp.connect = "AUTHENTICATED"   -> CP_AUTHENTICATED(n)
    [] n.cp.connect = "SECURE"          -> CP_SECURED(n)
    [] OTHER                            -> n

StepSecured(n) ==       \* the SECURED and RETIRE cases
  IF changed_connect(n.cp) THEN CP_CHANGE(n)
  ELSE IF n.cp.new_sak THEN CP_RECEIVE(n) ELSE n

(* A variant in which a supplicant does not wait for the key server. *)
ReceivingTransmits(n) ==
  LET m == IF n.cp.new_sak \/ changed_connect(n.cp) THEN CP_ABANDON(n) ELSE n
  IN  IF ~m.cp.elected_self \/ m.cp.all_receiving \/ ~m.cp.transmit_when
      THEN CP_TRANSMIT(m) ELSE m

StepRECEIVING(n) ==
  LET m == IF n.cp.new_sak \/ changed_connect(n.cp) THEN CP_ABANDON(n) ELSE n
  IN  IF ~m.cp.elected_self THEN CP_READY(m)
      ELSE IF m.cp.all_receiving \/ ~m.cp.transmit_when THEN CP_TRANSMIT(m) ELSE m

StepREADY(n) ==
  LET m == IF n.cp.new_sak \/ changed_connect(n.cp) THEN CP_RECEIVE(n) ELSE n
  IN  IF m.cp.server_transmitting THEN CP_TRANSMIT(m) ELSE m

StepABANDON(n) ==
  IF changed_connect(n.cp) THEN CP_RETIRE(n)
  ELSE IF n.cp.new_sak THEN CP_RECEIVE(n) ELSE n

SM_STEP(n) ==
  CASE n.cp.state = "INIT"          -> CP_CHANGE(n)
    [] n.cp.state = "CHANGE"        -> StepCHANGE(n)
    [] n.cp.state = "ALLOWED"       -> IF n.cp.connect # "UNAUTHENTICATED" THEN CP_CHANGE(n) ELSE n
    [] n.cp.state = "AUTHENTICATED" -> IF n.cp.connect # "AUTHENTICATED" THEN CP_CHANGE(n) ELSE n
    [] n.cp.state = "SECURED"       -> StepSecured(n)
    [] n.cp.state = "RECEIVE"       -> IF n.cp.using_receive_sas THEN CP_RECEIVING(n) ELSE n
    [] n.cp.state = "RECEIVING"     -> StepRECEIVING(n)
    [] n.cp.state = "READY"         -> StepREADY(n)
    [] n.cp.state = "TRANSMIT"      -> IF n.cp.using_transmit_sa THEN CP_TRANSMITTING(n) ELSE n
    [] n.cp.state = "TRANSMITTING"  -> IF ~n.cp.retire_when \/ changed_connect(n.cp)
                                       THEN CP_RETIRE(n) ELSE n
    [] n.cp.state = "ABANDON"       -> StepABANDON(n)
    [] n.cp.state = "RETIRE"        -> StepSecured(n)

(* ieee802_1x_cp_sm_init: the zeroed structure, SM_ENTER(CP, INIT) and one  *)
(* pass of SM_STEP.                                                        *)
InitialCp(cipher) ==
  [ state |-> "INIT", connect |-> "PENDING", chgd_server |-> FALSE, elected_self |-> FALSE,
    cipher |-> cipher, current_cipher |-> cipher,
    new_sak |-> FALSE, dki |-> NoKey, dan |-> 0,
    using_receive_sas |-> FALSE, all_receiving |-> FALSE,
    server_transmitting |-> FALSE, using_transmit_sa |-> FALSE,
    lki |-> NoKey, lan |-> 0, ltx |-> FALSE, lrx |-> FALSE,
    oki |-> NoKey, oan |-> 0, otx |-> FALSE, orx |-> FALSE,
    protect_frames |-> TRUE, port_valid |-> FALSE, controlled_port |-> FALSE,
    transmit_when |-> FALSE, retire_when |-> FALSE,
    step_timer |-> FALSE, transmit_timer |-> NoTimer, retire_timer |-> NoTimer,
    new_info |-> FALSE, fault |-> FALSE ]

cp_sm_init(cipher, sa) == SM_STEP(CP_INIT([cp |-> InitialCp(cipher), sa |-> sa]))
==============================================================================
