---------------------------------- MODULE CP ----------------------------------
(***************************************************************************)
(* The CP state machine under everything its KaY may do to it.             *)
(*                                                                         *)
(* The process is a single eloop thread.  A callback that reaches          *)
(* ieee802_1x_cp_step_run runs SM_STEP until the state stops changing, at  *)
(* most 100 times; nothing else happens meanwhile.  The model takes the    *)
(* passes one at a time: loop is 0 between callbacks and the number of the *)
(* pass about to run inside step_run.  The other actions are the callbacks *)
(* of the KaY: they only set CP's inputs and register step_cb.  They may   *)
(* come in any order the KaY's own guards allow, so that the invariants    *)
(* hold whatever the peer, the network and the clock do.                   *)
(***************************************************************************)
EXTENDS CPMachine

VARIABLES
  node,           \* [cp, sa]: the state machine and the participant's SAs
  loop,           \* 0, or the pass of ieee802_1x_cp_step_run in progress
  lastkn,         \* the SAKs distributed so far are 1..lastkn
  participant,    \* kay->participant_list is not empty
  is_key_server   \* the KaY of the authenticator (hostapd), or of a supplicant

vars == <<node, loop, lastkn, participant, is_key_server>>

MaxPasses == 100          \* the loop bound of ieee802_1x_cp_step_run

cp == node.cp
sa == node.sa

(* The types of the variables, with the timers inside the delays they were *)
(* registered with and the loop inside its bound.                          *)
TypeOK ==
  /\ node \in [cp : CpRecord, sa : SaRecord]
  /\ loop \in 0..MaxPasses
  /\ lastkn \in KI
  /\ participant \in BOOLEAN
  /\ is_key_server \in BOOLEAN

(* hostapd creates its KaY with the first participant, wpa_supplicant      *)
(* creates it when the interface is set up and the participant later.      *)
Init ==
  /\ is_key_server \in BOOLEAN
  /\ participant = is_key_server
  /\ \E c \in Ciphers : node = cp_sm_init(c, FreshSa(is_key_server))
  /\ loop = 0
  /\ lastkn = 0

-----------------------------------------------------------------------------
(* CP's own callbacks.  Idle: the eloop is between two callbacks.          *)

Idle == loop = 0 /\ ~cp.fault

step_cb ==
  /\ Idle /\ cp.step_timer
  /\ node' = [node EXCEPT !.cp.step_timer = FALSE]
  /\ loop' = 1
  /\ UNCHANGED <<lastkn, participant, is_key_server>>

transmit_when_timeout ==
  /\ Idle /\ cp.transmit_timer # NoTimer
  /\ node' = [node EXCEPT !.cp.transmit_timer = NoTimer, !.cp.transmit_when = FALSE]
  /\ loop' = 1
  /\ UNCHANGED <<lastkn, participant, is_key_server>>

retire_when_timeout ==
  /\ Idle /\ cp.retire_timer # NoTimer
  /\ node' = [node EXCEPT !.cp.retire_timer = NoTimer, !.cp.retire_when = FALSE]
  /\ loop' = 1
  /\ UNCHANGED <<lastkn, participant, is_key_server>>

(* One pass of the loop of ieee802_1x_cp_step_run. *)
step_run ==
  /\ loop > 0 /\ ~cp.fault
  /\ LET m == SM_STEP(node)
     IN  /\ node' = [m EXCEPT !.cp.new_info = FALSE]
         /\ loop' = IF m.cp.state = cp.state \/ loop = MaxPasses THEN 0 ELSE loop + 1
  /\ UNCHANGED <<lastkn, participant, is_key_server>>

(* Comparing a NULL key identifier ends the process; a new one starts.     *)
restart ==
  /\ cp.fault
  /\ \E c \in Ciphers : node' = cp_sm_init(c, FreshSa(is_key_server))
  /\ loop' = 0
  /\ lastkn' = 0
  /\ participant' = is_key_server
  /\ UNCHANGED is_key_server

-----------------------------------------------------------------------------
(* What the KaY does to CP, with the change to its SAs that goes with it.  *)

KayCallback(n) == Idle /\ node' = n /\ UNCHANGED <<loop, lastkn, is_key_server>>

(* An EAP success while the KaY exists: its participants are deleted, a    *)
(* new one is created.                                                     *)
reauthenticated ==
  /\ KayCallback([cp |-> [cp EXCEPT !.connect = "UNAUTHENTICATED", !.step_timer = TRUE],
                  sa |-> FreshSa(is_key_server)])
  /\ participant' = TRUE

(* The peer becomes live: receive SC, key server election, and on the key  *)
(* server the decision to use MACsec.  chgd: the key server is not the one *)
(* the KaY knew.  The first hello of a new participant is a later timeout  *)
(* than the step_cb its creation registered, and the peer becomes live by  *)
(* answering a hello, so step_cb has run.                                  *)
peer_live ==
  /\ participant /\ ~sa.rxsc
  /\ cp.connect = "UNAUTHENTICATED" => ~cp.step_timer
  /\ \/ /\ is_key_server
        /\ KayCallback([cp |-> [cp EXCEPT !.elected_self = TRUE, !.connect = "SECURE",
                                          !.step_timer = TRUE],
                        sa |-> [sa EXCEPT !.rxsc = TRUE]])
     \/ /\ ~is_key_server
        /\ \E chgd \in BOOLEAN :
             KayCallback([cp |-> [cp EXCEPT !.elected_self = FALSE,
                                            !.chgd_server = @ \/ chgd,
                                            !.step_timer = @ \/ chgd],
                          sa |-> [sa EXCEPT !.rxsc = TRUE, !.principal = TRUE]])
  /\ UNCHANGED participant

(* A variant that does not register step_cb. *)
ExpiredWithoutStep ==
  /\ sa.rxsc
  /\ KayCallback([cp |-> [cp EXCEPT !.connect = "AUTHENTICATED"],
                  sa |-> [delete_transmit_sas(deinit_receive_sc(sa))
                            EXCEPT !.to_use_sak = FALSE]])
  /\ UNCHANGED participant

(* The last live peer timed out. *)
peer_expired ==
  /\ sa.rxsc
  /\ KayCallback([cp |-> [cp EXCEPT !.connect = "AUTHENTICATED", !.step_timer = TRUE],
                  sa |-> [delete_transmit_sas(deinit_receive_sc(sa))
                            EXCEPT !.to_use_sak = FALSE]])
  /\ UNCHANGED participant

(* The participant had no live peer within its life time. *)
participant_deleted ==
  /\ participant /\ ~sa.rxsc
  /\ KayCallback([cp |-> cp, sa |-> FreshSa(FALSE)])
  /\ participant' = FALSE

(* The key server distributes an empty SAK: it advises against MACsec.     *)
no_macsec ==
  /\ ~is_key_server /\ sa.principal /\ sa.rxsc
  /\ KayCallback([cp |-> [cp EXCEPT !.connect = "AUTHENTICATED", !.step_timer = TRUE],
                  sa |-> [sa EXCEPT !.to_use_sak = TRUE]])
  /\ UNCHANGED participant

(* A SAK for CP: generate_new_sak on the key server, the Distributed SAK   *)
(* handler on its peer.                                                    *)
distribute_sak ==
  /\ Idle
  /\ sa.principal /\ sa.rxsc /\ lastkn < MaxKN
  /\ \E c \in Ciphers :
       LET k  == lastkn + 1
           an == lastkn % 4
       IN  node' = [cp |-> [cp EXCEPT !.connect = IF is_key_server THEN @ ELSE "SECURE",
                                      !.cipher = c, !.dki = k, !.dan = an,
                                      !.new_sak = TRUE, !.step_timer = TRUE],
                    sa |-> [AddSak(sa, k, an)
                              EXCEPT !.new_key = IF is_key_server THEN k ELSE @,
                                     !.to_use_sak = @ \/ ~is_key_server]]
  /\ lastkn' = lastkn + 1
  /\ UNCHANGED <<loop, participant, is_key_server>>

(* The Distributed SAK handler connects before it finds that the SAK is    *)
(* in sak_list already: the key server repeats it until it is used.  (The  *)
(* key server offers suites of cipher_suite_tbl only, so no SAK is refused.)*)
sak_installed ==
  /\ ~is_key_server /\ sa.principal /\ sa.rxsc
  /\ \E k \in KN : Listed(sa, k)
  /\ KayCallback([node EXCEPT !.cp.connect = "SECURE", !.cp.step_timer = TRUE])
  /\ UNCHANGED participant

(* A SAK Use parameter set arrived: every live peer uses the SAK. *)
all_receiving ==
  /\ sa.principal /\ sa.rxsc
  /\ KayCallback([node EXCEPT !.cp.all_receiving = TRUE, !.cp.step_timer = TRUE])
  /\ UNCHANGED participant

(* A SAK Use parameter set arrived: the key server transmits. *)
server_transmitting ==
  /\ ~is_key_server /\ sa.principal /\ sa.rxsc
  /\ KayCallback([node EXCEPT !.cp.server_transmitting = TRUE, !.cp.step_timer = TRUE])
  /\ UNCHANGED participant

Next ==
  \/ step_cb \/ transmit_when_timeout \/ retire_when_timeout \/ step_run \/ restart
  \/ reauthenticated \/ peer_live \/ peer_expired \/ participant_deleted
  \/ no_macsec \/ distribute_sak \/ sak_installed
  \/ all_receiving \/ server_transmitting

(* The eloop runs every registered timeout and every pass of a loop. *)
Fairness ==
  /\ WF_vars(step_cb) /\ WF_vars(step_run)
  /\ WF_vars(transmit_when_timeout) /\ WF_vars(retire_when_timeout)

Spec == Init /\ [][Next]_vars /\ Fairness

-----------------------------------------------------------------------------
(* The enabled transitions of the state machine are served: between        *)
(* callbacks either step_cb is registered or a pass would change nothing.  *)
(* Every setter of CP must be followed by ieee802_1x_cp_sm_step, and the   *)
(* loop of ieee802_1x_cp_step_run must not be cut short by its bound.      *)
NoLostWakeup == Idle => cp.step_timer \/ SM_STEP(node) = node

(* ieee802_1x_cp_step_run reaches a stable state in a few passes: the      *)
(* bound of 100 never hides a cycle of the state machine.                  *)
StepRunConverges == loop <= 7

(* Frames pass the controlled port unprotected only in the two states that *)
(* mean it, ALLOWED and AUTHENTICATED; a port reported valid protects.     *)
ProtectedPort ==
  /\ cp.controlled_port /\ ~cp.protect_frames => cp.state \in {"ALLOWED", "AUTHENTICATED"}
  /\ cp.port_valid => cp.protect_frames

(* Every SAK has one reference per list entry and per SA, plus the one it  *)
(* was created with, and is freed exactly when nobody refers to it.        *)
KeysCounted == ReferencesCounted(sa)

(* A key is announced as receiving (lrx, on which the key server starts to *)
(* transmit) only when its receive SA has been enabled in the SecY, and    *)
(* the machine is TRANSMITTING, where it retires the old key, only when    *)
(* the latest key's transmit SA has been: no stale using_receive_sas or    *)
(* using_transmit_sa from an earlier key lets CP pass RECEIVE or TRANSMIT. *)
AnnouncedSasEnabled ==
  [][/\ ~cp.lrx /\ cp'.lrx => \E a \in sa'.rxuse : sa'.rxsa[a] = cp'.lki
     /\ cp.state # "TRANSMITTING" /\ cp'.state = "TRANSMITTING"
          => \E a \in sa'.txuse : sa'.txsa[a] = cp'.lki]_vars

(* A SAK the KaY signals is taken up, or given up, by CP unless the peer   *)
(* is lost or the session replaced meanwhile: struct ieee802_1x_cp_sm says *)
(* of new_sak "clear by CP".                                               *)
NewSakCleared ==
  cp.new_sak /\ cp.connect = "SECURE" ~> ~cp.new_sak \/ cp.connect # "SECURE"
==============================================================================
