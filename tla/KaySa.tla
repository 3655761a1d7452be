-------------------------------- MODULE KaySa --------------------------------
(***************************************************************************)
(* The keys and secure associations (SAs) a KaY participant owns, and the  *)
(* functions of src/src/pae/ieee802_1x_kay.c that the CP state machine and *)
(* the participant call to manage them.  Each operator maps the record sa  *)
(* (the part of struct ieee802_1x_mka_participant named below) to the      *)
(* record the C function leaves behind.                                    *)
(*                                                                         *)
(*   principal  ieee802_1x_kay_get_principal_participant() is not NULL     *)
(*   sak        sak_list: the AN of each listed SAK, NoAN if not listed    *)
(*   user       data_key.user, the reference count; 0 once freed           *)
(*   new_key    the SAK to distribute, NoKey if NULL                       *)
(*   rxsc       the peer has a receive SC (rxsc_list)                      *)
(*   rxsa, txsa the SAK of the SA installed under each AN, NoKey if none   *)
(*   rxuse, txuse  the ANs whose SA is in_use (enabled in the SecY)        *)
(*   lki ... orx   the copy of CP's key attributes sent in MKPDUs          *)
(*                                                                         *)
(* A SAK is named by its key number: the key server numbers its SAKs       *)
(* kay->dist_kn = 1, 2, ... and never reuses a number while the KaY lives, *)
(* so key numbers identify what is_ki_equal compares.  sak_list grows at   *)
(* its head, so the larger a key number the nearer to the head it is.      *)
(***************************************************************************)
EXTENDS Integers

CONSTANT MaxKN            \* bound: SAKs generated in one behaviour

ASSUME MaxKNAssumption == MaxKN \in Nat \ {0}

KN    == 1..MaxKN
NoKey == 0
KI    == 0..MaxKN         \* a key identifier pointer, NoKey for NULL
AN    == 0..3
NoAN  == 4

SaRecord ==
  [ principal : BOOLEAN,
    sak       : [KN -> AN \cup {NoAN}],
    user      : [KN -> Nat],
    new_key   : KI,
    rxsc      : BOOLEAN,
    rxsa      : [AN -> KI],
    txsa      : [AN -> KI],
    rxuse     : SUBSET AN,
    txuse     : SUBSET AN,
    lki : KI, lan : AN, ltx : BOOLEAN, lrx : BOOLEAN,
    oki : KI, oan : AN, otx : BOOLEAN, orx : BOOLEAN,
    to_use_sak : BOOLEAN ]

(* The participant ieee802_1x_kay_create_mka returns: no key, no SC, no SA. *)
FreshSa(principal) ==
  [ principal |-> principal,
    sak       |-> [k \in KN |-> NoAN],
    user      |-> [k \in KN |-> 0],
    new_key   |-> NoKey,
    rxsc      |-> FALSE,
    rxsa      |-> [a \in AN |-> NoKey],
    txsa      |-> [a \in AN |-> NoKey],
    rxuse     |-> {},
    txuse     |-> {},
    lki |-> NoKey, lan |-> 0, ltx |-> FALSE, lrx |-> FALSE,
    oki |-> NoKey, oan |-> 0, otx |-> FALSE, orx |-> FALSE,
    to_use_sak |-> FALSE ]

(***************************************************************************)
(* Reference counting.  A listed SAK starts at 2 (init_data_key, then      *)
(* use_data_key); every SA adds one; a release that leaves 1 or less frees.*)
(***************************************************************************)
use_data_key(user, k) == [user EXCEPT ![k] = @ + 1]

(* A variant that frees too late: the creator's reference is forgotten. *)
DeinitKeepsLast(user, k) ==
  [user EXCEPT ![k] = IF @ - 1 > 0 THEN @ - 1 ELSE 0]

deinit_data_key(user, k) ==
  [user EXCEPT ![k] = IF @ - 1 > 1 THEN @ - 1 ELSE 0]

deinit_if(user, k) == IF k \in KN THEN deinit_data_key(user, k) ELSE user

(* A SAK enters sak_list at the head, generated (new_key) or received. *)
AddSak(sa, k, an) ==
  [sa EXCEPT !.sak  = [@ EXCEPT ![k] = an],
             !.user = [@ EXCEPT ![k] = 2]]

(***************************************************************************)
(* Removal of the SA under an AN: disabled and deleted in the SecY, its    *)
(* reference released.                                                     *)
(***************************************************************************)
delete_receive_sa(sa, a) ==
  [sa EXCEPT !.user  = deinit_if(@, sa.rxsa[a]),
             !.rxsa  = [@ EXCEPT ![a] = NoKey],
             !.rxuse = @ \ {a}]

delete_transmit_sa(sa, a) ==
  [sa EXCEPT !.user  = deinit_if(@, sa.txsa[a]),
             !.txsa  = [@ EXCEPT ![a] = NoKey],
             !.txuse = @ \ {a}]

init_receive_sa(sa, a, k) ==
  [sa EXCEPT !.user = use_data_key(@, k), !.rxsa = [@ EXCEPT ![a] = k]]

init_transmit_sa(sa, a, k) ==
  [sa EXCEPT !.user = use_data_key(@, k), !.txsa = [@ EXCEPT ![a] = k]]

(* deinit_receive_sc: the receive SC goes with all its SAs. *)
deinit_receive_sc(sa) ==
  LET d0 == delete_receive_sa(sa, 0)
      d1 == delete_receive_sa(d0, 1)
      d2 == delete_receive_sa(d1, 2)
      d3 == delete_receive_sa(d2, 3)
  IN  IF sa.rxsc THEN [d3 EXCEPT !.rxsc = FALSE] ELSE sa

(* All transmit SAs of the transmit SC are deleted. *)
delete_transmit_sas(sa) ==
  LET d0 == delete_transmit_sa(sa, 0)
      d1 == delete_transmit_sa(d0, 1)
      d2 == delete_transmit_sa(d1, 2)
  IN  delete_transmit_sa(d2, 3)

(***************************************************************************)
(* The interface between CP and KaY.  Without a principal participant      *)
(* every call returns -1 and changes nothing.                              *)
(***************************************************************************)
set_latest_sa_attr(sa, lki, lan, ltx, lrx) ==
  IF sa.principal
  THEN [sa EXCEPT !.lki = lki, !.lan = lan, !.ltx = ltx, !.lrx = lrx]
  ELSE sa

set_old_sa_attr(sa, oki, oan, otx, orx) ==
  IF sa.principal
  THEN [sa EXCEPT !.oki = oki, !.oan = oan, !.otx = otx, !.orx = orx]
  ELSE sa

Listed(sa, k) == k \in KN /\ sa.sak[k] # NoAN

(* Installs the receive SA (if the peer has a receive SC) and the transmit *)
(* SA of SAK k under k's AN, replacing the SAs that had this AN.           *)
create_sas(sa, k) ==
  IF sa.principal /\ Listed(sa, k)
  THEN LET a  == sa.sak[k]
           rx == IF sa.rxsc
                 THEN init_receive_sa(delete_receive_sa(sa, a), a, k)
                 ELSE sa
       IN  [init_transmit_sa(delete_transmit_sa(rx, a), a, k)
              EXCEPT !.to_use_sak = TRUE]
  ELSE sa

(* The loop over sak_list stops at the key it deletes: new_key is cleared  *)
(* when it points to a key met before that one, and kept when it points to *)
(* the deleted key itself.                                                 *)
NewKeyAfterDelete(sa, k) ==
  IF sa.new_key # NoKey /\ Listed(sa, sa.new_key)
     /\ (Listed(sa, k) => sa.new_key > k)
  THEN NoKey
  ELSE sa.new_key

(* Deletes the SAs under AN a that use SAK k. *)
DeleteSasAt(sa, a, k) ==
  LET tx == IF sa.txsa[a] = k THEN delete_transmit_sa(sa, a) ELSE sa
  IN  IF tx.rxsa[a] = k THEN delete_receive_sa(tx, a) ELSE tx

(* Deletes every SA that uses SAK k, then takes k out of sak_list. *)
delete_sas(sa, k) ==
  LET d0 == DeleteSasAt(sa, 0, k)
      d1 == DeleteSasAt(d0, 1, k)
      d2 == DeleteSasAt(d1, 2, k)
      d3 == DeleteSasAt(d2, 3, k)
      d  == [d3 EXCEPT !.new_key = NewKeyAfterDelete(sa, k)]
  IN  IF ~sa.principal \/ k \notin KN
      THEN sa
      ELSE IF Listed(sa, k)
      THEN [d EXCEPT !.sak  = [@ EXCEPT ![k] = NoAN],
                     !.user = deinit_data_key(@, k)]
      ELSE d

(* The ANs under which SAK k has a receive, a transmit SA. *)
RxAnsOf(sa, k) == {a \in AN : k # NoKey /\ sa.rxsc /\ sa.rxsa[a] = k}
TxAnsOf(sa, k) == {a \in AN : k # NoKey /\ sa.txsa[a] = k}

(***************************************************************************)
(* What reference counting promises: a SAK nobody refers to is freed, and  *)
(* any other is kept, with one count per list entry and per SA besides the *)
(* one of its creation.                                                    *)
(***************************************************************************)
One(b) == IF b THEN 1 ELSE 0

InstalledAt(f, k) == One(f[0] = k) + One(f[1] = k) + One(f[2] = k) + One(f[3] = k)

References(sa, k) ==
  One(sa.sak[k] # NoAN) + InstalledAt(sa.rxsa, k) + InstalledAt(sa.txsa, k)

CountedAt(user, refs) == user = IF refs = 0 THEN 0 ELSE refs + 1

ReferencesCounted(sa) == \A k \in KN : CountedAt(sa.user[k], References(sa, k))
==============================================================================
