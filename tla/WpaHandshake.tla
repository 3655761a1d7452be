------------------------------ MODULE WpaHandshake ------------------------------
(***************************************************************************)
(* The WPA authenticator of one access point with its stations: a pair of  *)
(* state machines for each station (WpaAuthSm), the group key state        *)
(* machine they share, and a supplicant at every station (WpaSupp).        *)
(*                                                                         *)
(* The frames between them are delivered in order or lost; those of an     *)
(* earlier association may still be under way when the next one begins.    *)
(* wpa_sm_step is a loop that nothing else of the program interrupts: one  *)
(* round of it is an action, and while it runs (run.st) nothing else is    *)
(* done.  So is the walk of a group rekeying over the stations (run.todo); *)
(* when a station has asked for it, its own loop follows (run.next).       *)
(*                                                                         *)
(* A group key is known by what it is to the authenticator: "use" is the   *)
(* one in its driver, "new" the one being distributed, "stale" any other.  *)
(***************************************************************************)
EXTENDS Naturals, Sequences, FiniteSets, WpaSupp

CONSTANTS
  Stations,
  Kinds,          \* which kinds of supplicant there are
  Pmks,           \* which master keys the supplicants have
  MaxAssoc,       \* how often stations associate
  Events,         \* what else may happen: the group key ("gtk") or a pairwise
                  \* key ("ptk") is renewed, a station asks for another group
                  \* key ("grequest") or leaves ("leave"), a session times out
                  \* ("session"), a driver refuses a key ("driver")
  MaxEvents,      \* how many of all these, and how many where a supplicant is
  MaxEventsOther, \* not "steady" or has not the right key
  CAP             \* frames under way in one direction

NoOne == "no one"     \* run.st when no step loop is running

ASSUME HandshakeAssumption ==
  /\ IsFiniteSet(Stations) /\ NoOne \notin Stations
  /\ MaxAssoc \in Nat /\ MaxEvents \in Nat /\ MaxEventsOther \in Nat
  /\ CAP \in Nat \ {0}

VARIABLES
  sm,         \* struct wpa_state_machine of every station
  sup,        \* struct wpa_sm at every station
  down, up,   \* frames to and from every station
  group,      \* struct wpa_group
  run,        \* what the authenticator is in the middle of
  rand,       \* the next random nonce
  left,       \* how often stations may still associate, how many events
              \* may still happen
  crossed     \* history: [ptk, gtk], the stations whose pairwise handshake
              \* began, or whose group key was replaced, while a group key was
              \* on its way to them

vars == <<sm, sup, down, up, group, run, rand, left, crossed>>

Idle == run.st = NoOne /\ run.todo = {} /\ ~run.rekey

CurrentGtk == [idx |-> group.gn, key |-> IF group.state = "SETKEYS" THEN "new" ELSE "use"]

Init ==
  /\ sm = [s \in Stations |-> NoStation]
  /\ sup \in [Stations -> {NotAssociated(k, p) : k \in Kinds, p \in Pmks}]
  /\ down = [s \in Stations |-> <<>>]
  /\ up = [s \in Stations |-> <<>>]
  /\ group = [state |-> "SETKEYSDONE", GTKReKey |-> FALSE, done |-> 0, gn |-> 1]
  /\ run = [st |-> NoOne, free |-> FALSE, todo |-> {}, rekey |-> FALSE, next |-> NoOne]
  /\ rand = 1
  /\ left = [assoc |-> MaxAssoc,
             events |-> IF \A s \in Stations : sup[s].kind = "steady" /\ sup[s].pmk = PSK
                        THEN MaxEvents ELSE MaxEventsOther]
  /\ crossed = [ptk |-> {}, gtk |-> {}]

-----------------------------------------------------------------------------
(* The link: what does not fit any more is lost.                           *)
Put(queue, frames) ==
  LET all == queue \o frames
  IN  SubSeq(all, 1, IF Len(all) < CAP THEN Len(all) ELSE CAP)

(* wpa_group_setkeysdone and wpa_group_setkeys: what the keys that were    *)
(* handed out are from now on.                                             *)
AfterSetkeysdone(key) ==
  CASE key = "new" -> "use" [] key = "use" -> "stale" [] OTHER -> key
AfterSetkeys(key) == IF key = "new" THEN "stale" ELSE key

Relabelled(Now(_), queues) ==
  [s \in Stations |-> [i \in DOMAIN queues[s] |->
     [queues[s][i] EXCEPT !.gtk = {[g EXCEPT !.key = Now(g.key)] : g \in @}]]]
RelabelledKeys(Now(_)) ==
  [s \in Stations |-> [sup[s] EXCEPT !.gtk = [i \in {1, 2} |-> Now(@[i])]]]

Happens(event) ==
  event \in Events /\ left.events > 0 /\ left' = [left EXCEPT !.events = @ - 1]

(* The step loop begins for a station of the new state m.                  *)
Begin(s, m) ==
  /\ sm' = [sm EXCEPT ![s] = m]
  /\ run' = [run EXCEPT !.st = s]

-----------------------------------------------------------------------------
(* One round of wpa_sm_step.  The group machine moves on when no station   *)
(* is waited for.  The round is the last one (over) if another would enter *)
(* no state; ok: the driver takes a pairwise key.                          *)
Round(s, x) ==
  LET setkeysdone == group.state = "SETKEYS" /\ x.done = 0
      sent == [down EXCEPT ![s] = Put(@, x.out)]
      over == PtkTarget(x.sm) = None /\ GroupTarget(x.sm) = None
  IN  /\ sm' = [sm EXCEPT ![s] = IF over /\ run.free THEN NoStation ELSE x.sm]
      /\ group' = [group EXCEPT !.done = x.done,
                     !.state = IF setkeysdone THEN "SETKEYSDONE" ELSE @]
      /\ down' = IF setkeysdone THEN Relabelled(AfterSetkeysdone, sent) ELSE sent
      /\ sup' = IF setkeysdone THEN RelabelledKeys(AfterSetkeysdone) ELSE sup
      /\ run' = IF over THEN [run EXCEPT !.st = NoOne, !.free = FALSE] ELSE run
      /\ rand' = x.rand
      /\ crossed' = [crossed EXCEPT !.ptk =
           IF x.sm.ptk = "PTKSTART" /\ x.sm.grp = "REKEYNEGOTIATING"
           THEN @ \cup {s} ELSE @]
      /\ UNCHANGED up

wpa_sm_step(s) ==
  /\ run.st = s
  /\ \E ok \in BOOLEAN :
       \E y \in {PtkRound([sm |-> sm[s], done |-> group.done, out |-> <<>>, rand |-> rand],
                          CurrentGtk, ok)} :
         /\ \/ ok /\ UNCHANGED left
            \/ ~ok /\ PtkTarget(sm[s]) = "PTKINITDONE" /\ Happens("driver")
         /\ \E x \in {GroupRound(y, CurrentGtk)} : Round(s, x)

-----------------------------------------------------------------------------
(* wpa_rekey_gtk: the group machine is stepped until it rests.             *)
wpa_rekey_gtk ==
  /\ Idle
  /\ Happens("gtk")
  /\ group' = [group EXCEPT !.GTKReKey = TRUE]
  /\ run' = [run EXCEPT !.rekey = TRUE]
  /\ UNCHANGED <<sm, sup, down, up, rand, crossed>>

(* A new group key under the other index; every station that is known is   *)
(* visited next (wpa_auth_for_each_sta).                                   *)
wpa_group_setkeys ==
  /\ group' = [state |-> "SETKEYS", GTKReKey |-> FALSE, done |-> 0, gn |-> 3 - group.gn]
  /\ run' = [run EXCEPT !.todo = {s \in Stations : sm[s].started}]
  /\ down' = Relabelled(AfterSetkeys, down)
  /\ sup' = RelabelledKeys(AfterSetkeys)
  /\ crossed' = [crossed EXCEPT !.gtk = @ \cup
       {s \in Stations : \/ /\ sm[s].ptk \in {"PTKCALCNEGOTIATING", "PTKINITNEGOTIATING"}
                            /\ sm[s].PTK_valid
                         \/ sm[s].grp = "REKEYNEGOTIATING"}]
  /\ UNCHANGED sm

wpa_group_setkeysdone ==
  /\ group' = [group EXCEPT !.state = "SETKEYSDONE"]
  /\ down' = Relabelled(AfterSetkeysdone, down)
  /\ sup' = RelabelledKeys(AfterSetkeysdone)
  /\ UNCHANGED <<run, crossed>>

wpa_group_sm_step ==
  /\ run.rekey /\ run.st = NoOne /\ run.todo = {}
  /\ \/ /\ group.state = "SETKEYS" /\ group.done = 0
        /\ wpa_group_setkeysdone
        /\ UNCHANGED sm
     \/ /\ group.GTKReKey
        /\ ~(group.state = "SETKEYS" /\ group.done = 0)
        /\ wpa_group_setkeys
     \/ /\ ~group.GTKReKey
        /\ ~(group.state = "SETKEYS" /\ group.done = 0)
        /\ run' = [run EXCEPT !.rekey = FALSE, !.st = run.next, !.next = NoOne]
        /\ UNCHANGED <<sm, sup, down, group, crossed>>
  /\ UNCHANGED <<up, rand, left>>

(* Variant: a station whose handshake is not complete is counted too.      *)
UpdateStaCountsAll(s) ==
  /\ run.st = NoOne /\ s \in run.todo
  /\ sm' = [sm EXCEPT ![s].GUpdateStationKeys = TRUE]
  /\ group' = [group EXCEPT !.done = @ + 1]
  /\ run' = [run EXCEPT !.todo = @ \ {s},
                        !.st = IF sm[s].ptk = "PTKINITDONE" THEN s ELSE NoOne]
  /\ UNCHANGED <<sup, down, up, rand, left, crossed>>

wpa_group_update_sta(s) ==
  /\ run.st = NoOne /\ s \in run.todo
  /\ \/ /\ sm[s].ptk # "PTKINITDONE"
        /\ sm' = [sm EXCEPT ![s].GUpdateStationKeys = FALSE]
        /\ run' = [run EXCEPT !.todo = @ \ {s}]
        /\ UNCHANGED group
     \/ /\ sm[s].ptk = "PTKINITDONE"
        /\ sm' = [sm EXCEPT ![s].GUpdateStationKeys = TRUE]
        /\ group' = [group EXCEPT !.done = @ + 1]
        /\ run' = [run EXCEPT !.todo = @ \ {s}, !.st = s]
  /\ UNCHANGED <<sup, down, up, rand, left, crossed>>

-----------------------------------------------------------------------------
(* The station authenticates and associates, anew or again.  The events    *)
(* WPA_AUTH and WPA_ASSOC remove the pairwise key; for a station that was  *)
(* associated WPA_REAUTH follows, for others wpa_auth_sta_associated.      *)
Associate(s) ==
  LET x == [sm |-> wpa_remove_ptk(sm[s]), done |-> group.done, out |-> <<>>, rand |-> rand]
  IN  /\ Idle /\ left.assoc > 0 /\ left.events > 0
      /\ left' = [left EXCEPT !.assoc = @ - 1, !.events = @ - 1]
      /\ sup' = [sup EXCEPT ![s] = wpa_sm_notify_assoc(
                   IF @.assoc THEN wpa_sm_notify_disassoc(@) ELSE @)]
      /\ IF sm[s].assoc
         THEN /\ Begin(s, EventReauth(x).sm)
              /\ group' = [group EXCEPT !.done = EventReauth(x).done]
         ELSE /\ Begin(s, [wpa_auth_sta_associated(x.sm) EXCEPT !.assoc = TRUE])
              /\ UNCHANGED group
      /\ UNCHANGED <<down, up, rand, crossed>>

(* An EAPOL-Key frame or a deauthentication frame (handle_deauth: the      *)
(* station is forgotten) arrives at the access point.  A Request that is   *)
(* not for a pairwise key rekeys the group (wpa_rekey_gtk) before the      *)
(* station's loop, or does nothing if it names another station.  (The code *)
(* notes rx and SNonce after that rekeying, which reads neither: it finds  *)
(* no frame waiting either way.)                                           *)
APReceive(s) ==
  /\ Idle /\ up[s] # <<>>
  /\ up' = [up EXCEPT ![s] = Tail(@)]
  /\ LET m == Head(up[s])
     IN  \/ /\ m.msg = "deauth" /\ sm[s].started
            /\ sm' = [sm EXCEPT ![s] = [EventDeauth(@) EXCEPT !.assoc = FALSE]]
            /\ run' = [run EXCEPT !.st = s, !.free = TRUE]
            /\ UNCHANGED group
         \/ /\ m.msg # "deauth" /\ sm[s].assoc /\ Expected(sm[s], m)
            /\ \/ /\ MicRefused(sm[s], m)
                  /\ sm' = [sm EXCEPT ![s].MICVerified = FALSE]
                  /\ UNCHANGED <<run, group>>
               \/ /\ ~MicRefused(sm[s], m)
                  /\ Begin(s, wpa_receive(sm[s], m))
                  /\ UNCHANGED group
               \/ /\ ~MicRefused(sm[s], m) /\ m.msg = "grequest"
                  /\ sm' = [sm EXCEPT ![s] = wpa_receive(@, m)]
                  /\ group' = [group EXCEPT !.GTKReKey = TRUE]
                  /\ run' = [run EXCEPT !.rekey = TRUE, !.next = s]
         \/ /\ IF m.msg = "deauth" THEN ~sm[s].started
               ELSE ~sm[s].assoc \/ ~Expected(sm[s], m)
            /\ UNCHANGED <<sm, run, group>>
  /\ UNCHANGED <<sup, down, rand, left, crossed>>

StaReceive(s) ==
  /\ Idle /\ down[s] # <<>>
  /\ \E ok \in BOOLEAN :
       LET m == Head(down[s])
           x == [sup |-> sup[s], out |-> <<>>, rand |-> rand]
       IN  /\ \/ ok /\ UNCHANGED left
              \/ ~ok /\ m.msg \in {"3/4", "1/2"} /\ Happens("driver")
           /\ \E y \in {IF ~sup[s].assoc THEN x
                        ELSE IF m.msg = "deauth"
                        THEN [x EXCEPT !.sup = wpa_sm_notify_disassoc(@)]
                        ELSE wpa_sm_rx_eapol(x, m, ok)} :
                /\ sup' = [sup EXCEPT ![s] = y.sup]
                /\ up' = [up EXCEPT ![s] = Put(@, y.out)]
                /\ rand' = y.rand
  /\ down' = [down EXCEPT ![s] = Tail(@)]
  /\ UNCHANGED <<sm, group, run, crossed>>

Lose(s) ==
  /\ Idle
  /\ \/ /\ down[s] # <<>>
        /\ down' = [down EXCEPT ![s] = Tail(@)]
        /\ UNCHANGED up
     \/ /\ up[s] # <<>>
        /\ up' = [up EXCEPT ![s] = Tail(@)]
        /\ UNCHANGED down
  /\ UNCHANGED <<sm, sup, group, run, rand, left, crossed>>

Timeout(s) ==
  /\ Idle /\ sm[s].timers > 0
  /\ Begin(s, wpa_send_eapol_timeout(sm[s]))
  /\ UNCHANGED <<sup, down, up, group, rand, left, crossed>>

wpa_rekey_ptk(s) ==
  /\ Idle /\ sm[s].rekey
  /\ Happens("ptk")
  /\ Begin(s, wpa_request_new_ptk(sm[s]))
  /\ UNCHANGED <<sup, down, up, group, rand, crossed>>

(* The station asks for a new key (wpa_supplicant itself never asks for a  *)
(* group key), or leaves.                                                  *)
KeyRequest(s) ==
  /\ Idle /\ sup[s].assoc /\ sup[s].ptk # NoKey
  /\ \E msg \in Requests :
       LET x == wpa_sm_key_request([sup |-> sup[s], out |-> <<>>, rand |-> rand], msg)
       IN  /\ Happens(IF msg = "request" THEN "ptk" ELSE msg)
           /\ sup' = [sup EXCEPT ![s] = x.sup]
           /\ up' = [up EXCEPT ![s] = Put(@, x.out)]
  /\ UNCHANGED <<sm, down, group, run, rand, crossed>>

Leave(s) ==
  LET x == wpa_sm_deauthenticate([sup |-> sup[s], out |-> <<>>, rand |-> rand])
  IN  /\ Idle /\ sup[s].assoc
      /\ Happens("leave")
      /\ sup' = [sup EXCEPT ![s] = x.sup]
      /\ up' = [up EXCEPT ![s] = Put(@, x.out)]
      /\ UNCHANGED <<sm, down, group, run, rand, crossed>>

(* Variant: the count is not lowered.                                      *)
FreedUncounted(s) ==
  /\ sm' = [sm EXCEPT ![s] = NoStation]
  /\ UNCHANGED <<group, sup, up, run, rand, crossed>>

(* ap_free_sta, some time after the station was disconnected or when its   *)
(* session is over: wpa_free_sta_sm counts it no more, and the group       *)
(* machine is not stepped.                                                 *)
Freed(s) ==
  /\ group' = [group EXCEPT !.done = IF sm[s].GUpdateStationKeys THEN @ - 1 ELSE @]
  /\ sm' = [sm EXCEPT ![s] = NoStation]
  /\ UNCHANGED <<sup, up, run, rand, crossed>>

ap_handle_timer(s) ==
  /\ Idle /\ sm[s].started /\ ~sm[s].assoc
  /\ Freed(s)
  /\ UNCHANGED <<down, left>>

ap_handle_session_timer(s) ==
  /\ Idle /\ sm[s].assoc
  /\ Happens("session")
  /\ down' = [down EXCEPT ![s] = Put(@, <<DeauthFrame>>)]
  /\ Freed(s)

Next ==
  \/ wpa_rekey_gtk
  \/ wpa_group_sm_step
  \/ \E s \in Stations :
       \/ wpa_sm_step(s)
       \/ wpa_group_update_sta(s)
       \/ Associate(s)
       \/ APReceive(s)
       \/ StaReceive(s)
       \/ Lose(s)
       \/ Timeout(s)
       \/ wpa_rekey_ptk(s)
       \/ KeyRequest(s)
       \/ Leave(s)
       \/ ap_handle_timer(s)
       \/ ap_handle_session_timer(s)

Spec == Init /\ [][Next]_vars

(* A loop goes on to its end, and the event loop runs timers that are due. *)
(* Nothing is assumed of the link or of the supplicants.                   *)
Loops ==
  \/ wpa_group_sm_step
  \/ \E s \in Stations : wpa_sm_step(s) \/ wpa_group_update_sta(s)

Fairness == WF_vars(Loops) /\ \A s \in Stations : WF_vars(Timeout(s))

FairSpec == Spec /\ Fairness

-----------------------------------------------------------------------------
(* Every variable has its type; the counters stay within their bounds.     *)
TypeOK ==
  /\ \A s \in Stations :
       /\ sm[s].TimeoutCtr \in 0 .. PairwiseUpdateCount + 1
       /\ sm[s].GTimeoutCtr \in 0 .. GroupUpdateCount + 1
       /\ \A n \in sm[s].valid : n <= sm[s].ctr /\ n + RSNA_MAX_EAPOL_RETRIES > sm[s].ctr
       /\ Len(down[s]) <= CAP /\ Len(up[s]) <= CAP
  /\ group.state \in {"SETKEYS", "SETKEYSDONE"} /\ group.gn \in {1, 2}
  /\ group.done \in Nat /\ run.st \in Stations \cup {NoOne}

(* GKeyDoneStations counts exactly the stations whose answer is awaited:   *)
(* it is lowered in five places and cleared in one, and the new group key  *)
(* is used when it is zero.  While a rekeying visits the stations, those   *)
(* it has not reached are not counted.                                     *)
Awaited == {s \in Stations \ run.todo : sm[s].GUpdateStationKeys}
GroupCount == group.done = Cardinality(Awaited)

(* A station and the authenticator that both take their handshake for      *)
(* completed have set the same pairwise key, made from the right master    *)
(* key, whatever was lost, sent again or left of an earlier association.   *)
SamePairwiseKey ==
  \A s \in Stations :
    (Idle /\ sm[s].assoc /\ sm[s].ptk = "PTKINITDONE" /\ sup[s].assoc) =>
      /\ sm[s].key = sup[s].key
      /\ sm[s].key # NoKey /\ sm[s].key[1] = PSK

(* The supplicant never sets a key it has already zeroed in memory.        *)
NoClearedKey == \A s \in Stations : sup[s].key # ClearedKey

(* No timeout is left because a Request for a group key cancelled them all *)
(* and moves neither machine; nothing came after it, or a late message 2/4 *)
(* with another SNonce and a MIC that is wrong.                            *)
Unwatched(s) ==
  /\ sm[s].timers = 0
  /\ \/ sm[s].rx = "grequest"
     \/ sm[s].ptk = "PTKCALCNEGOTIATING" /\ sm[s].PTK_valid

(* The authenticator waits for an answer only with a timeout registered,   *)
(* though every verified frame cancels all timeouts of its station.  Only  *)
(* a Request for a group key that comes during a handshake leaves it       *)
(* waiting without one.                                                    *)
WaitsWithTimer ==
  Idle => \A s \in Stations :
    /\ sm[s].ptk \in {"PTKSTART", "PTKCALCNEGOTIATING", "PTKINITNEGOTIATING"}
         => sm[s].timers > 0 \/ Unwatched(s)
    /\ (sm[s].grp = "REKEYNEGOTIATING" /\ s \notin crossed.ptk)
         => sm[s].timers > 0 \/ Unwatched(s)

(* A station that completed its handshakes has the group key the           *)
(* authenticator uses, under the index it uses, unless that key was        *)
(* replaced while an earlier one was on its way to the station.            *)
GroupKeyHeld ==
  \A s \in Stations \ crossed.gtk :
    ( /\ Idle /\ sm[s].assoc /\ sup[s].assoc
      /\ sm[s].ptk = "PTKINITDONE" /\ ~sm[s].GUpdateStationKeys )
      => sup[s].gtk[group.gn] = CurrentGtk.key


(* A group rekeying does not wait for ever for stations, unless a pairwise *)
(* handshake with one began meanwhile or one asked for a group key.        *)
RekeyCompletes ==
  group.done > 0 ~> ( \/ group.done = 0
                      \/ crossed.ptk # {}
                      \/ \E s \in Awaited : Unwatched(s) )

(* hostapd.conf: the group key is renewed in the interval wpa_group_rekey. *)
(* What the access point generates to replace a key is put to use.         *)
GtkRekeyed == group.state = "SETKEYS" ~> group.state = "SETKEYSDONE"

===============================================================================
