----------------------------- MODULE RadiusClient -----------------------------
(***************************************************************************)
(* The RADIUS client of hostapd: requests wait in a list until they are    *)
(* answered, sent again with a growing delay, failed over to another       *)
(* server, or dropped.  One eloop thread runs everything.                  *)
(*                                                                         *)
(* Entries enter the list at its head and never move, so the list is the   *)
(* function msgs from the numbers of the pending requests to their         *)
(* entries, and the order of the list is that of decreasing numbers.       *)
(*                                                                         *)
(* Times are relative to now: wait is next_try - now (0 once that is       *)
(* past), age is now - first_try (at most FIRST_WAIT, nothing tells older  *)
(* ones apart), timers counts the registrations of radius_client_timer by  *)
(* the time left.  The loop of radius_client_timer takes one step for each *)
(* entry it visits; pass holds its local variables and no other action is  *)
(* taken meanwhile.                                                        *)
(*                                                                         *)
(* Whether a socket can be created or connected and whether send() fails   *)
(* is up to the environment.  An answer may come at any time, or never;    *)
(* whether it is the right one is for the handlers to verify.              *)
(***************************************************************************)
EXTENDS Naturals, FiniteSets

CONSTANTS
  MaxReq,         \* bound: how many requests are made
  Addr,           \* station addresses
  NumIds,         \* 256, the values of the one-octet identifier
  FIRST_WAIT, MAX_WAIT, MAX_RETRIES, MAX_ENTRIES, NUM_FAILOVER,
  NumServers,     \* how many servers of a kind may be configured
  Differ,         \* whether their shared secrets may differ
  Primary         \* whether retry_primary_interval may be set

ASSUME RadiusAssumption ==
  /\ MaxReq \in Nat /\ NumIds \in Nat \ {0} /\ MAX_ENTRIES \in Nat \ {0}
  /\ FIRST_WAIT \in Nat \ {0} /\ MAX_WAIT \in Nat /\ 2 * FIRST_WAIT <= MAX_WAIT
  /\ NUM_FAILOVER \in Nat \ {0} /\ MAX_RETRIES \in Nat /\ NUM_FAILOVER < MAX_RETRIES
  /\ NumServers \subseteq {1, 2} /\ Differ \subseteq BOOLEAN /\ Primary \subseteq BOOLEAN

Requests == 1..MaxReq
Kinds == {"auth", "acct"}
Types == {"auth", "acct", "interim"}
Kind(type) == IF type = "auth" THEN "auth" ELSE "acct"

Ids == 0..(NumIds - 1)
Delays == 0..MAX_WAIT
Unset == MAX_WAIT + 1     \* the initial value of first

(* num: how many servers there are of each kind; differ: their shared      *)
(* secrets are all different (otherwise all the same); primary:            *)
(* retry_primary_interval is set.  With one server both are idle.          *)
Conf == {x \in [num : NumServers, differ : Differ, primary : Primary] :
           x.num = 1 => ~x.differ /\ ~x.primary}

Servers == {1, 2}

VARIABLES
  conf,      \* the configuration
  c,         \* struct radius_client_data, the sockets and timers with it
  pass,      \* the loop of radius_client_timer
  last,      \* the requests made so far are 1..last
  answers    \* history: how many answers to a request reached its handler

vars == <<conf, c, pass, last, answers>>

Entry == [type : Types, addr : Addr, id : Ids, secret : Servers,
          attempts : 0..MAX_RETRIES, wait : Delays, next_wait : Delays,
          age : 0..FIRST_WAIT]

NULL == 0      \* no entry, in the pointers of the loop
Idle == [state |-> "idle", entry |-> NULL, prev |-> NULL,
         failover |-> {}, first |-> Unset]

-----------------------------------------------------------------------------
(* Timers and removals.                                                    *)

NoTimer == [d \in Delays |-> 0]
register_timeout(x, d) == [x EXCEPT !.timers[d] = @ + 1]
cancel_timeout(x) == [x EXCEPT !.timers = NoTimer]

(* The list without the entries of gone.                                   *)
Without(x, gone) ==
  [x EXCEPT !.msgs = [r \in DOMAIN x.msgs \ gone |-> x.msgs[r]]]

(* The list with e as the entry of r.                                      *)
With(x, r, e) ==
  [x EXCEPT !.msgs = [q \in {r} \cup DOMAIN x.msgs |-> IF q = r THEN e ELSE x.msgs[q]]]

(* radius_client_flush(only_auth), radius_client_flush_auth: the entries   *)
(* that match are removed and discounted; only the first one cancels the   *)
(* timer of a list it leaves empty.                                        *)
(* Variant: the timer is left when there was nothing to remove.            *)
FlushOfNothing(x, only_auth) ==
  LET gone == {r \in DOMAIN x.msgs : only_auth => x.msgs[r].type = "auth"}
      y == [Without(x, gone) EXCEPT !.num_msgs = @ - Cardinality(gone)]
  IN  IF gone = DOMAIN x.msgs /\ gone # {} THEN cancel_timeout(y) ELSE y

radius_client_flush(x, only_auth) ==
  LET gone == {r \in DOMAIN x.msgs : only_auth => x.msgs[r].type = "auth"}
      y == [Without(x, gone) EXCEPT !.num_msgs = @ - Cardinality(gone)]
  IN  IF gone = DOMAIN x.msgs THEN cancel_timeout(y) ELSE y

radius_client_flush_auth(x, addr) ==
  LET gone == {r \in DOMAIN x.msgs : x.msgs[r].type = "auth" /\ x.msgs[r].addr = addr}
  IN  [Without(x, gone) EXCEPT !.num_msgs = @ - Cardinality(gone)]

(* The identifier handed out is x.next_radius_identifier.  A pending       *)
(* message that has it leaves the list; num_msgs is left alone.            *)
(* Variant: the pending message keeps its place.                           *)
GetIdKeepsOld(x) == [x EXCEPT !.next_radius_identifier = (@ + 1) % NumIds]

radius_client_get_id(x) ==
  [Without(x, {r \in DOMAIN x.msgs : x.msgs[r].id = x.next_radius_identifier})
    EXCEPT !.next_radius_identifier = (@ + 1) % NumIds]

Oldest(reqs) == CHOOSE r \in reqs : \A q \in reqs : r <= q
Newest(reqs) == CHOOSE r \in reqs : \A q \in reqs : q <= r
Behind(x, r) == {q \in DOMAIN x.msgs : q < r}
EntryAfter(x, r) == IF Behind(x, r) = {} THEN NULL ELSE Newest(Behind(x, r))

(* Variant: the timers registered before stay.                             *)
UpdateAddsTimer(x) ==
  IF DOMAIN x.msgs = {} THEN x
  ELSE register_timeout(x, Oldest({x.msgs[r].wait : r \in DOMAIN x.msgs}))

radius_client_update_timeout(x) ==
  IF DOMAIN x.msgs = {} THEN cancel_timeout(x)
  ELSE register_timeout(cancel_timeout(x),
         Oldest({x.msgs[r].wait : r \in DOMAIN x.msgs}))

(* The new entry goes to the head of the list; past the limit the one at   *)
(* the tail, if it is another one, is removed.                             *)
(* Variant: one more than the limit.                                       *)
ListAddOneMore(x, r, e) ==
  LET y == radius_client_update_timeout(With(x, r, e))
  IN  IF x.num_msgs > MAX_ENTRIES
      THEN Without(y, {Oldest(DOMAIN y.msgs)} \ {r})
      ELSE [y EXCEPT !.num_msgs = @ + 1]

radius_client_list_add(x, r, e) ==
  LET y == radius_client_update_timeout(With(x, r, e))
  IN  IF x.num_msgs >= MAX_ENTRIES
      THEN Without(y, {Oldest(DOMAIN y.msgs)} \ {r})
      ELSE [y EXCEPT !.num_msgs = @ + 1]

-----------------------------------------------------------------------------
(* Servers and sockets.  sock: "none" no socket of the kind, "open" one    *)
(* that is not selected (auth_sock, acct_sock = -1), "conn" selected.      *)
(* serv is the current server of the configuration, peer the one that the  *)
(* selected socket is connected to, 0 if to none.  lost is history: the    *)
(* kinds whose selected socket a failed change of server or a reload left  *)
(* behind.  (peer and lost only matter, and are only kept, when the        *)
(* secrets differ.)                                                        *)
Peer(server) == IF conf.differ THEN server ELSE 0
Lost(x, kinds) == {k \in kinds : conf.differ /\ x.sock[k] = "conn"}

(* Variant: pending messages survive the change of the shared secret.      *)
SecretsNeverDiffer(new, old) == FALSE

SecretsDiffer(new, old) == conf.differ /\ new # old

(* Connecting needs a socket and may fail, before the socket is            *)
(* disconnected from the old server ("kept") or behind that ("cut"); then  *)
(* the selection is left.                                                  *)
Failures == {"kept", "cut"}
ConnectResults(x, kind) ==
  IF x.sock[kind] = "none" THEN {"kept"} ELSE Failures \cup {"conn"}

ResetCounters(e) ==
  [e EXCEPT !.attempts = 0, !.wait = FIRST_WAIT - e.age, !.next_wait = 2 * FIRST_WAIT]

(* radius_change_server(new, old) for an old server that is not NULL.      *)
radius_change_server(x, kind, new, old, res) ==
  LET flushed == IF kind = "auth" /\ (new = old \/ SecretsDiffer(new, old))
                 THEN radius_client_flush(x, TRUE) ELSE x
      Update(e) ==
        IF new = old \/ e.type # kind THEN e
        ELSE [ResetCounters(e) EXCEPT
                !.secret = IF SecretsDiffer(new, old) /\ kind = "acct" THEN new ELSE @]
      updated == [flushed EXCEPT
                   !.msgs = [r \in DOMAIN flushed.msgs |-> Update(flushed.msgs[r])],
                   !.serv[kind] = new,
                   !.sock[kind] = IF res = "conn" THEN "conn" ELSE @,
                   !.peer[kind] = IF res = "conn" THEN Peer(new)
                                  ELSE IF res = "cut" THEN 0 ELSE @,
                   !.lost = IF res = "conn" THEN @ \ {kind} ELSE @ \cup Lost(flushed, {kind})]
  IN  IF DOMAIN updated.msgs = {} THEN updated
      ELSE register_timeout(cancel_timeout(updated), FIRST_WAIT)

(* radius_client_init_auth and _acct: the sockets are closed and opened    *)
(* again, then radius_change_server runs with no old server.  With "none"  *)
(* no socket could be opened; with "unread" eloop could not register them  *)
(* afterwards and they are closed, when the timer has been set.            *)
SockStates == {"none", "open", "conn"}
InitResults == SockStates \cup {"unread"}

Sockets(x, kind, res) ==
  [x EXCEPT !.sock[kind] = IF res = "unread" THEN "none" ELSE res,
            !.peer[kind] = IF res = "conn" THEN Peer(x.serv[kind]) ELSE 0,
            !.lost = @ \ {kind}]

(* Variant: the timer is cancelled and not registered again.               *)
InitSockCancels(x, kind, res) == cancel_timeout(Sockets(x, kind, res))

radius_client_init_sock(x, kind, res) ==
  LET y == Sockets(x, kind, res)
  IN  IF res = "none" \/ DOMAIN x.msgs = {} THEN y
      ELSE register_timeout(cancel_timeout(y), FIRST_WAIT)

NextServer(s) == IF s = conf.num THEN 1 ELSE s + 1

(* Variant: the server taken next is not recorded.                         *)
FailoverForgotten(x, kind, res) ==
  [radius_change_server(x, kind, NextServer(x.serv[kind]), x.serv[kind], res)
    EXCEPT !.serv = x.serv]

failover(x, kind, res) ==
  radius_change_server(x, kind, NextServer(x.serv[kind]), x.serv[kind], res)

-----------------------------------------------------------------------------
(* The operations called from outside.                                     *)

Busy == pass.state # "idle"

NewEntry(type, addr, id, secret) ==
  [type |-> type, addr |-> addr, id |-> id, secret |-> secret, attempts |-> 1,
   wait |-> FIRST_WAIT, next_wait |-> 2 * FIRST_WAIT, age |-> 0]

(* What the socket of the kind may be when radius_client_send looks at it. *)
Opened(x, kind) ==
  IF x.sock[kind] = "conn" THEN {x}
  ELSE {radius_client_init_sock(x, kind, res) : res \in InitResults}

(* A caller gets an identifier, builds the message and sends it.  Without  *)
(* a socket it gets -1.  A failing send() may make the client open its     *)
(* sockets again; the message is queued all the same.                      *)
radius_client_send(type, addr) ==
  LET kind == Kind(type)
      id == c.next_radius_identifier
      r == last + 1
  IN  /\ ~Busy /\ last < MaxReq
      /\ last' = r
      /\ \E x \in Opened(radius_client_get_id(c), kind) :
           \/ x.sock[kind] # "conn" /\ c' = x
           \/ LET e == NewEntry(type, addr, id,
                         IF conf.differ THEN x.serv[kind] ELSE 1)
                  y == radius_client_list_add(x, r, e)
              IN  /\ x.sock[kind] = "conn"
                  /\ \/ c' = y
                     \/ \E res \in InitResults :
                          c' = radius_client_list_add(
                                 radius_client_init_sock(x, kind, res), r, e)
      /\ UNCHANGED <<conf, pass, answers>>

(* An answer arrives, on time, late or for the second time: the first      *)
(* pending message of its kind with its identifier leaves the list before  *)
(* the handlers see the answer.  They accept it or, when it is not the     *)
(* answer to that message, do not.  No timer is touched.                   *)
(* Variant: the message answered stays in the list.                        *)
ReceiveKeepsRequest(kind, id) ==
  \E r \in DOMAIN c.msgs :
    /\ ~Busy /\ Kind(c.msgs[r].type) = kind /\ c.msgs[r].id = id
    /\ answers' = [answers EXCEPT ![r] = @ + 1]
    /\ UNCHANGED <<conf, c, pass, last>>

radius_client_receive(kind, id) ==
  LET matching == {r \in DOMAIN c.msgs : Kind(c.msgs[r].type) = kind /\ c.msgs[r].id = id}
      r == Newest(matching)
  IN  /\ ~Busy /\ c.sock[kind] # "none" /\ matching # {}
      /\ c' = [Without(c, {r}) EXCEPT !.num_msgs = @ - 1]
      /\ \/ answers' = [answers EXCEPT ![r] = @ + 1]
         \/ answers' = answers
      /\ UNCHANGED <<conf, pass, last>>

(* A station is freed.                                                     *)
StationFreed(addr) ==
  /\ ~Busy
  /\ c' = radius_client_flush_auth(c, addr)
  /\ UNCHANGED <<conf, pass, last, answers>>

(* The configuration is reloaded: the list is flushed, then                *)
(* radius_client_reconfig installs the configuration, a new one whose      *)
(* current servers are the first ones or, without a file to read, the one  *)
(* there was.  The sockets stay connected as they are.  (The new           *)
(* configuration has the servers of the old one.)                          *)
FirstServers == [k \in Kinds |-> 1]
Reload ==
  /\ ~Busy
  /\ \E serv \in {FirstServers, c.serv} :
       c' = [radius_client_flush(c, FALSE) EXCEPT
               !.serv = serv,
               !.lost = @ \cup Lost(c, {k \in Kinds : serv[k] # c.serv[k]})]
  /\ UNCHANGED <<conf, pass, last, answers>>

(* The client is freed.                                                    *)
radius_client_deinit ==
  /\ ~Busy
  /\ c' = radius_client_flush([c EXCEPT !.sock = [k \in Kinds |-> "none"],
                                       !.peer = [k \in Kinds |-> 0], !.lost = {}], FALSE)
  /\ pass' = [Idle EXCEPT !.state = "freed"]
  /\ UNCHANGED <<conf, last, answers>>

(* Back to the first server, for both kinds in turn.  When it cannot be    *)
(* connected the old one is selected again, as a reconnection to itself.   *)
BackToPrimary(x, kind) ==
  IF x.sock[kind] # "conn" \/ x.serv[kind] = 1 THEN {x}
  ELSE {radius_change_server(x, kind, 1, x.serv[kind], "conn")} \cup
       {radius_change_server(
          radius_change_server(x, kind, 1, x.serv[kind], res),
          kind, x.serv[kind], x.serv[kind], again) :
            res \in Failures, again \in Failures \cup {"conn"}}

radius_retry_primary_timer ==
  /\ ~Busy /\ conf.primary
  /\ \E x \in BackToPrimary(c, "auth") : c' \in BackToPrimary(x, "acct")
  /\ UNCHANGED <<conf, pass, last, answers>>

-----------------------------------------------------------------------------
(* radius_client_timer.                                                    *)

TimerDue == c.timers[0] > 0

radius_client_timer ==
  /\ ~Busy /\ TimerDue
  /\ c' = [c EXCEPT !.timers[0] = @ - 1]
  /\ pass' = IF DOMAIN c.msgs = {} THEN pass
             ELSE [Idle EXCEPT !.state = "loop", !.entry = Newest(DOMAIN c.msgs)]
  /\ UNCHANGED <<conf, last, answers>>

(* The loop goes on without entry r: radius_client_retransmit returned 1.  *)
(* The link to r is in the entry before it, which must still be there.     *)
RemoveEntry(x, r) ==
  IF pass.prev \notin DOMAIN x.msgs \cup {NULL}
  THEN c' = x /\ pass' = [pass EXCEPT !.state = "undefined"]
  ELSE /\ c' = [Without(x, {r}) EXCEPT !.num_msgs = @ - 1]
       /\ pass' = [pass EXCEPT !.entry = EntryAfter(x, r)]

(* The loop goes on behind r, which stays.                                 *)
KeepEntry(x, r) ==
  LET e == x.msgs[r]
      failing == \/ e.attempts > NUM_FAILOVER
                 \/ x.sock[Kind(e.type)] # "conn" /\ e.attempts > 0
  IN  /\ c' = x
      /\ pass' = [pass EXCEPT
                    !.failover = IF failing THEN @ \cup {Kind(e.type)} ELSE @,
                    !.first = IF e.wait < @ THEN e.wait ELSE @,
                    !.prev = r,
                    !.entry = EntryAfter(x, r)]

(* Messages were removed during the retransmission: from the beginning.    *)
(* Variant: the loop goes on where it was.                                 *)
RestartGoesOn(x) == c' = x /\ UNCHANGED pass

Restart(x) ==
  /\ c' = x
  /\ pass' = [pass EXCEPT
                !.entry = IF DOMAIN x.msgs = {} THEN NULL ELSE Newest(DOMAIN x.msgs),
                !.prev = NULL]

(* The socket is opened if it is not, and failing that, the next server    *)
(* is tried.                                                               *)
Reopened(x, kind) ==
  UNION {IF y.sock[kind] # "conn" /\ conf.num > 1
         THEN {failover(y, kind, res) : res \in ConnectResults(y, kind)}
         ELSE {y} : y \in Opened(x, kind)}

(* Variant: the wait is not limited.                                       *)
DoubleUnlimited(w) == 2 * w

Double(w) == IF 2 * w > MAX_WAIT THEN MAX_WAIT ELSE 2 * w
Backoff(x, r) ==
  LET e == x.msgs[r]
  IN  With(x, r, [e EXCEPT !.wait = e.next_wait, !.next_wait = Double(@)])

(* The message is sent once more.  An accounting message carries the time  *)
(* it waited, so it gets a new identifier: getting one may remove other    *)
(* entries.  When even r had the identifier it is freed while in use.      *)
Renumbered(x, r) ==
  IF x.msgs[r].type = "acct" THEN radius_client_get_id(x) ELSE x

Attempt(x, r, id) ==
  LET e == x.msgs[r]
  IN  With(x, r, [e EXCEPT !.attempts = @ + 1,
                           !.id = IF e.type = "acct" THEN id ELSE @])

Sent(x, r) ==
  IF x.msgs[r].attempts >= MAX_RETRIES THEN RemoveEntry(x, r) ELSE KeepEntry(x, r)

Resend(x, r) ==
  \/ Sent(Backoff(x, r), r)
  \/ \E res \in InitResults :
       LET y == radius_client_init_sock(x, Kind(x.msgs[r].type), res)
       IN  IF x.msgs[r].type = "auth" THEN KeepEntry(y, r) ELSE Sent(Backoff(y, r), r)

(* One entry of the loop: radius_client_retransmit when it is due.         *)
TimerLoop ==
  LET r == pass.entry IN
  /\ pass.state = "loop" /\ r # NULL
  /\ \/ c.msgs[r].wait > 0 /\ KeepEntry(c, r)
     \/ /\ c.msgs[r].wait = 0
        /\ \E x \in Reopened(c, Kind(c.msgs[r].type)) :
             \/ r \notin DOMAIN x.msgs /\ Restart(x)
             \/ /\ r \in DOMAIN x.msgs
                /\ x.msgs[r].type = "interim" \/ x.sock[Kind(x.msgs[r].type)] # "conn"
                /\ RemoveEntry(x, r)
             \/ /\ r \in DOMAIN x.msgs
                /\ x.msgs[r].type # "interim" /\ x.sock[Kind(x.msgs[r].type)] = "conn"
                /\ LET y == Renumbered(x, r) IN
                   IF r \notin DOMAIN y.msgs
                   THEN c' = y /\ pass' = [pass EXCEPT !.state = "undefined"]
                   ELSE Resend(Attempt(y, r, x.next_radius_identifier), r)
  /\ UNCHANGED <<conf, last, answers>>

(* Behind the loop: the next timer, then the failovers asked for.          *)
FailoverIf(x, kind) ==
  IF kind \in pass.failover
  THEN {failover(x, kind, res) : res \in ConnectResults(x, kind)} ELSE {x}

TimerEnd ==
  /\ pass.state = "loop" /\ pass.entry = NULL
  /\ LET armed == IF DOMAIN c.msgs = {} THEN c
                  ELSE register_timeout(c, IF pass.first = Unset THEN 0 ELSE pass.first)
     IN  \E x \in FailoverIf(armed, "auth") : c' \in FailoverIf(x, "acct")
  /\ pass' = Idle
  /\ UNCHANGED <<conf, last, answers>>

-----------------------------------------------------------------------------
(* A second passes; eloop runs a timer that is due before it waits again.  *)
Less(n) == IF n = 0 THEN 0 ELSE n - 1
Tick ==
  /\ ~Busy /\ ~TimerDue
  /\ c' = [c EXCEPT
             !.msgs = [r \in DOMAIN c.msgs |-> [c.msgs[r] EXCEPT
                          !.wait = Less(@), !.age = IF @ < FIRST_WAIT THEN @ + 1 ELSE @]],
             !.timers = [d \in Delays |-> IF d < MAX_WAIT THEN c.timers[d + 1] ELSE 0]]
  /\ UNCHANGED <<conf, pass, last, answers>>

Init ==
  /\ conf \in Conf
  /\ \E sock \in [Kinds -> {"open", "conn"}] :
       c = [msgs |-> [r \in {} |-> NULL], num_msgs |-> 0,
            next_radius_identifier |-> 0, timers |-> NoTimer,
            serv |-> FirstServers, sock |-> sock,
            peer |-> [k \in Kinds |-> IF sock[k] = "conn" THEN Peer(1) ELSE 0],
            lost |-> {}]
  /\ pass = Idle
  /\ last = 0
  /\ answers = [r \in Requests |-> 0]

Next ==
  \/ \E type \in Types, addr \in Addr : radius_client_send(type, addr)
  \/ \E kind \in Kinds, id \in Ids : radius_client_receive(kind, id)
  \/ \E addr \in Addr : StationFreed(addr)
  \/ Reload
  \/ radius_client_deinit
  \/ radius_retry_primary_timer
  \/ radius_client_timer
  \/ TimerLoop
  \/ TimerEnd
  \/ Tick

(* The eloop thread always runs: a timer that is due runs and its pass     *)
(* ends; when none is due time passes.                                     *)
Fairness == WF_vars(radius_client_timer \/ TimerLoop \/ TimerEnd \/ Tick)

Spec == Init /\ [][Next]_vars
FairSpec == Spec /\ Fairness

-----------------------------------------------------------------------------
(* Properties.                                                             *)

(* The types of the variables.                                             *)
TypeOK ==
  /\ conf \in Conf
  /\ last \in 0..MaxReq
  /\ answers \in [Requests -> Nat]
  /\ pass \in [state : {"idle", "loop", "undefined", "freed"},
               entry : 0..MaxReq, prev : 0..MaxReq,
               failover : SUBSET Kinds, first : 0..Unset]
  /\ DOMAIN c.msgs \subseteq 1..last
  /\ \A r \in DOMAIN c.msgs : c.msgs[r] \in Entry
  /\ c.num_msgs \in Nat
  /\ c.next_radius_identifier \in Ids
  /\ c.timers \in [Delays -> Nat]
  /\ c.serv \in [Kinds -> Servers]
  /\ c.sock \in [Kinds -> SockStates]
  /\ c.peer \in [Kinds -> {0} \cup Servers]
  /\ c.lost \in SUBSET Kinds

(* The list never outgrows its limit and num_msgs never counts too few     *)
(* entries, so it cannot wrap below zero: radius_client_list_add relies on *)
(* num_msgs, which radius_client_get_id leaves too high when it removes an *)
(* entry, and three other functions decrement it.                          *)
ListBounded == Cardinality(DOMAIN c.msgs) <= c.num_msgs /\ c.num_msgs <= MAX_ENTRIES

(* An answer finds its request by the identifier alone, so no two pending  *)
(* messages share one although the octet wraps and retransmissions of      *)
(* accounting messages take new identifiers.                               *)
DistinctIdentifiers ==
  \A q, r \in DOMAIN c.msgs : c.msgs[q].id = c.msgs[r].id => q = r

(* A message that may be sent again carries the authenticator of the       *)
(* current server, through every failover, reconnection and reload, and    *)
(* the socket is connected to that server: another one would not accept    *)
(* it.  The code leaves two ways out (lost): after a failed connect, or a  *)
(* reload that makes the first server current again while the socket stays *)
(* with the backup, messages are signed for one server and sent to another *)
(* or to none, until the next change of server succeeds.                   *)
SignedFor(r) == LET kind == Kind(c.msgs[r].type) IN
  c.msgs[r].type # "interim" =>
    /\ c.msgs[r].secret = c.serv[kind]
    /\ c.sock[kind] = "conn" /\ kind \notin c.lost => c.peer[kind] = c.msgs[r].secret
SignedForServer ==
  conf.differ /\ ~conf.primary => \A r \in DOMAIN c.msgs : SignedFor(r)

(* The same with retry_primary_interval, as the comment in                 *)
(* radius_change_server has it: pending messages that used a different     *)
(* shared secret are modified or removed.  The code breaks it when the     *)
(* primary server cannot be connected.                                     *)
SignedThroughPrimary ==
  conf.differ => \A r \in DOMAIN c.msgs : SignedFor(r)

(* While a message is pending a timer is registered that fires at most     *)
(* FIRST_WAIT after the earliest next_try, whatever was flushed, failed    *)
(* over or reconnected in between.                                         *)
RetransmitInTime ==
  ~Busy /\ DOMAIN c.msgs # {} =>
    \E d \in Delays :
      /\ c.timers[d] > 0
      /\ \A r \in DOMAIN c.msgs : d <= c.msgs[r].wait + FIRST_WAIT

(* Every run of radius_client_timer registers the next one, and a server   *)
(* change inside it registers one more: they do not pile up.  There is at  *)
(* most one at d and one at e.                                             *)
Once(d, f) == IF f = d THEN 1 ELSE 0
TimersBounded ==
  \E d, e \in Delays : \A f \in Delays : c.timers[f] <= Once(d, f) + Once(e, f)

(* No timer of the client is left when it is freed.                        *)
QuietWhenFreed == pass.state = "freed" => c.timers = NoTimer

(* The loop of radius_client_timer only follows pointers to entries that   *)
(* are in the list, whatever a failover inside it flushed.  It uses a      *)
(* freed entry (state "undefined") only when radius_client_get_id, which   *)
(* does not count what it removes, took that entry from under its feet.    *)
LoopInList ==
  /\ pass.state = "loop" => pass.entry \in DOMAIN c.msgs \cup {NULL}
  /\ pass.state = "undefined" => Cardinality(DOMAIN c.msgs) < c.num_msgs

(* A message is retransmitted until it is answered or its retries are used *)
(* up, as radius_client_send is documented, so the retransmission itself   *)
(* does not free it.  The code breaks it: an accounting message that takes *)
(* a new identifier takes its own once the others have been used since,    *)
(* and radius_client_get_id frees the message that holds it.               *)
RetransmitKeepsMessage == pass.state # "undefined"

(* The client keeps its promise to the callers: a request is answered at   *)
(* most once, never after it was dropped, and never comes back.            *)
Status == [r \in Requests |->
  IF r > last THEN "new"
  ELSE IF r \in DOMAIN c.msgs THEN "pending"
  ELSE IF answers[r] > 0 THEN "answered" ELSE "dropped"]

Promise == INSTANCE RadiusRequests WITH status <- Status, answers <- answers

KeepsPromise == Promise!Spec

(* No message waits for ever when no answer comes.  With one server of a   *)
(* kind, or with authentication servers of different secrets, the retries  *)
(* or the failover end it; otherwise it is at least offered to the backup  *)
(* server.  (Each return to the primary server puts the timer off, so that *)
(* is left out.)                                                           *)
Ends(r) ==
  \/ conf.num = 1
  \/ c.msgs[r].type = "interim"
  \/ c.msgs[r].type = "auth" /\ conf.differ
Waits(r) ==
  /\ r \in DOMAIN c.msgs /\ ~conf.primary /\ pass.state # "undefined"
  /\ Ends(r) \/ c.serv[Kind(c.msgs[r].type)] # 2
EveryRequestServed == \A r \in Requests : []<>~Waits(r)

===============================================================================
