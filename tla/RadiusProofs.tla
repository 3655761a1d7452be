------------------------------ MODULE RadiusProofs ------------------------------
(***************************************************************************)
(* Proofs about RadiusClient for every number of requests, identifiers,    *)
(* list entries and retries: the list of pending messages stays within its *)
(* limit, identifiers are distinct, messages are signed for the current    *)
(* server, the loop of radius_client_timer leaves the list only where      *)
(* radius_client_get_id frees an entry, no timer survives the client, and  *)
(* the client implements RadiusRequests.  For every length of the waits    *)
(* too, at most two runs of radius_client_timer are registered at a time,  *)
(* and while a message is pending one of them comes in time.               *)
(*                                                                         *)
(* The argument goes one function at a time: each keeps ClientOK of the    *)
(* struct it works on, and neither invents nor renumbers a message         *)
(* (Follows).                                                              *)
(***************************************************************************)
EXTENDS RadiusClient, FiniteSetTheorems, WellFoundedInduction, TLAPS

-----------------------------------------------------------------------------
(* The first and the last of a set of numbers.                             *)

(* A non-empty set of natural numbers has a least element: the oldest      *)
(* message of a list, the earliest of several times.                       *)
LEMMA OldestExists ==
  ASSUME NEW S \in SUBSET Nat, S # {}
  PROVE  Oldest(S) \in S /\ \A q \in S : Oldest(S) <= q
<1>1. PICK x \in S : \A y \in S : ~(<<y, x>> \in OpToRel(<, Nat))
  BY NatLessThanWellFounded, WFMin
<1>2. ASSUME NEW y \in S PROVE x <= y
  <2>1. x \in Nat /\ y \in Nat
    OBVIOUS
  <2>2. y < x => <<y, x>> \in {ss \in Nat \X Nat : ss[1] < ss[2]}
    BY <2>1
  <2>3. y < x => <<y, x>> \in OpToRel(<, Nat)
    BY <2>2, Zenon DEF OpToRel
  <2>4. ~(y < x)
    BY <1>1, <2>3, Zenon
  <2>5. QED
    BY <2>1, <2>4
<1>3. QED
  BY <1>2 DEF Oldest

(* A non-empty set of requests has a greatest element: the message at the  *)
(* head of a list.                                                         *)
LEMMA NewestExists ==
  ASSUME NEW n \in Nat, NEW S \in SUBSET (1..n), S # {}
  PROVE  Newest(S) \in S
<1> DEFINE B == {m \in Nat : \A q \in S : q <= m}
<1>1. n \in B
  OBVIOUS
<1>2. PICK m \in B : \A y \in B : m <= y
  BY <1>1, OldestExists
<1>3. m \in S
  <2>1. SUFFICES ASSUME m \notin S PROVE FALSE
    OBVIOUS
  <2>2. PICK s \in S : TRUE
    OBVIOUS
  <2>3. m \in Nat /\ m > s /\ s \in Nat
    BY <2>1, <2>2
  <2>4. m - 1 \in B
    BY <2>1, <2>3
  <2>5. QED
    BY <2>3, <2>4, <1>2
<1>4. QED
  BY <1>3 DEF Newest

-----------------------------------------------------------------------------
(* What is kept of struct radius_client_data.  n is the number of requests *)
(* made.                                                                   *)

Shape(x) ==
  x = [msgs |-> x.msgs, num_msgs |-> x.num_msgs,
       next_radius_identifier |-> x.next_radius_identifier,
       timers |-> x.timers, serv |-> x.serv, sock |-> x.sock,
       peer |-> x.peer, lost |-> x.lost]

(* The selected socket is connected to the current server, unless a failed *)
(* connect or a reload has left it behind.                                 *)
Reached(x) ==
  \A k \in Kinds :
    conf.differ /\ x.sock[k] = "conn" /\ k \notin x.lost => x.peer[k] = x.serv[k]

(* What the sockets of a client are.                                       *)
SocketsOK(x) ==
  /\ x.sock \in [Kinds -> SockStates]
  /\ x.peer \in [Kinds -> {0} \cup Servers]
  /\ x.lost \in SUBSET Kinds
  /\ Reached(x)

Typed(x, n) ==
  /\ Shape(x)
  /\ DOMAIN x.msgs \subseteq 1..n
  /\ \A r \in DOMAIN x.msgs : x.msgs[r] \in Entry
  /\ x.num_msgs \in Int
  /\ x.next_radius_identifier \in Ids
  /\ x.timers \in [Delays -> Nat]
  /\ x.serv \in [Kinds -> 1..conf.num]
  /\ SocketsOK(x)

Counted(x) ==
  Cardinality(DOMAIN x.msgs) <= x.num_msgs /\ x.num_msgs <= MAX_ENTRIES

Distinct(x) ==
  \A q, r \in DOMAIN x.msgs : x.msgs[q].id = x.msgs[r].id => q = r

Signed(x) ==
  conf.differ /\ ~conf.primary =>
    \A r \in DOMAIN x.msgs :
      x.msgs[r].type # "interim" => x.msgs[r].secret = x.serv[Kind(x.msgs[r].type)]

ClientOK(x, n) == Typed(x, n) /\ Counted(x) /\ Distinct(x) /\ Signed(x)

(* y has no message that x has not, and what y has of x is the same        *)
(* message, tried as often or not at all since its counters were reset.    *)
SameMessage(d, e) ==
  d.type = e.type /\ d.id = e.id /\ (d.attempts = e.attempts \/ d.attempts = 0)

Follows(x, y) ==
  /\ DOMAIN y.msgs \subseteq DOMAIN x.msgs
  /\ \A r \in DOMAIN y.msgs : SameMessage(y.msgs[r], x.msgs[r])

(* y differs from x in timers and sockets at most.                         *)
SameList(x, y) ==
  /\ Shape(y)
  /\ y.msgs = x.msgs /\ y.num_msgs = x.num_msgs
  /\ y.next_radius_identifier = x.next_radius_identifier /\ y.serv = x.serv
  /\ y.timers \in [Delays -> Nat]
  /\ SocketsOK(y)

(* y has the servers and sockets of x.                                     *)
SameServers(x, y) ==
  y.serv = x.serv /\ y.sock = x.sock /\ y.peer = x.peer /\ y.lost = x.lost

(* Then its sockets are as good.                                           *)
LEMMA SameSockets ==
  ASSUME NEW x, SocketsOK(x), NEW y, SameServers(x, y)
  PROVE  SocketsOK(y)
BY DEF SocketsOK, Reached, SameServers

(* Follows and SameMessage compose.                                        *)
LEMMA FollowsTrans ==
  ASSUME NEW x, NEW y, NEW z, Follows(x, y), Follows(y, z),
         NEW n \in Nat, Typed(x, n), Typed(y, n), Typed(z, n)
  PROVE  Follows(x, z)
BY DEF Follows, SameMessage

(* A list follows itself.                                                  *)
LEMMA FollowsSelf ==
  ASSUME NEW x
  PROVE  Follows(x, x)
BY DEF Follows, SameMessage

(* What only touches timers and sockets keeps everything.                  *)
LEMMA SameListOK ==
  ASSUME NEW n \in Nat, NEW x, ClientOK(x, n), NEW y, SameList(x, y)
  PROVE  ClientOK(y, n) /\ Follows(x, y)
BY DEF ClientOK, Typed, Counted, Distinct, Signed, SameList, Follows, SameMessage

(* The timers of a client may be registered and cancelled.                 *)
LEMMA RegisterTyped ==
  ASSUME NEW n \in Nat, NEW x, Typed(x, n), NEW d \in Delays
  PROVE  SameList(x, register_timeout(x, d)) /\ SameList(x, cancel_timeout(x))
<1>1. Shape(x) /\ x.timers \in [Delays -> Nat] /\ SocketsOK(x)
  BY DEF Typed
<1>2. NoTimer \in [Delays -> Nat]
  BY DEF NoTimer
<1>3. /\ SameServers(x, register_timeout(x, d)) /\ SameServers(x, cancel_timeout(x))
      /\ Shape(register_timeout(x, d)) /\ Shape(cancel_timeout(x))
  BY <1>1 DEF Shape, SameServers, register_timeout, cancel_timeout
<1>4. SocketsOK(register_timeout(x, d)) /\ SocketsOK(cancel_timeout(x))
  BY <1>1, <1>3, SameSockets
<1>5. QED
  BY <1>1, <1>2, <1>3, <1>4 DEF Shape, SameList, register_timeout, cancel_timeout

(* The same of a client that keeps all the invariants.                     *)
LEMMA RegisterOK ==
  ASSUME NEW n \in Nat, NEW x, ClientOK(x, n), NEW d \in Delays
  PROVE  SameList(x, register_timeout(x, d)) /\ SameList(x, cancel_timeout(x))
BY RegisterTyped DEF ClientOK

(* The list is finite, so its messages can be counted.                     *)
LEMMA MsgsFinite ==
  ASSUME NEW n \in Nat, NEW x, Typed(x, n)
  PROVE  /\ IsFiniteSet(DOMAIN x.msgs)
         /\ Cardinality(DOMAIN x.msgs) \in Nat
<1>1. IsFiniteSet(1..n)
  BY FS_Interval
<1>2. DOMAIN x.msgs \in SUBSET (1..n)
  BY DEF Typed
<1>3. IsFiniteSet(DOMAIN x.msgs)
  BY <1>1, <1>2, FS_Subset
<1>4. QED
  BY <1>3, FS_CardinalityType

-----------------------------------------------------------------------------
(* Removing messages.                                                      *)

(* y is x without the messages of gone, whatever num_msgs counts.          *)
Removes(x, y, gone) ==
  /\ Shape(y)
  /\ y.msgs = [r \in DOMAIN x.msgs \ gone |-> x.msgs[r]]
  /\ y.timers = x.timers /\ SameServers(x, y)

(* A list with fewer messages is as distinct and as well signed as before. *)
LEMMA RemovedList ==
  ASSUME NEW n \in Nat, NEW x, Typed(x, n), Distinct(x), Signed(x),
         NEW gone, NEW y, Removes(x, y, gone),
         y.next_radius_identifier \in Ids, y.num_msgs \in Int
  PROVE  Typed(y, n) /\ Distinct(y) /\ Signed(y) /\ Follows(x, y)
<1>1. DOMAIN y.msgs = DOMAIN x.msgs \ gone
      /\ \A r \in DOMAIN y.msgs : y.msgs[r] = x.msgs[r]
  BY DEF Removes
<1>2. Typed(y, n)
  <2>1. SocketsOK(y) /\ y.serv = x.serv
    BY SameSockets DEF Typed, Removes, SameServers
  <2>2. QED
    BY <1>1, <2>1 DEF Typed, Removes
<1>3. Distinct(y) /\ Signed(y)
  BY <1>1 DEF Distinct, Signed, Removes, SameServers
<1>4. Follows(x, y)
  BY <1>1 DEF Follows, SameMessage
<1>5. QED
  BY <1>2, <1>3, <1>4

(* Removing messages keeps everything, provided num_msgs still counts      *)
(* enough.                                                                 *)
LEMMA RemovedOK ==
  ASSUME NEW n \in Nat, NEW x, ClientOK(x, n), NEW gone, NEW y, Removes(x, y, gone),
         y.next_radius_identifier \in Ids,
         y.num_msgs \in Int, Counted(y)
  PROVE  ClientOK(y, n) /\ Follows(x, y)
BY RemovedList DEF ClientOK

Discounted(x, gone) == [Without(x, gone) EXCEPT !.num_msgs = @ - Cardinality(gone)]

(* Messages that leave the list are discounted, one by one or all at once. *)
LEMMA DiscountedOK ==
  ASSUME NEW n \in Nat, NEW x, ClientOK(x, n), NEW gone \in SUBSET DOMAIN x.msgs,
         NEW y, y = Discounted(x, gone)
  PROVE  /\ ClientOK(y, n) /\ Follows(x, y)
         /\ DOMAIN y.msgs = DOMAIN x.msgs \ gone /\ y.timers = x.timers
         /\ \A r \in DOMAIN y.msgs : y.msgs[r] = x.msgs[r]
<1>1. Typed(x, n) /\ Shape(x) /\ x.num_msgs \in Int /\ Counted(x)
  BY DEF ClientOK, Typed
<1>2. IsFiniteSet(DOMAIN x.msgs) /\ Cardinality(DOMAIN x.msgs) \in Nat
  BY <1>1, MsgsFinite
<1>3. IsFiniteSet(gone) /\ Cardinality(gone) \in Nat
  BY <1>2, FS_Subset, FS_CardinalityType
<1>4. Cardinality(DOMAIN x.msgs \ gone) = Cardinality(DOMAIN x.msgs) - Cardinality(gone)
  <2>1. Cardinality(DOMAIN x.msgs \ gone)
          = Cardinality(DOMAIN x.msgs) - Cardinality(DOMAIN x.msgs \cap gone)
    BY <1>2, FS_Difference
  <2>2. DOMAIN x.msgs \cap gone = gone
    OBVIOUS
  <2>3. QED
    BY <2>1, <2>2
<1>5. /\ Removes(x, y, gone)
      /\ y.num_msgs = x.num_msgs - Cardinality(gone)
      /\ y.next_radius_identifier = x.next_radius_identifier
  BY <1>1 DEF Shape, Without, Removes, SameServers, Discounted
<1>6. DOMAIN y.msgs = DOMAIN x.msgs \ gone /\ y.timers = x.timers
      /\ \A r \in DOMAIN y.msgs : y.msgs[r] = x.msgs[r]
  BY <1>5 DEF Removes
<1>7. y.num_msgs \in Int /\ Counted(y)
  <2>1. Cardinality(DOMAIN y.msgs) = Cardinality(DOMAIN x.msgs) - Cardinality(gone)
    BY <1>4, <1>6
  <2>2. MAX_ENTRIES \in Nat
    BY RadiusAssumption
  <2>3. QED
    BY <1>1, <1>2, <1>3, <1>5, <2>1, <2>2 DEF Counted
<1>8. y.next_radius_identifier \in Ids
  BY <1>5 DEF ClientOK, Typed
<1>9. QED
  BY <1>5, <1>6, <1>7, <1>8, RemovedOK

(* y keeps no message of authentication, and nothing if not only those go. *)
Flushed(x, y, only_auth) ==
  /\ \A r \in DOMAIN y.msgs : only_auth /\ x.msgs[r].type # "auth" /\ y.msgs[r] = x.msgs[r]
  /\ ~only_auth => y.timers = NoTimer
  /\ DOMAIN y.msgs = DOMAIN x.msgs => y.num_msgs = x.num_msgs
  /\ SameServers(x, y)

(* radius_client_flush(only_auth): what is left is not of authentication,  *)
(* and no timer is left when all are flushed.                              *)
LEMMA FlushOK ==
  ASSUME NEW n \in Nat, NEW x, ClientOK(x, n), NEW only_auth \in BOOLEAN,
         NEW z, z = radius_client_flush(x, only_auth)
  PROVE  ClientOK(z, n) /\ Follows(x, z) /\ Flushed(x, z, only_auth)
<1> DEFINE gone == {r \in DOMAIN x.msgs : only_auth => x.msgs[r].type = "auth"}
           y == [Without(x, gone) EXCEPT !.num_msgs = @ - Cardinality(gone)]
<1>1. gone \in SUBSET DOMAIN x.msgs
  OBVIOUS
<1>2. /\ ClientOK(y, n) /\ Follows(x, y) /\ DOMAIN y.msgs = DOMAIN x.msgs \ gone
      /\ \A r \in DOMAIN y.msgs : y.msgs[r] = x.msgs[r]
  <2>1. y = Discounted(x, gone)
    BY DEF Discounted
  <2> HIDE DEF gone, y
  <2>2. ClientOK(y, n) /\ Follows(x, y)
    BY <1>1, <2>1, DiscountedOK
  <2>3. DOMAIN y.msgs = DOMAIN x.msgs \ gone
    BY <1>1, <2>1, DiscountedOK
  <2>4. \A r \in DOMAIN y.msgs : y.msgs[r] = x.msgs[r]
    BY <1>1, <2>1, DiscountedOK
  <2>5. QED
    BY <2>2, <2>3, <2>4
<1>3. z = IF gone = DOMAIN x.msgs THEN cancel_timeout(y) ELSE y
  BY DEF radius_client_flush
<1>4. 0 \in Delays
  BY RadiusAssumption DEF Delays
<1>5. SameList(y, cancel_timeout(y)) /\ SameList(y, y)
  <2> HIDE DEF y
  <2>1. SameList(y, cancel_timeout(y))
    BY <1>2, <1>4, RegisterOK
  <2>2. SameList(y, y)
    BY <1>2 DEF SameList, ClientOK, Typed
  <2>3. QED
    BY <2>1, <2>2
<1>6. SameServers(x, y) /\ y.num_msgs = x.num_msgs - Cardinality(gone)
  <2> HIDE DEF gone
  <2>1. QED
    BY DEF Without, ClientOK, Typed, Shape, SameServers
<1>7. ~only_auth => cancel_timeout(y).timers = NoTimer /\ gone = DOMAIN x.msgs
  <2>1. Shape(y)
    BY <1>2, Zenon DEF ClientOK, Typed
  <2> HIDE DEF y
  <2>2. cancel_timeout(y).timers = NoTimer
    BY <2>1 DEF Shape, cancel_timeout
  <2>3. QED
    BY <2>2
<1>same. SameServers(y, cancel_timeout(y)) /\ SameServers(y, y)
  <2>1. Shape(y)
    BY <1>2, Zenon DEF ClientOK, Typed
  <2> HIDE DEF y
  <2>2. QED
    BY <2>1 DEF Shape, cancel_timeout, SameServers
<1> HIDE DEF y
<1>8. SameList(y, z) /\ SameServers(y, z) /\ (~only_auth => z.timers = NoTimer)
  BY <1>3, <1>5, <1>7, <1>same
<1>9. ClientOK(z, n) /\ z.msgs = y.msgs /\ z.num_msgs = y.num_msgs /\ SameServers(x, z)
  BY <1>2, <1>6, <1>8, SameListOK DEF SameList, SameServers
<1>10. Follows(x, z)
  BY <1>2, <1>9 DEF Follows
<1>num. DOMAIN z.msgs = DOMAIN x.msgs => z.num_msgs = x.num_msgs
  <2>1. SUFFICES ASSUME DOMAIN z.msgs = DOMAIN x.msgs PROVE z.num_msgs = x.num_msgs
    OBVIOUS
  <2>2. gone = {}
    BY <1>1, <1>2, <1>9, <2>1
  <2>3. Cardinality(gone) = 0
    BY <2>2, FS_EmptySet
  <2>4. x.num_msgs \in Int
    BY DEF ClientOK, Typed
  <2> HIDE DEF gone
  <2>5. QED
    BY <1>6, <1>9, <2>3, <2>4
<1>11. QED
  BY <1>2, <1>8, <1>9, <1>10, <1>num DEF Flushed

(* radius_client_flush_auth, when a station is freed.                      *)
LEMMA FlushAuthOK ==
  ASSUME NEW n \in Nat, NEW x, ClientOK(x, n), NEW addr
  PROVE  /\ ClientOK(radius_client_flush_auth(x, addr), n)
         /\ Follows(x, radius_client_flush_auth(x, addr))
<1> DEFINE gone == {r \in DOMAIN x.msgs : x.msgs[r].type = "auth" /\ x.msgs[r].addr = addr}
<1>1. gone \in SUBSET DOMAIN x.msgs
  OBVIOUS
<1>2. radius_client_flush_auth(x, addr) = Discounted(x, gone)
  BY DEF radius_client_flush_auth, Discounted
<1> HIDE DEF gone
<1>3. QED
  BY <1>1, <1>2, DiscountedOK

(* radius_client_get_id: no message of the list keeps the identifier that  *)
(* is handed out.                                                          *)
LEMMA GetIdOK ==
  ASSUME NEW n \in Nat, NEW x, ClientOK(x, n)
  PROVE  /\ ClientOK(radius_client_get_id(x), n)
         /\ Follows(x, radius_client_get_id(x))
         /\ x.next_radius_identifier \in Ids
         /\ \A r \in DOMAIN radius_client_get_id(x).msgs :
              /\ radius_client_get_id(x).msgs[r].id # x.next_radius_identifier
              /\ radius_client_get_id(x).msgs[r] = x.msgs[r]
         /\ radius_client_get_id(x).serv = x.serv
         /\ radius_client_get_id(x).sock = x.sock
         /\ radius_client_get_id(x).num_msgs = x.num_msgs
<1> DEFINE gone == {r \in DOMAIN x.msgs : x.msgs[r].id = x.next_radius_identifier}
           y == radius_client_get_id(x)
<1>1. Typed(x, n) /\ Shape(x) /\ x.num_msgs \in Int /\ Counted(x)
      /\ x.next_radius_identifier \in Ids
  BY DEF ClientOK, Typed
<1>2. y = [Without(x, gone) EXCEPT !.next_radius_identifier = (@ + 1) % NumIds]
  BY DEF radius_client_get_id
<1>3. (x.next_radius_identifier + 1) % NumIds \in Ids
  BY <1>1, RadiusAssumption DEF Ids
<1>4. /\ Removes(x, y, gone) /\ y.num_msgs = x.num_msgs
      /\ y.next_radius_identifier = (x.next_radius_identifier + 1) % NumIds
  <2> HIDE DEF gone, y
  <2>1. QED
    BY <1>1, <1>2 DEF Shape, Without, Removes, SameServers
<1>5. DOMAIN y.msgs = DOMAIN x.msgs \ gone /\ \A r \in DOMAIN y.msgs : y.msgs[r] = x.msgs[r]
  <2> HIDE DEF gone, y
  <2>1. QED
    BY <1>4 DEF Removes
<1>6. Counted(y)
  <2>1. IsFiniteSet(DOMAIN x.msgs) /\ Cardinality(DOMAIN x.msgs) \in Nat
    BY <1>1, MsgsFinite
  <2>2. DOMAIN y.msgs \in SUBSET DOMAIN x.msgs
    BY <1>5
  <2>3. Cardinality(DOMAIN y.msgs) <= Cardinality(DOMAIN x.msgs)
        /\ Cardinality(DOMAIN y.msgs) \in Nat
    BY <2>1, <2>2, FS_Subset, FS_CardinalityType
  <2>4. MAX_ENTRIES \in Nat
    BY RadiusAssumption
  <2>5. QED
    BY <1>1, <1>4, <2>1, <2>3, <2>4 DEF Counted
<1>7. ClientOK(y, n) /\ Follows(x, y)
  <2> HIDE DEF gone, y
  <2>1. QED
    BY <1>1, <1>3, <1>4, <1>6, RemovedOK
<1>8. y.serv = x.serv /\ y.sock = x.sock /\ y.num_msgs = x.num_msgs
  <2> HIDE DEF y
  <2>1. QED
    BY <1>4 DEF Removes, SameServers
<1>9. \A r \in DOMAIN y.msgs : y.msgs[r].id # x.next_radius_identifier
  BY <1>5
<1>10. QED
  BY <1>1, <1>5, <1>7, <1>8, <1>9

-----------------------------------------------------------------------------
(* Servers and sockets.                                                    *)

(* What a configuration is made of.                                        *)
LEMMA ConfTyped ==
  ASSUME conf \in Conf
  PROVE  /\ conf.num \in {1, 2} /\ conf.differ \in BOOLEAN /\ conf.primary \in BOOLEAN
         /\ conf.num = 1 => ~conf.differ
BY RadiusAssumption DEF Conf

(* The counters a server change resets are in range and the message stays  *)
(* what it is.                                                             *)
LEMMA ResetTyped ==
  ASSUME NEW e \in Entry, NEW s \in Servers
  PROVE  /\ ResetCounters(e) \in Entry
         /\ [ResetCounters(e) EXCEPT !.secret = s] \in Entry
         /\ SameMessage(ResetCounters(e), e)
         /\ SameMessage([ResetCounters(e) EXCEPT !.secret = s], e)
         /\ ResetCounters(e).secret = e.secret
         /\ [ResetCounters(e) EXCEPT !.secret = s].secret = s
<1>1. /\ FIRST_WAIT - e.age \in Delays /\ 2 * FIRST_WAIT \in Delays
      /\ 0 \in 0..MAX_RETRIES
  BY RadiusAssumption DEF Entry, Delays
<1>2. QED
  BY <1>1 DEF Entry, ResetCounters, SameMessage

(* y is x after servers were changed: when messages were removed, no       *)
(* message of authentication is left.                                      *)
Survives(x, y, n) ==
  /\ ClientOK(y, n) /\ Follows(x, y)
  /\ DOMAIN y.msgs # DOMAIN x.msgs => \A r \in DOMAIN y.msgs : y.msgs[r].type # "auth"
  /\ DOMAIN y.msgs = DOMAIN x.msgs => y.num_msgs = x.num_msgs

(* Every message of authentication in x is to be tried from the start.     *)
StartedOver(x) ==
  \A r \in DOMAIN x.msgs : x.msgs[r].type = "auth" => x.msgs[r].attempts = 0

ChangeResults == Failures \cup {"conn"}

(* radius_change_server keeps everything, provided old is the server in    *)
(* use, as in every call except the way back of                            *)
(* radius_retry_primary_timer.  When it removes a message, no message of   *)
(* authentication is left.                                                 *)
LEMMA ChangeServerOK ==
  ASSUME conf \in Conf, NEW n \in Nat, NEW x, ClientOK(x, n), NEW kind \in Kinds,
         NEW new \in 1..conf.num, NEW old \in 1..conf.num,
         NEW res \in ChangeResults,
         conf.primary \/ old = x.serv[kind],
         NEW z, z = radius_change_server(x, kind, new, old, res)
  PROVE  /\ Survives(x, z, n) /\ (kind = "auth" => StartedOver(z))
         /\ kind = "acct" => DOMAIN z.msgs = DOMAIN x.msgs
<1> DEFINE flushed == IF kind = "auth" /\ (new = old \/ SecretsDiffer(new, old))
                      THEN radius_client_flush(x, TRUE) ELSE x
           Update(e) ==
             IF new = old \/ e.type # kind THEN e
             ELSE [ResetCounters(e) EXCEPT
                     !.secret = IF SecretsDiffer(new, old) /\ kind = "acct" THEN new ELSE @]
           Sock(s) == IF res = "conn" THEN "conn" ELSE s
           PeerNow(s) == IF res = "conn" THEN Peer(new) ELSE IF res = "cut" THEN 0 ELSE s
           LostNow(S) == IF res = "conn" THEN S \ {kind} ELSE S \cup Lost(flushed, {kind})
           updated == [flushed EXCEPT
                        !.msgs = [r \in DOMAIN flushed.msgs |-> Update(flushed.msgs[r])],
                        !.serv[kind] = new,
                        !.sock[kind] = Sock(@), !.peer[kind] = PeerNow(@),
                        !.lost = LostNow(@)]
<1>1. z = IF DOMAIN updated.msgs = {} THEN updated
              ELSE register_timeout(cancel_timeout(updated), FIRST_WAIT)
  BY DEF radius_change_server
<1>2. /\ ClientOK(flushed, n) /\ Follows(x, flushed) /\ flushed.serv = x.serv
      /\ \A r \in DOMAIN flushed.msgs : flushed.msgs[r] = x.msgs[r]
      /\ kind = "auth" /\ (new = old \/ SecretsDiffer(new, old)) =>
           \A r \in DOMAIN flushed.msgs : x.msgs[r].type # "auth"
      /\ DOMAIN flushed.msgs # DOMAIN x.msgs => \A r \in DOMAIN flushed.msgs : x.msgs[r].type # "auth"
      /\ kind = "acct" => DOMAIN flushed.msgs = DOMAIN x.msgs
      /\ DOMAIN flushed.msgs = DOMAIN x.msgs => flushed.num_msgs = x.num_msgs
  <2>1. CASE kind = "auth" /\ (new = old \/ SecretsDiffer(new, old))
    <3>1. flushed = radius_client_flush(x, TRUE)
      BY <2>1
    <3> HIDE DEF flushed
    <3>2. /\ ClientOK(flushed, n) /\ Follows(x, flushed) /\ flushed.serv = x.serv
          /\ DOMAIN flushed.msgs = DOMAIN x.msgs => flushed.num_msgs = x.num_msgs
      <4>1. ClientOK(flushed, n) /\ Follows(x, flushed) /\ Flushed(x, flushed, TRUE)
        BY <3>1, FlushOK
      <4>2. QED
        BY <4>1 DEF Flushed, SameServers
    <3>3. \A r \in DOMAIN flushed.msgs : x.msgs[r].type # "auth" /\ flushed.msgs[r] = x.msgs[r]
      <4>1. Flushed(x, flushed, TRUE)
        BY <3>1, FlushOK
      <4>2. QED
        BY <4>1 DEF Flushed
    <3>4. QED
      BY <2>1, <3>2, <3>3
  <2>2. CASE ~(kind = "auth" /\ (new = old \/ SecretsDiffer(new, old)))
    <3>1. flushed = x
      BY <2>2
    <3> HIDE DEF flushed
    <3>2. QED
      BY <2>2, <3>1, FollowsSelf
  <2>3. QED
    BY <2>1, <2>2
<1>3. /\ updated.msgs = [r \in DOMAIN flushed.msgs |-> Update(flushed.msgs[r])]
      /\ updated.num_msgs = flushed.num_msgs /\ updated.timers = flushed.timers
      /\ updated.next_radius_identifier = flushed.next_radius_identifier
      /\ updated.serv = [flushed.serv EXCEPT ![kind] = new]
      /\ updated.sock = [flushed.sock EXCEPT ![kind] = Sock(@)]
      /\ updated.peer = [flushed.peer EXCEPT ![kind] = PeerNow(@)]
      /\ updated.lost = LostNow(flushed.lost)
      /\ Shape(updated)
  <2>1. Shape(flushed)
    BY <1>2 DEF ClientOK, Typed
  <2> DEFINE M == [r \in DOMAIN flushed.msgs |-> Update(flushed.msgs[r])]
  <2>2. updated = [flushed EXCEPT !.msgs = M, !.serv[kind] = new,
                                  !.sock[kind] = Sock(@), !.peer[kind] = PeerNow(@),
                                  !.lost = LostNow(@)]
    OBVIOUS
  <2> HIDE DEF flushed, Update, updated, M, Sock, PeerNow, LostNow
  <2>3. updated = [msgs |-> M, num_msgs |-> flushed.num_msgs,
                   next_radius_identifier |-> flushed.next_radius_identifier,
                   timers |-> flushed.timers,
                   serv |-> [flushed.serv EXCEPT ![kind] = new],
                   sock |-> [flushed.sock EXCEPT ![kind] = Sock(@)],
                   peer |-> [flushed.peer EXCEPT ![kind] = PeerNow(@)],
                   lost |-> LostNow(flushed.lost)]
    BY <2>1, <2>2 DEF Shape
  <2>4. QED
    BY <2>3 DEF Shape, M
<1>4. new \in Servers /\ conf.num \in {1, 2}
  BY ConfTyped DEF Servers
<1>5. \A e \in Entry :
        /\ Update(e) \in Entry /\ SameMessage(Update(e), e)
        /\ e.type # kind => Update(e) = e
        /\ e.type = kind /\ new # old => Update(e).attempts = 0
        /\ e.type = kind /\ new # old /\ SecretsDiffer(new, old) /\ kind = "acct"
             => Update(e).secret = new
        /\ new = old => Update(e) = e
  <2>1. SUFFICES ASSUME NEW e \in Entry
                 PROVE  /\ Update(e) \in Entry /\ SameMessage(Update(e), e)
                        /\ e.type # kind => Update(e) = e
                        /\ e.type = kind /\ new # old => Update(e).attempts = 0
                        /\ e.type = kind /\ new # old /\ SecretsDiffer(new, old) /\ kind = "acct"
                             => Update(e).secret = new
                        /\ new = old => Update(e) = e
    BY Zenon
  <2>2. SameMessage(e, e)
    BY DEF SameMessage
  <2>3. CASE new = old \/ e.type # kind
    BY <2>2, <2>3
  <2>4. CASE new # old /\ e.type = kind /\ SecretsDiffer(new, old) /\ kind = "acct"
    <3>1. Update(e) = [ResetCounters(e) EXCEPT !.secret = new]
      BY <2>4
    <3>2. [ResetCounters(e) EXCEPT !.secret = new].attempts = 0
      BY <1>4 DEF ResetCounters, Entry
    <3> HIDE DEF Update
    <3>3. QED
      BY <1>4, <2>4, <3>1, <3>2, ResetTyped
  <2>5. CASE new # old /\ e.type = kind /\ ~(SecretsDiffer(new, old) /\ kind = "acct")
    <3>1. Update(e) = [ResetCounters(e) EXCEPT !.secret = ResetCounters(e).secret]
      BY <2>5
    <3>2. ResetCounters(e) \in Entry
      BY <1>4, ResetTyped
    <3>3. [ResetCounters(e) EXCEPT !.secret = ResetCounters(e).secret] = ResetCounters(e)
      BY <3>2 DEF Entry
    <3>4. ResetCounters(e).attempts = 0
      BY DEF ResetCounters, Entry
    <3> HIDE DEF Update
    <3>5. SameMessage(ResetCounters(e), e)
      BY <1>4, ResetTyped
    <3>6. Update(e) = ResetCounters(e)
      BY <3>1, <3>3, Zenon
    <3>7. QED
      BY <2>5, <3>2, <3>4, <3>5, <3>6, Zenon
  <2>6. QED
    BY <2>3, <2>4, <2>5
<1> HIDE DEF flushed, Update, updated, Sock, PeerNow, LostNow
<1>msgs. /\ DOMAIN updated.msgs = DOMAIN flushed.msgs
      /\ \A r \in DOMAIN updated.msgs : updated.msgs[r] = Update(flushed.msgs[r])
  <2>1. updated.msgs = [r \in DOMAIN flushed.msgs |-> Update(flushed.msgs[r])]
    BY <1>3, Zenon
  <2>2. QED
    BY <2>1
<1>serv. updated.serv = [x.serv EXCEPT ![kind] = new]
  <2>1. updated.serv = [flushed.serv EXCEPT ![kind] = new] /\ flushed.serv = x.serv
    BY <1>2, <1>3, Zenon
  <2>2. QED
    BY <2>1
<1>6. \A r \in DOMAIN flushed.msgs : flushed.msgs[r] \in Entry
  BY <1>2 DEF ClientOK, Typed
<1>7. Follows(x, updated)
  BY <1>2, <1>msgs, <1>5, <1>6 DEF Follows
<1>8. Typed(updated, n)
  <2>1. updated.serv \in [Kinds -> 1..conf.num]
    <3>1. x.serv \in [Kinds -> 1..conf.num]
      BY DEF ClientOK, Typed
    <3>2. QED
      BY <1>serv, <3>1
  <2>2. SocketsOK(updated)
    <3>1. /\ flushed.sock \in [Kinds -> SockStates]
          /\ flushed.peer \in [Kinds -> {0} \cup Servers] /\ flushed.lost \in SUBSET Kinds
          /\ flushed.serv \in [Kinds -> 1..conf.num] /\ Reached(flushed)
      BY <1>2 DEF ClientOK, Typed, SocketsOK
    <3>2. /\ updated.sock = [flushed.sock EXCEPT ![kind] = Sock(@)]
          /\ updated.peer = [flushed.peer EXCEPT ![kind] = PeerNow(@)]
          /\ updated.lost = LostNow(flushed.lost)
          /\ updated.serv = [flushed.serv EXCEPT ![kind] = new]
      BY <1>3, Zenon
    <3>3. /\ Sock(flushed.sock[kind]) \in SockStates
          /\ PeerNow(flushed.peer[kind]) \in {0} \cup Servers
          /\ LostNow(flushed.lost) \in SUBSET Kinds
          /\ \A k \in Kinds : k # kind => (k \in LostNow(flushed.lost) <=> k \in flushed.lost)
      BY <1>4, <3>1 DEF Sock, PeerNow, LostNow, SockStates, Peer, Lost
    <3>4. /\ updated.sock \in [Kinds -> SockStates]
          /\ updated.peer \in [Kinds -> {0} \cup Servers]
          /\ updated.lost \in SUBSET Kinds
      BY <3>1, <3>2, <3>3
    <3>5. ASSUME NEW k \in Kinds, conf.differ, updated.sock[k] = "conn", k \notin updated.lost
          PROVE  updated.peer[k] = updated.serv[k]
      <4>1. CASE k # kind
        <5>1. /\ updated.sock[k] = flushed.sock[k] /\ updated.peer[k] = flushed.peer[k]
              /\ updated.serv[k] = flushed.serv[k] /\ k \notin flushed.lost
          BY <3>1, <3>2, <3>3, <3>5, <4>1
        <5>2. QED
          BY <3>1, <3>5, <5>1 DEF Reached
      <4>2. CASE k = kind /\ res = "conn"
        BY <3>1, <3>2, <3>5, <4>2 DEF PeerNow, Peer
      <4>3. CASE k = kind /\ res # "conn"
        <5>1. flushed.sock[kind] = "conn"
          BY <3>1, <3>2, <3>5, <4>3 DEF Sock
        <5>2. kind \in LostNow(flushed.lost)
          BY <3>5, <4>3, <5>1 DEF LostNow, Lost
        <5>3. QED
          BY <3>2, <3>5, <4>3, <5>2
      <4>4. QED
        BY <4>1, <4>2, <4>3
    <3>6. QED
      BY <3>4, <3>5 DEF SocketsOK, Reached
  <2>3. /\ Shape(updated) /\ updated.num_msgs \in Int
        /\ updated.next_radius_identifier \in Ids
        /\ updated.timers \in [Delays -> Nat]
    <3>1. /\ flushed.num_msgs \in Int /\ flushed.next_radius_identifier \in Ids
          /\ flushed.timers \in [Delays -> Nat]
      BY <1>2 DEF ClientOK, Typed
    <3>2. /\ Shape(updated) /\ updated.num_msgs = flushed.num_msgs
          /\ updated.timers = flushed.timers
          /\ updated.next_radius_identifier = flushed.next_radius_identifier
      BY <1>3, Zenon
    <3>3. QED
      BY <3>1, <3>2
  <2>4. DOMAIN updated.msgs \subseteq 1..n /\ \A r \in DOMAIN updated.msgs : updated.msgs[r] \in Entry
    <3>1. DOMAIN flushed.msgs \subseteq 1..n
      BY <1>2 DEF ClientOK, Typed
    <3>2. QED
      BY <1>msgs, <1>5, <1>6, <3>1
  <2>5. QED
    BY <2>1, <2>2, <2>3, <2>4 DEF Typed
<1>9. Counted(updated)
  <2>1. Counted(flushed)
    BY <1>2 DEF ClientOK
  <2>2. updated.num_msgs = flushed.num_msgs
    BY <1>3, Zenon
  <2>3. QED
    BY <1>msgs, <2>1, <2>2 DEF Counted
<1>10. Distinct(updated)
  BY <1>2, <1>msgs, <1>5, <1>6 DEF ClientOK, Distinct, SameMessage
<1>11. Signed(updated)
  <2>1. SUFFICES ASSUME conf.differ, ~conf.primary,
                        NEW r \in DOMAIN updated.msgs, updated.msgs[r].type # "interim"
                 PROVE  updated.msgs[r].secret = updated.serv[Kind(updated.msgs[r].type)]
    BY DEF Signed
  <2> DEFINE e == flushed.msgs[r]
  <2>2. e \in Entry /\ updated.msgs[r] = Update(e) /\ updated.msgs[r].type = e.type
    BY <1>msgs, <1>5, <1>6 DEF SameMessage
  <2>3. e.secret = x.serv[Kind(e.type)]
    BY <1>2, <1>msgs, <2>1, <2>2 DEF ClientOK, Signed
  <2>4. e.type \in {"auth", "acct"} /\ Kind(e.type) = e.type
    BY <2>1, <2>2 DEF Entry, Types, Kind
  <2>5. x.serv \in [Kinds -> 1..conf.num]
    BY DEF ClientOK, Typed
  <2> HIDE DEF e
  <2>6. CASE e.type # kind
    <3>1. updated.serv[e.type] = x.serv[e.type] /\ Update(e) = e
      BY <1>serv, <1>5, <2>2, <2>4, <2>5, <2>6 DEF Kinds
    <3>2. QED
      BY <2>2, <2>3, <2>4, <3>1
  <2>7. CASE e.type = kind
    <3>1. updated.serv[e.type] = new
      BY <1>serv, <2>5, <2>7 DEF Kinds
    <3>2. CASE new = old
      BY <1>5, <2>1, <2>2, <2>3, <2>4, <2>7, <3>1, <3>2
    <3>3. CASE new # old
      <4>1. SecretsDiffer(new, old)
        BY <2>1, <3>3 DEF SecretsDiffer
      <4>2. kind = "acct"
        BY <1>2, <1>msgs, <2>4, <2>7, <4>1 DEF Kinds, e
      <4>3. QED
        BY <1>5, <2>2, <2>4, <2>7, <3>1, <3>3, <4>1, <4>2
    <3>4. QED
      BY <3>2, <3>3
  <2>8. QED
    BY <2>6, <2>7
<1>12. ClientOK(updated, n)
  BY <1>8, <1>9, <1>10, <1>11 DEF ClientOK
<1>13. SameList(updated, z)
  <2>1. FIRST_WAIT \in Delays
    BY RadiusAssumption DEF Delays
  <2>2. SameList(updated, cancel_timeout(updated)) /\ ClientOK(cancel_timeout(updated), n)
    BY <1>12, <2>1, RegisterOK, SameListOK
  <2>3. SameList(cancel_timeout(updated),
                 register_timeout(cancel_timeout(updated), FIRST_WAIT))
    BY <2>1, <2>2, RegisterOK
  <2>4. SameList(updated, updated)
    BY <1>12 DEF ClientOK, Typed, SameList
  <2>5. QED
    BY <1>1, <2>2, <2>3, <2>4 DEF SameList
<1>14. ClientOK(z, n) /\ z.msgs = updated.msgs
  <2>1. ClientOK(z, n)
    BY <1>12, <1>13, SameListOK
  <2>2. z.msgs = updated.msgs
    BY <1>13 DEF SameList
  <2>3. QED
    BY <2>1, <2>2
<1>15. Follows(x, z)
  BY <1>7, <1>14 DEF Follows
<1>16. kind = "auth" => StartedOver(z)
  <2>1. SUFFICES ASSUME kind = "auth", NEW r \in DOMAIN z.msgs, z.msgs[r].type = "auth"
                 PROVE  z.msgs[r].attempts = 0
    BY DEF StartedOver
  <2>2. /\ r \in DOMAIN flushed.msgs /\ flushed.msgs[r] \in Entry
        /\ z.msgs[r] = Update(flushed.msgs[r]) /\ flushed.msgs[r] = x.msgs[r]
    BY <1>2, <1>msgs, <1>6, <1>14, <2>1
  <2>3. flushed.msgs[r].type = "auth"
    BY <1>5, <2>1, <2>2 DEF SameMessage
  <2>4. new # old
    BY <1>2, <2>1, <2>2, <2>3
  <2>5. QED
    BY <1>5, <2>1, <2>2, <2>3, <2>4
<1>17. DOMAIN z.msgs # DOMAIN x.msgs => \A r \in DOMAIN z.msgs : z.msgs[r].type # "auth"
  <2>1. SUFFICES ASSUME DOMAIN z.msgs # DOMAIN x.msgs, NEW r \in DOMAIN z.msgs
                 PROVE  z.msgs[r].type # "auth"
    BY Zenon
  <2>2. r \in DOMAIN flushed.msgs /\ DOMAIN flushed.msgs # DOMAIN x.msgs
    BY <1>msgs, <1>14, <2>1
  <2>3. x.msgs[r].type # "auth"
    BY <1>2, <2>2
  <2>4. QED
    BY <1>15, <2>1, <2>3 DEF Follows, SameMessage
<1>18. /\ kind = "acct" => DOMAIN z.msgs = DOMAIN x.msgs
       /\ DOMAIN z.msgs = DOMAIN x.msgs => z.num_msgs = x.num_msgs
  <2>1. updated.num_msgs = flushed.num_msgs
    BY <1>3, Zenon
  <2>2. z.num_msgs = updated.num_msgs
    BY <1>13 DEF SameList
  <2>3. QED
    BY <1>2, <1>msgs, <1>14, <2>1, <2>2
<1>19. QED
  BY <1>14, <1>15, <1>16, <1>17, <1>18 DEF Survives

(* radius_client_init_auth and _acct touch sockets and timers only.        *)
LEMMA InitSockOK ==
  ASSUME conf \in Conf, NEW n \in Nat, NEW x, ClientOK(x, n), NEW kind \in Kinds, NEW res \in InitResults
  PROVE  SameList(x, radius_client_init_sock(x, kind, res))
<1>1. Shape(x) /\ x.timers \in [Delays -> Nat] /\ SocketsOK(x)
      /\ x.serv \in [Kinds -> 1..conf.num] /\ 1..conf.num \subseteq Servers
  BY ConfTyped DEF ClientOK, Typed, Servers
<1> DEFINE st == IF res = "unread" THEN "none" ELSE res
           pr == IF res = "conn" THEN Peer(x.serv[kind]) ELSE 0
<1>2. PICK y : y = Sockets(x, kind, res)
  OBVIOUS
<1>sock. /\ st \in SockStates /\ (st = "conn" => res = "conn")
      /\ pr \in {0} \cup Servers /\ (res = "conn" /\ conf.differ => pr = x.serv[kind])
  BY <1>1 DEF InitResults, SockStates, Peer
<1>eq. y = [x EXCEPT !.sock[kind] = st, !.peer[kind] = pr, !.lost = @ \ {kind}]
  BY <1>2 DEF Sockets
<1> HIDE DEF st, pr
<1>flds. /\ Shape(y) /\ y.msgs = x.msgs /\ y.num_msgs = x.num_msgs
      /\ y.next_radius_identifier = x.next_radius_identifier
      /\ y.serv = x.serv /\ y.timers = x.timers
      /\ y.sock = [x.sock EXCEPT ![kind] = st] /\ y.peer = [x.peer EXCEPT ![kind] = pr]
      /\ y.lost = x.lost \ {kind}
  BY <1>1, <1>eq DEF Shape
<1>good. SocketsOK(y)
  BY <1>1, <1>sock, <1>flds DEF SocketsOK, Reached
<1>3. SameList(x, y)
  BY <1>1, <1>flds, <1>good DEF SameList
<1>4. ClientOK(y, n)
  BY <1>3, SameListOK
<1>5. FIRST_WAIT \in Delays
  BY RadiusAssumption DEF Delays
<1>6. SameList(y, cancel_timeout(y)) /\ ClientOK(cancel_timeout(y), n)
  BY <1>4, <1>5, RegisterOK, SameListOK
<1>7. SameList(cancel_timeout(y), register_timeout(cancel_timeout(y), FIRST_WAIT))
  BY <1>5, <1>6, RegisterOK
<1>8. radius_client_init_sock(x, kind, res) \in
        {y, register_timeout(cancel_timeout(y), FIRST_WAIT)}
  BY <1>2, Zenon DEF radius_client_init_sock
<1>9. QED
  BY <1>3, <1>6, <1>7, <1>8 DEF SameList

(* The socket that radius_client_send and radius_client_retransmit look    *)
(* for.                                                                    *)
LEMMA OpenedOK ==
  ASSUME conf \in Conf, NEW n \in Nat, NEW x, ClientOK(x, n), NEW kind \in Kinds, NEW y \in Opened(x, kind)
  PROVE  SameList(x, y)
<1>1. SameList(x, x)
  BY DEF ClientOK, Typed, SameList
<1>2. y = x \/ \E res \in InitResults : y = radius_client_init_sock(x, kind, res)
  BY DEF Opened
<1>3. QED
  BY <1>1, <1>2, InitSockOK

(* Timers and sockets alone remove no message.                             *)
LEMMA SameListSurvives ==
  ASSUME NEW n \in Nat, NEW x, ClientOK(x, n), NEW y, SameList(x, y)
  PROVE  Survives(x, y, n)
<1>1. ClientOK(y, n) /\ Follows(x, y)
  BY SameListOK
<1>2. y.msgs = x.msgs /\ y.num_msgs = x.num_msgs
  BY DEF SameList
<1>3. QED
  BY <1>1, <1>2 DEF Survives

(* radius_client_auth_failover and _acct_failover.                         *)
LEMMA FailoverOK ==
  ASSUME conf \in Conf, NEW n \in Nat, NEW x, ClientOK(x, n), NEW kind \in Kinds,
         NEW res \in ChangeResults, NEW z, z = failover(x, kind, res)
  PROVE  /\ Survives(x, z, n) /\ (kind = "auth" => StartedOver(z))
         /\ kind = "acct" => DOMAIN z.msgs = DOMAIN x.msgs
<1>1. x.serv \in [Kinds -> 1..conf.num]
  BY DEF ClientOK, Typed
<1>2. PICK old : old = x.serv[kind]
  OBVIOUS
<1>3. old \in 1..conf.num /\ NextServer(old) \in 1..conf.num
  BY <1>1, <1>2, ConfTyped DEF NextServer
<1>4. z = radius_change_server(x, kind, NextServer(old), old, res)
  BY <1>2 DEF failover
<1>5. QED
  BY <1>2, <1>3, <1>4, ChangeServerOK

(* A retransmission that finds no socket opens one or fails over.          *)
LEMMA ReopenedOK ==
  ASSUME conf \in Conf, NEW n \in Nat, NEW x, ClientOK(x, n), NEW kind \in Kinds,
         NEW y \in Reopened(x, kind)
  PROVE  Survives(x, y, n) /\ (kind = "acct" => DOMAIN y.msgs = DOMAIN x.msgs)
<1>1. PICK z \in Opened(x, kind) :
        y = z \/ \E res \in ConnectResults(z, kind) : y = failover(z, kind, res)
  BY DEF Reopened
<1>2. SameList(x, z)
  BY OpenedOK
<1>3. ClientOK(z, n) /\ z.msgs = x.msgs /\ z.num_msgs = x.num_msgs /\ Survives(x, z, n)
  BY <1>2, SameListOK, SameListSurvives DEF SameList
<1>4. CASE y = z
  BY <1>3, <1>4
<1>5. CASE \E res \in ConnectResults(z, kind) : y = failover(z, kind, res)
  <2>1. PICK res \in ChangeResults : y = failover(z, kind, res)
    BY <1>5 DEF ConnectResults, ChangeResults, Failures
  <2>2. Survives(z, y, n) /\ (kind = "acct" => DOMAIN y.msgs = DOMAIN z.msgs)
    BY <1>3, <2>1, FailoverOK
  <2>3. QED
    BY <1>3, <2>2 DEF Survives, Follows
<1>6. QED
  BY <1>1, <1>4, <1>5

(* radius_retry_primary_timer, for one kind of server.                     *)
LEMMA BackToPrimaryOK ==
  ASSUME conf \in Conf, conf.primary, NEW n \in Nat, NEW x, ClientOK(x, n),
         NEW kind \in Kinds, NEW y \in BackToPrimary(x, kind)
  PROVE  ClientOK(y, n) /\ Follows(x, y)
<1>1. x.serv \in [Kinds -> 1..conf.num]
  BY DEF ClientOK, Typed
<1>2. PICK old : old = x.serv[kind]
  OBVIOUS
<1>3. old \in 1..conf.num /\ 1 \in 1..conf.num
  BY <1>1, <1>2, ConfTyped
<1>4. CASE y = x
  BY <1>4, FollowsSelf
<1>5. CASE y = radius_change_server(x, kind, 1, old, "conn")
  <2>1. "conn" \in ChangeResults
    BY DEF ChangeResults
  <2>2. QED
    BY <1>3, <1>5, <2>1, ChangeServerOK DEF Survives
<1>6. ASSUME NEW res \in ChangeResults, NEW again \in ChangeResults,
             y = radius_change_server(radius_change_server(x, kind, 1, old, res),
                                      kind, old, old, again)
      PROVE  ClientOK(y, n) /\ Follows(x, y)
  <2>1. PICK z : z = radius_change_server(x, kind, 1, old, res)
    OBVIOUS
  <2>2. ClientOK(z, n) /\ Follows(x, z)
    BY <1>3, <2>1, ChangeServerOK DEF Survives
  <2>3. y = radius_change_server(z, kind, old, old, again)
    BY <1>6, <2>1, Zenon
  <2>4. ClientOK(y, n) /\ Follows(z, y)
    BY <1>3, <2>2, <2>3, ChangeServerOK DEF Survives
  <2>5. Typed(x, n) /\ Typed(y, n) /\ Typed(z, n)
    BY <2>2, <2>4 DEF ClientOK
  <2>6. QED
    BY <2>2, <2>4, <2>5, FollowsTrans
<1>7. QED
  BY <1>2, <1>4, <1>5, <1>6 DEF BackToPrimary, ChangeResults

-----------------------------------------------------------------------------
(* Changing and adding a message.                                          *)

(* y is x with e as the entry of r, whatever the timers.                   *)
Replaces(x, y, r, e) ==
  /\ Shape(y)
  /\ DOMAIN y.msgs = DOMAIN x.msgs \cup {r}
  /\ y.msgs[r] = e
  /\ \A q \in DOMAIN y.msgs : q # r => q \in DOMAIN x.msgs /\ y.msgs[q] = x.msgs[q]
  /\ y.num_msgs = x.num_msgs /\ y.next_radius_identifier = x.next_radius_identifier
  /\ y.timers \in [Delays -> Nat] /\ SameServers(x, y)

(* What With changes and what it leaves alone.                             *)
LEMMA WithReplaces ==
  ASSUME NEW n \in Nat, NEW x, Typed(x, n), NEW r, NEW e, NEW y, y = With(x, r, e)
  PROVE  Replaces(x, y, r, e)
<1>1. Shape(x) /\ x.timers \in [Delays -> Nat]
  BY DEF Typed
<1> DEFINE M == [q \in {r} \cup DOMAIN x.msgs |-> IF q = r THEN e ELSE x.msgs[q]]
<1>2. /\ DOMAIN M = DOMAIN x.msgs \cup {r} /\ M[r] = e
      /\ \A q \in DOMAIN M : q # r => q \in DOMAIN x.msgs /\ M[q] = x.msgs[q]
  OBVIOUS
<1>3. y = [x EXCEPT !.msgs = M]
  BY DEF With
<1> HIDE DEF M
<1>4. y = [msgs |-> M, num_msgs |-> x.num_msgs,
           next_radius_identifier |-> x.next_radius_identifier,
           timers |-> x.timers, serv |-> x.serv, sock |-> x.sock,
           peer |-> x.peer, lost |-> x.lost]
  BY <1>1, <1>3 DEF Shape
<1>5. QED
  BY <1>1, <1>2, <1>4 DEF Replaces, SameServers, Shape

(* An entry may take the place of another, or be new, if its identifier is *)
(* no other entry's and it is signed for its server.                       *)
LEMMA ReplacedList ==
  ASSUME NEW n \in Nat, NEW x, Typed(x, n), Distinct(x), Signed(x),
         NEW m \in Nat, n <= m, NEW r \in 1..m, NEW e \in Entry,
         \A q \in DOMAIN x.msgs : q # r => x.msgs[q].id # e.id,
         conf.differ /\ ~conf.primary /\ e.type # "interim" => e.secret = x.serv[Kind(e.type)],
         NEW y, Replaces(x, y, r, e)
  PROVE  Typed(y, m) /\ Distinct(y) /\ Signed(y)
<1>1. Typed(y, m)
  <2>1. DOMAIN y.msgs \subseteq 1..m
    BY DEF Typed, Replaces
  <2>2. \A q \in DOMAIN y.msgs : y.msgs[q] \in Entry
    BY DEF Typed, Replaces
  <2>3. SocketsOK(y) /\ y.serv = x.serv
    BY SameSockets DEF Typed, Replaces, SameServers
  <2>4. QED
    BY <2>1, <2>2, <2>3 DEF Typed, Replaces
<1>2. Distinct(y)
  BY DEF Distinct, Replaces
<1>3. Signed(y)
  BY DEF Signed, Replaces, SameServers
<1>4. QED
  BY <1>1, <1>2, <1>3

(* An entry of the list may be changed if its identifier stays free and its*)
(* secret the same.                                                        *)
LEMMA ReplacedOK ==
  ASSUME NEW n \in Nat, NEW x, ClientOK(x, n), NEW r \in DOMAIN x.msgs, NEW e \in Entry,
         \A q \in DOMAIN x.msgs : q # r => x.msgs[q].id # e.id,
         e.type = x.msgs[r].type, e.secret = x.msgs[r].secret,
         NEW y, y = With(x, r, e)
  PROVE  ClientOK(y, n) /\ Replaces(x, y, r, e) /\ DOMAIN y.msgs = DOMAIN x.msgs
<1>1. Typed(x, n) /\ Distinct(x) /\ Signed(x) /\ Counted(x) /\ r \in 1..n
  BY DEF ClientOK, Typed
<1>2. Replaces(x, y, r, e)
  BY <1>1, WithReplaces
<1>3. conf.differ /\ ~conf.primary /\ e.type # "interim" => e.secret = x.serv[Kind(e.type)]
  BY <1>1 DEF Signed
<1>4. Typed(y, n) /\ Distinct(y) /\ Signed(y)
  BY <1>1, <1>2, <1>3, ReplacedList
<1>5. DOMAIN y.msgs = DOMAIN x.msgs /\ y.num_msgs = x.num_msgs
  BY <1>2 DEF Replaces
<1>6. Counted(y)
  BY <1>1, <1>5 DEF Counted
<1>7. QED
  BY <1>2, <1>4, <1>5, <1>6 DEF ClientOK

(* radius_client_update_timeout registers a time in range.                 *)
LEMMA UpdateTimeoutOK ==
  ASSUME NEW n \in Nat, NEW x, Typed(x, n)
  PROVE  SameList(x, radius_client_update_timeout(x))
<1> DEFINE W == {x.msgs[r].wait : r \in DOMAIN x.msgs}
<1>1. W \in SUBSET Delays /\ (DOMAIN x.msgs # {} => W # {})
  BY DEF Typed, Entry
<1>2. Delays \subseteq Nat /\ 0 \in Delays
  BY RadiusAssumption DEF Delays
<1>3. DOMAIN x.msgs # {} => Oldest(W) \in Delays
  <2> HIDE DEF W
  <2>1. QED
    BY <1>1, <1>2, OldestExists
<1>4. SameList(x, cancel_timeout(x))
  BY <1>2, RegisterTyped
<1>5. Typed(cancel_timeout(x), n)
  BY <1>4 DEF SameList, Typed
<1>6. DOMAIN x.msgs # {} =>
        SameList(cancel_timeout(x), register_timeout(cancel_timeout(x), Oldest(W)))
  <2> HIDE DEF W
  <2>1. QED
    BY <1>3, <1>5, RegisterTyped
<1>7. radius_client_update_timeout(x) =
        IF DOMAIN x.msgs = {} THEN cancel_timeout(x)
        ELSE register_timeout(cancel_timeout(x), Oldest(W))
  BY DEF radius_client_update_timeout
<1> HIDE DEF W
<1>8. QED
  BY <1>4, <1>6, <1>7 DEF SameList

Added(x, y, r, e) ==
  /\ DOMAIN y.msgs \subseteq DOMAIN x.msgs \cup {r}
  /\ \A q \in DOMAIN y.msgs : y.msgs[q] = IF q = r THEN e ELSE x.msgs[q]

(* radius_client_list_add: the list takes one more message, or one for the *)
(* oldest.                                                                 *)
LEMMA ListAddOK ==
  ASSUME NEW n \in Nat, NEW x, ClientOK(x, n), NEW e \in Entry,
         \A q \in DOMAIN x.msgs : x.msgs[q].id # e.id,
         conf.differ /\ ~conf.primary /\ e.type # "interim" => e.secret = x.serv[Kind(e.type)],
         NEW z, z = radius_client_list_add(x, n + 1, e)
  PROVE  ClientOK(z, n + 1) /\ Added(x, z, n + 1, e)
<1>1. Typed(x, n) /\ Distinct(x) /\ Signed(x) /\ Counted(x) /\ x.num_msgs \in Int
      /\ DOMAIN x.msgs \subseteq 1..n
  BY DEF ClientOK, Typed
<1>2. PICK r : r = n + 1
  OBVIOUS
<1>3. PICK w : w = With(x, r, e)
  OBVIOUS
<1>4. Replaces(x, w, r, e)
  BY <1>1, <1>3, WithReplaces
<1>5. Typed(w, n + 1) /\ Distinct(w) /\ Signed(w)
  <2>1. n + 1 \in Nat /\ n <= n + 1 /\ r \in 1..(n + 1)
    BY <1>2
  <2>2. QED
    BY <1>1, <1>4, <2>1, ReplacedList
<1>6. PICK y : y = radius_client_update_timeout(w)
  OBVIOUS
<1>7. SameList(w, y)
  BY <1>5, <1>6, UpdateTimeoutOK
<1>8. Typed(y, n + 1) /\ Distinct(y) /\ Signed(y) /\ Shape(y)
  BY <1>5, <1>7 DEF SameList, Typed, Distinct, Signed
<1>9. /\ y.num_msgs = x.num_msgs /\ DOMAIN y.msgs = DOMAIN x.msgs \cup {r}
      /\ \A q \in DOMAIN y.msgs : y.msgs[q] = IF q = r THEN e ELSE x.msgs[q]
  BY <1>4, <1>7 DEF SameList, Replaces
<1>10. z = IF x.num_msgs >= MAX_ENTRIES
           THEN Without(y, {Oldest(DOMAIN y.msgs)} \ {r})
           ELSE [y EXCEPT !.num_msgs = @ + 1]
  BY <1>2, <1>3, <1>6 DEF radius_client_list_add
<1>11. IsFiniteSet(DOMAIN x.msgs) /\ Cardinality(DOMAIN x.msgs) \in Nat
  BY <1>1, MsgsFinite
<1>12. r \notin DOMAIN x.msgs /\ MAX_ENTRIES \in Nat \ {0}
  BY <1>1, <1>2, RadiusAssumption
<1>13. IsFiniteSet(DOMAIN y.msgs) /\ Cardinality(DOMAIN y.msgs) = Cardinality(DOMAIN x.msgs) + 1
  BY <1>9, <1>11, <1>12, FS_AddElement
<1>14. CASE x.num_msgs >= MAX_ENTRIES
  <2> DEFINE o == Oldest(DOMAIN y.msgs)
  <2>1. o \in DOMAIN y.msgs /\ \A q \in DOMAIN y.msgs : o <= q
    <3>1. DOMAIN y.msgs \in SUBSET Nat /\ DOMAIN y.msgs # {}
      BY <1>1, <1>2, <1>9
    <3>2. QED
      BY <3>1, OldestExists
  <2> HIDE DEF o
  <2>2. /\ Removes(y, z, {o} \ {r}) /\ z.num_msgs = x.num_msgs
        /\ z.next_radius_identifier = y.next_radius_identifier
    BY <1>8, <1>9, <1>10, <1>14 DEF Removes, SameServers, Without, Shape, o
  <2>3. y.next_radius_identifier \in Ids
    BY <1>8 DEF Typed
  <2>4. Typed(z, n + 1) /\ Distinct(z) /\ Signed(z)
    BY <1>1, <1>8, <2>2, <2>3, RemovedList
  <2>5. DOMAIN z.msgs = DOMAIN y.msgs \ ({o} \ {r})
        /\ \A q \in DOMAIN z.msgs : z.msgs[q] = y.msgs[q]
    BY <2>2 DEF Removes
  <2>6. Cardinality(DOMAIN z.msgs) <= x.num_msgs
    <3>1. CASE o = r
      <4>1. DOMAIN x.msgs = {}
        <5>1. SUFFICES ASSUME NEW q \in DOMAIN x.msgs PROVE FALSE
          BY Zenon
        <5>2. q \in 1..n /\ r <= q
          BY <1>1, <1>9, <2>1, <3>1
        <5>3. QED
          BY <1>2, <5>2
      <4>2. Cardinality(DOMAIN x.msgs) = 0
        BY <4>1, FS_EmptySet
      <4>3. DOMAIN z.msgs = DOMAIN y.msgs
        BY <2>5, <3>1
      <4>4. QED
        BY <1>1, <1>12, <1>13, <1>14, <4>2, <4>3
    <3>2. CASE o # r
      <4>1. DOMAIN z.msgs = DOMAIN y.msgs \ {o}
        BY <2>5, <3>2
      <4>2. Cardinality(DOMAIN z.msgs) = Cardinality(DOMAIN y.msgs) - 1
        BY <1>13, <2>1, <4>1, FS_RemoveElement
      <4>3. QED
        BY <1>1, <1>11, <1>13, <4>2 DEF Counted
    <3>3. QED
      BY <3>1, <3>2
  <2>7. Counted(z)
    BY <1>1, <2>2, <2>6 DEF Counted
  <2>8. QED
    BY <1>2, <1>9, <2>4, <2>5, <2>7 DEF ClientOK, Added
<1>15. CASE ~(x.num_msgs >= MAX_ENTRIES)
  <2>1. z = [y EXCEPT !.num_msgs = y.num_msgs + 1]
    BY <1>10, <1>15
  <2>2. /\ Shape(z) /\ z.msgs = y.msgs /\ z.num_msgs = x.num_msgs + 1
        /\ z.next_radius_identifier = y.next_radius_identifier
        /\ z.timers = y.timers /\ SameServers(y, z)
    BY <1>8, <1>9, <2>1 DEF Shape, SameServers
  <2>sock. SocketsOK(z) /\ z.serv = y.serv
    BY <1>8, <2>2, SameSockets DEF Typed, SameServers
  <2>3. Typed(z, n + 1) /\ Distinct(z) /\ Signed(z)
    BY <1>1, <1>8, <2>2, <2>sock DEF Typed, Distinct, Signed
  <2>4. Counted(z)
    BY <1>1, <1>11, <1>12, <1>13, <1>15, <2>2 DEF Counted
  <2>5. QED
    BY <1>2, <1>9, <2>2, <2>3, <2>4 DEF ClientOK, Added
<1>16. QED
  BY <1>14, <1>15

(* An entry that leaves the loop is discounted.                            *)
LEMMA DiscountedOne ==
  ASSUME NEW n \in Nat, NEW x, ClientOK(x, n), NEW r \in DOMAIN x.msgs
  PROVE  /\ ClientOK(Discounted(x, {r}), n) /\ Follows(x, Discounted(x, {r}))
         /\ DOMAIN Discounted(x, {r}).msgs = DOMAIN x.msgs \ {r}
<1>1. PICK gone \in SUBSET DOMAIN x.msgs : gone = {r}
  OBVIOUS
<1>2. PICK y : y = Discounted(x, gone)
  OBVIOUS
<1>3. ClientOK(y, n) /\ Follows(x, y) /\ DOMAIN y.msgs = DOMAIN x.msgs \ gone
  BY <1>2, DiscountedOK
<1>4. QED
  BY <1>1, <1>2, <1>3

(* The removal in radius_client_receive and in the loop discounts one      *)
(* message.                                                                *)
LEMMA RemoveOne ==
  ASSUME NEW x, NEW r, NEW y, y = [Without(x, {r}) EXCEPT !.num_msgs = @ - 1]
  PROVE  y = Discounted(x, {r})
<1>1. Cardinality({r}) = 1
  BY FS_Singleton
<1>2. QED
  BY <1>1 DEF Discounted

-----------------------------------------------------------------------------
(* The inductive invariant.                                                *)

PassOK(p) ==
  p \in [state : {"idle", "loop", "undefined", "freed"},
         entry : 0..MaxReq, prev : 0..MaxReq,
         failover : SUBSET Kinds, first : 0..Unset]

(* How often the messages of x were tried while the loop is where p has    *)
(* it: a message of authentication that was tried too often was visited    *)
(* in this run of the timer and asked for a failover, any other message is *)
(* removed before its tries are used up.                                   *)
TriedMessage(x, p, r) ==
  IF x.msgs[r].type = "auth"
  THEN \/ x.msgs[r].attempts <= NUM_FAILOVER
       \/ p.state = "loop" /\ "auth" \in p.failover /\ r > p.entry
  ELSE x.msgs[r].attempts < MAX_RETRIES

Tried(x, p) ==
  p.state # "undefined" => \A r \in DOMAIN x.msgs : TriedMessage(x, p, r)

(* No message of the list was answered, nor one that was not made.         *)
Unanswered(x, n, a) ==
  /\ a \in [Requests -> Nat]
  /\ \A r \in Requests : a[r] > 0 => r <= n /\ r \notin DOMAIN x.msgs

(* radius_client_get_id took a message and did not count it.               *)
Short(x) == Cardinality(DOMAIN x.msgs) < x.num_msgs

(* The entry that links to the visited one is there, as no failover since  *)
(* has removed one; only radius_client_get_id can have taken it.           *)
PrevOK(x, p) == p.prev \in DOMAIN x.msgs \cup {NULL} \/ Short(x)

(* Where the loop stands.                                                  *)
InLoop(x, p) ==
  /\ p.state = "loop" =>
       /\ p.entry \in DOMAIN x.msgs \cup {NULL}
       /\ p.prev = NULL \/ p.prev > p.entry
       /\ PrevOK(x, p)
  /\ p.state = "undefined" => Short(x)
  /\ p.state = "freed" => x.timers = NoTimer

Inv ==
  /\ conf \in Conf /\ last \in 0..MaxReq
  /\ ClientOK(c, last)
  /\ PassOK(pass)
  /\ Tried(c, pass)
  /\ Unanswered(c, last, answers)
  /\ InLoop(c, pass)

(* What a step does to the requests: some are dropped; one is taken; one   *)
(* is answered.                                                            *)
Drops ==
  last' = last /\ answers' = answers /\ DOMAIN c'.msgs \subseteq DOMAIN c.msgs

Takes ==
  /\ last < MaxReq /\ last' = last + 1 /\ answers' = answers
  /\ DOMAIN c'.msgs \subseteq DOMAIN c.msgs \cup {last + 1}

Gives ==
  /\ last' = last
  /\ \E r \in DOMAIN c.msgs : /\ DOMAIN c'.msgs = DOMAIN c.msgs \ {r}
                             /\ answers' = [answers EXCEPT ![r] = @ + 1]

(* What all the actions have to show.                                      *)
LEMMA InvPrimed ==
  ASSUME Inv, conf' = conf, last' \in 0..MaxReq, ClientOK(c', last'), PassOK(pass'),
         Tried(c', pass'), InLoop(c', pass'), Drops \/ Takes \/ Gives
  PROVE  Inv'
<1>1. Unanswered(c', last', answers')
  <2>0. /\ MaxReq \in Nat /\ last \in 0..MaxReq /\ Unanswered(c, last, answers)
        /\ DOMAIN c.msgs \subseteq 1..last
    BY RadiusAssumption DEF Inv, ClientOK, Typed
  <2>1. CASE Drops
    BY <2>0, <2>1 DEF Unanswered, Drops
  <2>2. CASE Takes
    BY <2>0, <2>2 DEF Unanswered, Takes, Requests
  <2>3. CASE Gives
    <3>1. PICK r \in DOMAIN c.msgs : /\ DOMAIN c'.msgs = DOMAIN c.msgs \ {r}
                                    /\ answers' = [answers EXCEPT ![r] = @ + 1]
      BY <2>3 DEF Gives
    <3>2. r \in Requests /\ r <= last /\ last' = last
      BY <2>0, <2>3 DEF Gives, Requests
    <3>3. QED
      BY <2>0, <3>1, <3>2 DEF Unanswered
  <2>4. QED
    BY <2>1, <2>2, <2>3
<1>2. ClientOK(c, last)'
  BY DEF ClientOK, Typed, SocketsOK, Reached, Counted, Distinct, Signed, Shape
<1>3. PassOK(pass)' /\ Tried(c, pass)' /\ InLoop(c, pass)' /\ Unanswered(c, last, answers)'
  BY <1>1 DEF PassOK, Tried, TriedMessage, InLoop, PrevOK, Short, Unanswered
<1>4. QED
  BY <1>2, <1>3 DEF Inv

(* Removing messages and resetting counters keeps the tries within their   *)
(* limits.                                                                 *)
LEMMA TriedFollows ==
  ASSUME NEW n \in Nat, NEW x, NEW y, NEW p, Typed(x, n), Typed(y, n),
         Tried(x, p), Follows(x, y)
  PROVE  Tried(y, p)
<1>1. SUFFICES ASSUME p.state # "undefined", NEW r \in DOMAIN y.msgs
               PROVE  TriedMessage(y, p, r)
  BY DEF Tried
<1>2. r \in DOMAIN x.msgs /\ SameMessage(y.msgs[r], x.msgs[r])
  BY DEF Follows
<1>3. TriedMessage(x, p, r)
  BY <1>1, <1>2 DEF Tried
<1>4. NUM_FAILOVER \in Nat /\ MAX_RETRIES \in Nat /\ 0 < MAX_RETRIES
  BY RadiusAssumption
<1>5. y.msgs[r].type = x.msgs[r].type
      /\ (y.msgs[r].attempts = x.msgs[r].attempts \/ y.msgs[r].attempts = 0)
  BY <1>2 DEF SameMessage
<1>6. QED
  BY <1>3, <1>4, <1>5 DEF TriedMessage

Freed == [Idle EXCEPT !.state = "freed"]
IdleStep ==
  /\ ~Busy /\ conf' = conf /\ last' = last /\ answers' = answers
  /\ \/ pass' = pass
     \/ pass' = Freed /\ c'.timers = NoTimer

(* Actions that at most remove messages while no loop is under way.        *)
LEMMA RemovalKeepsInv ==
  ASSUME Inv, IdleStep, ClientOK(c', last), Follows(c, c')
  PROVE  Inv' /\ Drops
<1>1. last \in Nat /\ Typed(c, last) /\ Typed(c', last)
  BY RadiusAssumption DEF Inv, ClientOK
<1>2. Tried(c', pass)
  BY <1>1, TriedFollows DEF Inv
<1>3. Drops
  BY DEF Drops, Follows, IdleStep
<1>4. pass.state = "idle"
  BY DEF Busy, IdleStep
<1>5. PassOK(pass') /\ Tried(c', pass') /\ InLoop(c', pass')
  <2>1. CASE pass' = pass
    BY <1>2, <1>4, <2>1 DEF Inv, InLoop
  <2>2. CASE pass' = Freed /\ c'.timers = NoTimer
    <3>1. pass' = [state |-> "freed", entry |-> 0, prev |-> 0, failover |-> {},
                   first |-> MAX_WAIT + 1]
      BY <2>2 DEF Freed, Idle, NULL, Unset
    <3>2. PassOK(pass')
      BY <3>1, RadiusAssumption DEF PassOK, Unset
    <3>3. Tried(c', pass')
      BY <1>2, <1>4, <3>1 DEF Tried, TriedMessage
    <3>4. InLoop(c', pass')
      BY <2>2, <3>1 DEF InLoop
    <3>5. QED
      BY <3>2, <3>3, <3>4
  <2>3. QED
    BY <2>1, <2>2 DEF IdleStep
<1>6. last \in 0..MaxReq /\ last' = last /\ conf' = conf
  BY DEF Inv, IdleStep
<1>7. QED
  BY <1>3, <1>5, <1>6, InvPrimed

(* A freed station (radius_client_flush_auth) keeps the invariant.         *)
LEMMA StationFreedInv ==
  ASSUME Inv, NEW addr \in Addr, StationFreed(addr)
  PROVE  Inv' /\ Drops
<1>1. last \in Nat /\ ClientOK(c, last)
  BY RadiusAssumption DEF Inv
<1>2. c' = radius_client_flush_auth(c, addr)
  BY DEF StationFreed
<1>3. ClientOK(c', last) /\ Follows(c, c')
  BY <1>1, <1>2, FlushAuthOK
<1>4. IdleStep
  BY DEF IdleStep, StationFreed
<1>5. QED
  BY <1>3, <1>4, RemovalKeepsInv

(* A reload of the configuration (radius_client_flush) keeps the invariant.*)
LEMMA ReloadInv ==
  ASSUME Inv, Reload
  PROVE  Inv' /\ Drops
<1>1. last \in Nat /\ ClientOK(c, last)
  BY RadiusAssumption DEF Inv
<1>2. PICK serv \in {FirstServers, c.serv} :
        c' = [radius_client_flush(c, FALSE) EXCEPT
                !.serv = serv,
                !.lost = @ \cup Lost(c, {k \in Kinds : serv[k] # c.serv[k]})]
  BY DEF Reload
<1>3. PICK x : x = radius_client_flush(c, FALSE)
  OBVIOUS
<1>4. ClientOK(x, last) /\ Follows(c, x) /\ Flushed(c, x, FALSE)
  BY <1>1, <1>3, FlushOK
<1>5. DOMAIN x.msgs = {} /\ SameServers(c, x) /\ Typed(x, last) /\ Shape(x)
  BY <1>4 DEF Flushed, ClientOK, Typed
<1> DEFINE moved == Lost(c, {k \in Kinds : serv[k] # c.serv[k]})
<1>6. c' = [x EXCEPT !.serv = serv, !.lost = @ \cup moved]
  BY <1>2, <1>3
<1>7. /\ moved \in SUBSET Kinds
      /\ \A k \in Kinds : conf.differ /\ c.sock[k] = "conn" /\ k \notin moved => serv[k] = c.serv[k]
  BY DEF Lost
<1> HIDE DEF moved
<1>8. /\ Shape(c') /\ c'.msgs = x.msgs /\ c'.num_msgs = x.num_msgs /\ c'.timers = x.timers
      /\ c'.next_radius_identifier = x.next_radius_identifier /\ c'.serv = serv
      /\ c'.sock = c.sock /\ c'.peer = c.peer /\ c'.lost = c.lost \cup moved
  BY <1>5, <1>6 DEF Shape, SameServers
<1>9. serv \in [Kinds -> 1..conf.num]
  <2>1. c.serv \in [Kinds -> 1..conf.num] /\ conf \in Conf
    BY <1>1 DEF Inv, ClientOK, Typed
  <2>2. QED
    BY <2>1, ConfTyped DEF FirstServers
<1>10. SocketsOK(c')
  <2>1. SocketsOK(c)
    BY <1>1 DEF ClientOK, Typed
  <2>2. QED
    BY <1>7, <1>8, <2>1 DEF SocketsOK, Reached
<1>11. ClientOK(c', last)
  <2>1. Typed(c', last)
    BY <1>5, <1>8, <1>9, <1>10 DEF Typed
  <2>2. Counted(c') /\ Distinct(c') /\ Signed(c')
    BY <1>4, <1>5, <1>8 DEF ClientOK, Counted, Distinct, Signed
  <2>3. QED
    BY <2>1, <2>2 DEF ClientOK
<1>12. Follows(c, c')
  BY <1>5, <1>8 DEF Follows
<1>13. IdleStep
  BY DEF IdleStep, Reload
<1>14. QED
  BY <1>11, <1>12, <1>13, RemovalKeepsInv

(* radius_client_deinit keeps the invariant and leaves no timer.           *)
LEMMA DeinitInv ==
  ASSUME Inv, radius_client_deinit
  PROVE  Inv' /\ Drops
<1>1. last \in Nat /\ ClientOK(c, last)
  BY RadiusAssumption DEF Inv
<1>2. PICK x : x = [c EXCEPT !.sock = [k \in Kinds |-> "none"],
                             !.peer = [k \in Kinds |-> 0], !.lost = {}]
  OBVIOUS
<1>3. SameList(c, x)
  <2>1. Shape(c) /\ c.timers \in [Delays -> Nat]
    BY <1>1 DEF ClientOK, Typed
  <2>2. /\ Shape(x) /\ x.msgs = c.msgs /\ x.num_msgs = c.num_msgs /\ x.timers = c.timers
        /\ x.next_radius_identifier = c.next_radius_identifier /\ x.serv = c.serv
        /\ x.sock = [k \in Kinds |-> "none"] /\ x.peer = [k \in Kinds |-> 0] /\ x.lost = {}
    BY <1>2, <2>1 DEF Shape
  <2>3. SocketsOK(x)
    BY <2>2 DEF SocketsOK, Reached, SockStates
  <2>4. QED
    BY <2>1, <2>2, <2>3 DEF SameList
<1>4. ClientOK(x, last) /\ Follows(c, x)
  BY <1>1, <1>3, SameListOK
<1>5. c' = radius_client_flush(x, FALSE)
  BY <1>2 DEF radius_client_deinit
<1>6. ClientOK(c', last) /\ Follows(x, c')
  BY <1>1, <1>4, <1>5, FlushOK
<1>7. c'.timers = NoTimer
  <2>1. Flushed(x, c', FALSE)
    BY <1>1, <1>4, <1>5, FlushOK
  <2>2. QED
    BY <2>1 DEF Flushed
<1>8. Follows(c, c')
  BY <1>1, <1>4, <1>6, FollowsTrans DEF ClientOK
<1>9. IdleStep
  BY <1>7 DEF IdleStep, radius_client_deinit, Freed
<1>10. QED
  BY <1>6, <1>8, <1>9, RemovalKeepsInv

(* radius_retry_primary_timer keeps the invariant.                         *)
LEMMA RetryPrimaryInv ==
  ASSUME Inv, radius_retry_primary_timer
  PROVE  Inv' /\ Drops
<1>1. last \in Nat /\ ClientOK(c, last) /\ conf \in Conf /\ conf.primary
  BY RadiusAssumption DEF Inv, radius_retry_primary_timer
<1>2. PICK x \in BackToPrimary(c, "auth") : c' \in BackToPrimary(x, "acct")
  BY DEF radius_retry_primary_timer
<1>3. "auth" \in Kinds /\ "acct" \in Kinds
  BY DEF Kinds
<1>4. ClientOK(x, last) /\ Follows(c, x)
  BY <1>1, <1>2, <1>3, BackToPrimaryOK
<1>5. ClientOK(c', last) /\ Follows(x, c')
  BY <1>1, <1>2, <1>3, <1>4, BackToPrimaryOK
<1>6. Follows(c, c')
  BY <1>1, <1>4, <1>5, FollowsTrans DEF ClientOK
<1>7. IdleStep
  BY DEF IdleStep, radius_retry_primary_timer
<1>8. QED
  BY <1>5, <1>6, <1>7, RemovalKeepsInv

(* An answer takes its request out of the list, accepted or not.           *)
LEMMA ReceiveInv ==
  ASSUME Inv, NEW kind \in Kinds, NEW id \in Ids, radius_client_receive(kind, id)
  PROVE  Inv' /\ (Drops \/ Gives)
<1> DEFINE matching == {r \in DOMAIN c.msgs : Kind(c.msgs[r].type) = kind /\ c.msgs[r].id = id}
           r == Newest(matching)
<1>1. last \in Nat /\ ClientOK(c, last) /\ DOMAIN c.msgs \subseteq 1..last
  BY RadiusAssumption DEF Inv, ClientOK, Typed
<1>2. matching # {} /\ matching \in SUBSET (1..last)
  BY <1>1 DEF radius_client_receive
<1>3. r \in matching
  <2> HIDE DEF matching
  <2>1. QED
    BY <1>1, <1>2, NewestExists
<1>4. r \in DOMAIN c.msgs
  BY <1>3
<1>5. c' = [Without(c, {r}) EXCEPT !.num_msgs = @ - 1]
  BY DEF radius_client_receive
<1>6. /\ ~Busy /\ UNCHANGED <<conf, pass, last>>
      /\ answers' = answers \/ answers' = [answers EXCEPT ![r] = @ + 1]
  BY DEF radius_client_receive
<1> HIDE DEF r, matching
<1>7. c' = Discounted(c, {r})
  BY <1>5, RemoveOne
<1>8. ClientOK(c', last) /\ Follows(c, c') /\ DOMAIN c'.msgs = DOMAIN c.msgs \ {r}
  BY <1>1, <1>4, <1>7, DiscountedOne
<1>9. Drops \/ Gives
  BY <1>4, <1>6, <1>8 DEF Drops, Gives
<1>10. Tried(c', pass)
  BY <1>1, <1>8, TriedFollows DEF Inv, ClientOK
<1>11. PassOK(pass) /\ InLoop(c', pass)
  BY <1>6 DEF Inv, InLoop, Busy
<1>12. last \in 0..MaxReq
  BY DEF Inv
<1>13. QED
  BY <1>6, <1>8, <1>9, <1>10, <1>11, <1>12, InvPrimed

(* One more request was made; the list need not have it.                   *)
LEMMA ClientOKNext ==
  ASSUME NEW n \in Nat, NEW x, ClientOK(x, n)
  PROVE  ClientOK(x, n + 1)
<1>1. DOMAIN x.msgs \subseteq 1..(n + 1)
  BY DEF ClientOK, Typed
<1>2. Typed(x, n + 1)
  BY <1>1 DEF ClientOK, Typed
<1>3. QED
  BY <1>2 DEF ClientOK

(* The entry that radius_client_list_add is given.                         *)
LEMMA NewEntryTyped ==
  ASSUME NEW type \in Types, NEW addr \in Addr, NEW id \in Ids, NEW s \in Servers,
         NEW e, e = NewEntry(type, addr, id, s)
  PROVE  e \in Entry /\ e.type = type /\ e.id = id /\ e.secret = s /\ e.attempts = 1
<1>1. /\ 1 \in 0..MAX_RETRIES /\ FIRST_WAIT \in Delays /\ 2 * FIRST_WAIT \in Delays
      /\ 0 \in 0..FIRST_WAIT
  BY RadiusAssumption DEF Delays
<1>2. QED
  BY <1>1 DEF NewEntry, Entry

(* A request takes the next number; a free identifier, a signature for the *)
(* server in use and a place in the list go with it.                       *)
LEMMA SendInv ==
  ASSUME Inv, NEW type \in Types, NEW addr \in Addr, radius_client_send(type, addr)
  PROVE  Inv' /\ Takes
<1> DEFINE kind == Kind(type)
           id == c.next_radius_identifier
           Secret(x) == IF conf.differ THEN x.serv[kind] ELSE 1
<1>1. /\ last \in Nat /\ ClientOK(c, last) /\ conf \in Conf /\ last < MaxReq /\ MaxReq \in Nat
      /\ pass.state = "idle"
  BY RadiusAssumption DEF Inv, radius_client_send, Busy
<1>2. kind \in Kinds
  BY DEF Kind, Kinds
<1>3. PICK g : g = radius_client_get_id(c)
  OBVIOUS
<1>4. PICK x \in Opened(g, kind) :
        \/ c' = x
        \/ /\ c' = radius_client_list_add(x, last + 1, NewEntry(type, addr, id, Secret(x)))
        \/ \E res \in InitResults :
             c' = radius_client_list_add(radius_client_init_sock(x, kind, res), last + 1,
                                         NewEntry(type, addr, id, Secret(x)))
  BY <1>3 DEF radius_client_send
<1>5. conf' = conf /\ last' = last + 1 /\ pass' = pass /\ answers' = answers
  BY DEF radius_client_send
<1> HIDE DEF kind
<1>6. /\ ClientOK(g, last) /\ Follows(c, g) /\ id \in Ids
      /\ \A q \in DOMAIN g.msgs : g.msgs[q].id # id
  BY <1>1, <1>3, GetIdOK
<1> HIDE DEF id
<1>7. SameList(g, x)
  BY <1>1, <1>2, <1>4, <1>6, OpenedOK
<1>8. ClientOK(x, last) /\ x.msgs = g.msgs
  BY <1>1, <1>6, <1>7, SameListOK DEF SameList
<1>9. Tried(g, pass)
  BY <1>1, <1>6, TriedFollows DEF Inv, ClientOK
<1>10. Secret(x) \in Servers
  <2>1. x.serv \in [Kinds -> 1..conf.num] /\ conf.num \in {1, 2}
    BY <1>1, <1>8, ConfTyped DEF ClientOK, Typed
  <2>2. QED
    BY <1>2, <2>1 DEF Servers
<1>11. PICK e : e = NewEntry(type, addr, id, Secret(x))
  OBVIOUS
<1>12. e \in Entry /\ e.type = type /\ e.id = id /\ e.secret = Secret(x) /\ e.attempts = 1
  BY <1>6, <1>10, <1>11, NewEntryTyped
<1>13. conf.differ => e.secret = x.serv[Kind(e.type)]
  BY <1>12 DEF kind
<1> HIDE DEF Secret
<1>14. ASSUME NEW y, SameList(x, y), c' = radius_client_list_add(y, last + 1, e)
       PROVE  /\ ClientOK(c', last + 1) /\ Tried(c', pass)
              /\ DOMAIN c'.msgs \subseteq DOMAIN c.msgs \cup {last + 1}
  <2>1. ClientOK(y, last) /\ y.msgs = g.msgs /\ y.serv = x.serv
    BY <1>1, <1>8, <1>14, SameListOK DEF SameList
  <2>2. \A q \in DOMAIN y.msgs : y.msgs[q].id # e.id
    BY <1>6, <1>12, <2>1
  <2>3. conf.differ /\ ~conf.primary /\ e.type # "interim" => e.secret = y.serv[Kind(e.type)]
    BY <1>13, <2>1
  <2>4. /\ ClientOK(c', last + 1)
        /\ DOMAIN c'.msgs \subseteq DOMAIN y.msgs \cup {last + 1}
        /\ \A q \in DOMAIN c'.msgs : c'.msgs[q] = IF q = last + 1 THEN e ELSE y.msgs[q]
    <3>1. ClientOK(c', last + 1) /\ Added(y, c', last + 1, e)
      BY <1>1, <1>12, <1>14, <2>1, <2>2, <2>3, ListAddOK
    <3>2. QED
      BY <3>1 DEF Added
  <2>5. DOMAIN c'.msgs \subseteq DOMAIN c.msgs \cup {last + 1}
    BY <1>6, <2>1, <2>4 DEF Follows
  <2>6. Tried(c', pass)
    <3>1. SUFFICES ASSUME pass.state # "undefined", NEW r \in DOMAIN c'.msgs
                   PROVE  TriedMessage(c', pass, r)
      BY DEF Tried
    <3>2. CASE r = last + 1
      <4>1. c'.msgs[r] = e
        BY <2>4, <3>2
      <4>2. QED
        BY <1>12, <4>1, RadiusAssumption DEF TriedMessage
    <3>3. CASE r # last + 1
      <4>1. r \in DOMAIN g.msgs /\ c'.msgs[r] = g.msgs[r]
        BY <2>1, <2>4, <3>3
      <4>2. TriedMessage(g, pass, r)
        BY <1>9, <3>1, <4>1 DEF Tried
      <4>3. QED
        BY <4>1, <4>2 DEF TriedMessage
    <3>4. QED
      BY <3>2, <3>3
  <2>7. QED
    BY <2>4, <2>5, <2>6
<1>15. /\ ClientOK(c', last + 1) /\ Tried(c', pass)
       /\ DOMAIN c'.msgs \subseteq DOMAIN c.msgs \cup {last + 1}
  <2>1. CASE c' = x
    <3>1. ClientOK(x, last + 1)
      BY <1>1, <1>8, ClientOKNext
    <3>2. Tried(x, pass)
      BY <1>8, <1>9 DEF Tried, TriedMessage
    <3>3. QED
      BY <1>6, <1>8, <2>1, <3>1, <3>2 DEF Follows
  <2>2. CASE c' = radius_client_list_add(x, last + 1, e)
    <3>1. SameList(x, x)
      BY <1>8 DEF SameList, ClientOK, Typed
    <3>2. QED
      BY <1>14, <2>2, <3>1
  <2>3. ASSUME NEW res \in InitResults,
               c' = radius_client_list_add(radius_client_init_sock(x, kind, res), last + 1, e)
        PROVE  /\ ClientOK(c', last + 1) /\ Tried(c', pass)
               /\ DOMAIN c'.msgs \subseteq DOMAIN c.msgs \cup {last + 1}
    <3>1. SameList(x, radius_client_init_sock(x, kind, res))
      BY <1>1, <1>2, <1>8, InitSockOK
    <3>2. QED
      BY <1>14, <2>3, <3>1
  <2>4. QED
    BY <1>4, <1>11, <2>1, <2>2, <2>3
<1>16. Takes
  BY <1>1, <1>5, <1>15 DEF Takes
<1>17. PassOK(pass) /\ InLoop(c', pass) /\ last + 1 \in 0..MaxReq
  BY <1>1 DEF Inv, InLoop
<1>18. QED
  BY <1>5, <1>15, <1>16, <1>17, InvPrimed

-----------------------------------------------------------------------------
(* The timer and the passing of time.                                      *)

(* The local variables of radius_client_timer before and at the start of   *)
(* its loop.                                                               *)
LEMMA IdleOK ==
  /\ PassOK(Idle) /\ Idle.state = "idle" /\ Idle.entry = NULL /\ Idle.failover = {}
  /\ \A r \in 0..MaxReq :
       /\ PassOK([Idle EXCEPT !.state = "loop", !.entry = r])
       /\ [Idle EXCEPT !.state = "loop", !.entry = r].state = "loop"
       /\ [Idle EXCEPT !.state = "loop", !.entry = r].entry = r
       /\ [Idle EXCEPT !.state = "loop", !.entry = r].prev = NULL
<1>1. 0 \in 0..MaxReq /\ MAX_WAIT + 1 \in 0..(MAX_WAIT + 1)
  BY RadiusAssumption
<1>2. PassOK(Idle) /\ Idle.state = "idle" /\ Idle.entry = NULL /\ Idle.failover = {}
  BY <1>1 DEF PassOK, Idle, NULL, Unset
<1>3. ASSUME NEW r \in 0..MaxReq
      PROVE  /\ PassOK([Idle EXCEPT !.state = "loop", !.entry = r])
             /\ [Idle EXCEPT !.state = "loop", !.entry = r].state = "loop"
             /\ [Idle EXCEPT !.state = "loop", !.entry = r].entry = r
             /\ [Idle EXCEPT !.state = "loop", !.entry = r].prev = NULL
  BY <1>1 DEF PassOK, Idle, NULL, Unset
<1>4. QED
  BY <1>2, <1>3, Zenon

(* radius_client_timer keeps the invariant up to its loop.                 *)
LEMMA TimerInv ==
  ASSUME Inv, radius_client_timer
  PROVE  Inv' /\ Drops
<1>1. /\ last \in Nat /\ last \in 0..MaxReq /\ ClientOK(c, last) /\ pass.state = "idle"
      /\ MaxReq \in Nat /\ DOMAIN c.msgs \subseteq 1..last
  BY RadiusAssumption DEF Inv, radius_client_timer, Busy, ClientOK, Typed
<1>2. SameList(c, c')
  <2>1. /\ Shape(c) /\ c.timers \in [Delays -> Nat] /\ SocketsOK(c)
        /\ 0 \in Delays /\ c.timers[0] > 0
    BY <1>1, RadiusAssumption DEF ClientOK, Typed, Delays, radius_client_timer, TimerDue
  <2>2. c' = [c EXCEPT !.timers[0] = @ - 1]
    BY DEF radius_client_timer
  <2>3. SameServers(c, c') /\ Shape(c')
    BY <2>1, <2>2 DEF SameServers, Shape
  <2>4. SocketsOK(c')
    BY <2>1, <2>3, SameSockets
  <2>5. QED
    BY <2>1, <2>2, <2>3, <2>4 DEF SameList, Shape
<1>3. ClientOK(c', last) /\ Follows(c, c') /\ c'.msgs = c.msgs
  BY <1>1, <1>2, SameListOK DEF SameList
<1>4. conf' = conf /\ last' = last /\ answers' = answers
  BY DEF radius_client_timer
<1>5. Drops
  BY <1>3, <1>4 DEF Drops
<1>6. PassOK(pass') /\ Tried(c', pass') /\ InLoop(c', pass')
  <2>1. Tried(c', pass)
    BY <1>1, <1>3, TriedFollows DEF Inv, ClientOK
  <2>2. CASE pass' = pass
    BY <1>1, <2>1, <2>2 DEF Inv, InLoop
  <2>3. CASE DOMAIN c.msgs # {}
    <3>1. PICK r : r = Newest(DOMAIN c.msgs)
      OBVIOUS
    <3>2. r \in DOMAIN c.msgs /\ r \in 0..MaxReq
      <4>1. DOMAIN c.msgs \in SUBSET (1..last)
        BY <1>1
      <4>2. r \in DOMAIN c.msgs
        BY <1>1, <2>3, <3>1, <4>1, NewestExists
      <4>3. QED
        BY <1>1, <4>2
    <3>3. pass' = [Idle EXCEPT !.state = "loop", !.entry = r]
      BY <2>3, <3>1 DEF radius_client_timer
    <3>4. PassOK(pass') /\ pass'.state = "loop" /\ pass'.entry = r /\ pass'.prev = NULL
      BY <3>2, <3>3, IdleOK, Zenon
    <3>5. Tried(c', pass')
      BY <1>1, <2>1, <3>4 DEF Tried, TriedMessage
    <3>6. InLoop(c', pass')
      BY <1>3, <3>2, <3>4 DEF InLoop, PrevOK
    <3>7. QED
      BY <3>4, <3>5, <3>6
  <2>4. QED
    BY <2>2, <2>3 DEF radius_client_timer
<1>7. QED
  BY <1>1, <1>3, <1>4, <1>5, <1>6, InvPrimed

(* Behind the loop the failovers asked for leave no message of             *)
(* authentication that was tried too often.                                *)
LEMMA TimerEndInv ==
  ASSUME Inv, TimerEnd
  PROVE  Inv' /\ Drops
<1>1. /\ last \in Nat /\ last \in 0..MaxReq /\ ClientOK(c, last) /\ pass.state = "loop"
      /\ conf \in Conf /\ PassOK(pass) /\ Tried(c, pass)
  BY RadiusAssumption DEF Inv, TimerEnd
<1> DEFINE d == IF pass.first = Unset THEN 0 ELSE pass.first
           armed == IF DOMAIN c.msgs = {} THEN c ELSE register_timeout(c, d)
<1>2. PICK x \in FailoverIf(armed, "auth") : c' \in FailoverIf(x, "acct")
  BY DEF TimerEnd
<1>3. conf' = conf /\ last' = last /\ answers' = answers /\ pass' = Idle
  BY DEF TimerEnd
<1>4. d \in Delays
  BY <1>1, RadiusAssumption DEF PassOK, Delays, Unset
<1> HIDE DEF d
<1>5. SameList(c, armed)
  <2>1. SameList(c, c)
    BY <1>1 DEF SameList, ClientOK, Typed
  <2>2. SameList(c, register_timeout(c, d))
    BY <1>1, <1>4, RegisterOK
  <2>3. QED
    BY <2>1, <2>2
<1> HIDE DEF armed
<1>6. ClientOK(armed, last) /\ Follows(c, armed) /\ armed.msgs = c.msgs
  BY <1>1, <1>5, SameListOK DEF SameList
<1>7. "auth" \in Kinds /\ "acct" \in Kinds
  BY DEF Kinds
<1>8. /\ ClientOK(x, last) /\ Follows(armed, x)
      /\ ("auth" \in pass.failover /\ StartedOver(x)) \/ ("auth" \notin pass.failover /\ x = armed)
  <2>1. CASE "auth" \in pass.failover
    <3>1. PICK res \in ChangeResults : x = failover(armed, "auth", res)
      BY <1>2, <2>1 DEF FailoverIf, ConnectResults, ChangeResults, Failures
    <3>2. QED
      BY <1>1, <1>6, <1>7, <2>1, <3>1, FailoverOK DEF Survives
  <2>2. CASE "auth" \notin pass.failover
    <3>1. x = armed
      BY <1>2, <2>2 DEF FailoverIf
    <3>2. QED
      BY <1>6, <2>2, <3>1, FollowsSelf
  <2>3. QED
    BY <2>1, <2>2
<1>9. ClientOK(c', last) /\ Follows(x, c')
  <2>1. CASE "acct" \in pass.failover
    <3>1. PICK res \in ChangeResults : c' = failover(x, "acct", res)
      BY <1>2, <2>1 DEF FailoverIf, ConnectResults, ChangeResults, Failures
    <3>2. QED
      BY <1>1, <1>7, <1>8, <3>1, FailoverOK DEF Survives
  <2>2. CASE "acct" \notin pass.failover
    <3>1. c' = x
      BY <1>2, <2>2 DEF FailoverIf
    <3>2. QED
      BY <1>8, <3>1, FollowsSelf
  <2>3. QED
    BY <2>1, <2>2
<1>10. Typed(c, last) /\ Typed(armed, last) /\ Typed(x, last) /\ Typed(c', last)
  BY <1>1, <1>6, <1>8, <1>9 DEF ClientOK
<1>11. Tried(x, Idle)
  <2>1. SUFFICES ASSUME NEW r \in DOMAIN x.msgs
                 PROVE  TriedMessage(x, Idle, r)
    BY DEF Tried
  <2>2. Tried(x, pass)
    BY <1>1, <1>6, <1>8, <1>10, TriedFollows DEF Tried, TriedMessage
  <2>3. TriedMessage(x, pass, r)
    BY <1>1, <2>2 DEF Tried
  <2>4. NUM_FAILOVER \in Nat
    BY RadiusAssumption
  <2>5. CASE "auth" \in pass.failover
    <3>1. x.msgs[r].type = "auth" => x.msgs[r].attempts = 0
      BY <1>8, <2>5 DEF StartedOver
    <3>2. QED
      BY <2>3, <2>4, <3>1 DEF TriedMessage
  <2>6. CASE "auth" \notin pass.failover
    BY <2>3, <2>6 DEF TriedMessage
  <2>7. QED
    BY <2>5, <2>6
<1>12. Tried(c', Idle)
  BY <1>1, <1>9, <1>10, <1>11, TriedFollows
<1>13. Follows(c, c')
  <2>1. Follows(c, x)
    BY <1>1, <1>6, <1>8, <1>10, FollowsTrans
  <2>2. QED
    BY <1>1, <1>9, <1>10, <2>1, FollowsTrans
<1>14. Drops
  BY <1>3, <1>13 DEF Drops, Follows
<1>15. PassOK(pass') /\ Tried(c', pass') /\ InLoop(c', pass')
  BY <1>3, <1>12, IdleOK DEF InLoop
<1>16. QED
  BY <1>1, <1>3, <1>9, <1>14, <1>15, InvPrimed

(* An entry stays one as time passes.                                      *)
LEMMA TickTyped ==
  ASSUME NEW e \in Entry,
         NEW f, f = [e EXCEPT !.wait = Less(@), !.age = IF @ < FIRST_WAIT THEN @ + 1 ELSE @]
  PROVE  /\ f \in Entry /\ f.type = e.type /\ f.id = e.id /\ f.secret = e.secret
         /\ f.attempts = e.attempts
<1>1. Less(e.wait) \in Delays
  BY RadiusAssumption DEF Entry, Delays, Less
<1>2. (IF e.age < FIRST_WAIT THEN e.age + 1 ELSE e.age) \in 0..FIRST_WAIT
  BY RadiusAssumption DEF Entry
<1>3. PICK w \in Delays : w = Less(e.wait)
  BY <1>1
<1>4. PICK a \in 0..FIRST_WAIT : a = IF e.age < FIRST_WAIT THEN e.age + 1 ELSE e.age
  BY <1>2
<1>5. f = [e EXCEPT !.wait = w, !.age = a]
  BY <1>3, <1>4
<1>6. QED
  BY <1>5 DEF Entry

(* The passing of a second keeps the invariant.                            *)
LEMMA TickInv ==
  ASSUME Inv, Tick
  PROVE  Inv' /\ Drops
<1>1. /\ last \in Nat /\ last \in 0..MaxReq /\ ClientOK(c, last) /\ pass.state = "idle"
      /\ Typed(c, last) /\ Shape(c)
  BY RadiusAssumption DEF Inv, Tick, Busy, ClientOK, Typed
<1> DEFINE Older(e) == [e EXCEPT !.wait = Less(@), !.age = IF @ < FIRST_WAIT THEN @ + 1 ELSE @]
           M == [r \in DOMAIN c.msgs |-> Older(c.msgs[r])]
           T == [d \in Delays |-> IF d < MAX_WAIT THEN c.timers[d + 1] ELSE 0]
<1>2. c' = [c EXCEPT !.msgs = M, !.timers = T]
  BY DEF Tick
<1>3. T \in [Delays -> Nat]
  <2>1. c.timers \in [Delays -> Nat]
    BY <1>1 DEF Typed
  <2>2. \A d \in Delays : d < MAX_WAIT => d + 1 \in Delays
    BY RadiusAssumption DEF Delays
  <2>3. QED
    BY <2>1, <2>2
<1>4. /\ DOMAIN M = DOMAIN c.msgs
      /\ \A r \in DOMAIN c.msgs : M[r] = Older(c.msgs[r])
  OBVIOUS
<1>5. \A r \in DOMAIN c.msgs :
        /\ M[r] \in Entry /\ M[r].type = c.msgs[r].type /\ M[r].id = c.msgs[r].id
        /\ M[r].secret = c.msgs[r].secret /\ M[r].attempts = c.msgs[r].attempts
  <2>1. \A r \in DOMAIN c.msgs : c.msgs[r] \in Entry
    BY <1>1 DEF Typed
  <2> HIDE DEF M
  <2>2. QED
    BY <1>4, <2>1, TickTyped
<1> HIDE DEF M, T
<1>6. /\ Shape(c') /\ c'.msgs = M /\ c'.timers = T /\ c'.num_msgs = c.num_msgs
      /\ c'.next_radius_identifier = c.next_radius_identifier
      /\ SameServers(c, c') /\ c'.serv = c.serv
  BY <1>1, <1>2 DEF Shape, SameServers
<1>7. Typed(c', last)
  <2>1. SocketsOK(c')
    BY <1>1, <1>6, SameSockets DEF Typed
  <2>2. QED
    BY <1>1, <1>3, <1>4, <1>5, <1>6, <2>1 DEF Typed
<1>8. Counted(c') /\ Distinct(c') /\ Signed(c') /\ Follows(c, c')
  <2>1. Counted(c')
    BY <1>1, <1>4, <1>6 DEF ClientOK, Counted
  <2>2. /\ DOMAIN c'.msgs = DOMAIN c.msgs /\ c'.serv = c.serv
        /\ \A r \in DOMAIN c.msgs :
             /\ c'.msgs[r].type = c.msgs[r].type /\ c'.msgs[r].id = c.msgs[r].id
             /\ c'.msgs[r].secret = c.msgs[r].secret
             /\ c'.msgs[r].attempts = c.msgs[r].attempts
    BY <1>4, <1>5, <1>6
  <2>3. Distinct(c) /\ Signed(c)
    BY <1>1 DEF ClientOK
  <2>4. Distinct(c')
    BY <2>2, <2>3 DEF Distinct
  <2>5. Signed(c')
    BY <2>2, <2>3 DEF Signed
  <2>6. Follows(c, c')
    BY <2>2 DEF Follows, SameMessage
  <2>7. QED
    BY <2>1, <2>4, <2>5, <2>6
<1>9. ClientOK(c', last)
  BY <1>7, <1>8 DEF ClientOK
<1>10. IdleStep
  BY DEF IdleStep, Tick
<1>11. QED
  BY <1>8, <1>9, <1>10, RemovalKeepsInv

-----------------------------------------------------------------------------
(* One round of the loop of radius_client_timer.                           *)

(* Entry r is visited and the list is x by now.                            *)
Visiting(x, r) ==
  /\ Inv /\ pass.state = "loop" /\ r = pass.entry
  /\ ClientOK(x, last) /\ r \in DOMAIN x.msgs /\ DOMAIN x.msgs \subseteq DOMAIN c.msgs
  /\ PrevOK(x, pass)
  /\ \A q \in DOMAIN x.msgs : q # r => TriedMessage(x, pass, q)

(* The entry behind r is another one, or there is none.                    *)
LEMMA EntryAfterOK ==
  ASSUME NEW n \in Nat, NEW x, Typed(x, n), NEW r \in DOMAIN x.msgs
  PROVE  /\ EntryAfter(x, r) \in (DOMAIN x.msgs \ {r}) \cup {NULL}
         /\ EntryAfter(x, r) < r /\ EntryAfter(x, r) \in Nat
<1>1. DOMAIN x.msgs \subseteq 1..n
  BY DEF Typed
<1>2. CASE Behind(x, r) = {}
  BY <1>1, <1>2 DEF EntryAfter, NULL
<1>3. CASE Behind(x, r) # {}
  <2>1. Behind(x, r) \in SUBSET (1..n)
    BY <1>1 DEF Behind
  <2>2. Newest(Behind(x, r)) \in Behind(x, r)
    BY <1>3, <2>1, NewestExists
  <2>3. EntryAfter(x, r) = Newest(Behind(x, r))
    BY <1>3 DEF EntryAfter
  <2>4. QED
    BY <1>1, <2>2, <2>3 DEF Behind
<1>4. QED
  BY <1>2, <1>3

(* The loop goes on behind an entry that stays.                            *)
LEMMA KeepEntryInv ==
  ASSUME NEW x, NEW r, Visiting(x, r), KeepEntry(x, r),
         conf' = conf, last' = last, answers' = answers,
         x.msgs[r].type # "auth" => x.msgs[r].attempts < MAX_RETRIES
  PROVE  Inv' /\ Drops
<1> DEFINE e == x.msgs[r]
           failing == \/ e.attempts > NUM_FAILOVER
                      \/ x.sock[Kind(e.type)] # "conn" /\ e.attempts > 0
           asked == IF failing THEN pass.failover \cup {Kind(e.type)} ELSE pass.failover
           first == IF e.wait < pass.first THEN e.wait ELSE pass.first
           after == EntryAfter(x, r)
<1>1. /\ last \in Nat /\ last \in 0..MaxReq /\ MaxReq \in Nat /\ Typed(x, last) /\ e \in Entry
      /\ DOMAIN x.msgs \subseteq 1..last /\ PassOK(pass) /\ pass.state = "loop" /\ r = pass.entry
      /\ r \in DOMAIN x.msgs /\ ClientOK(x, last)
  BY RadiusAssumption DEF Visiting, Inv, ClientOK, Typed
<1>2. c' = x /\ pass' = [pass EXCEPT !.failover = asked, !.first = first,
                                     !.prev = r, !.entry = after]
  BY DEF KeepEntry
<1>3. asked \in SUBSET Kinds /\ pass.failover \subseteq asked
      /\ (e.type = "auth" /\ e.attempts > NUM_FAILOVER => "auth" \in asked)
  <2>1. Kind(e.type) \in Kinds /\ (e.type = "auth" => Kind(e.type) = "auth")
    BY DEF Kind, Kinds
  <2>2. pass.failover \in SUBSET Kinds
    BY <1>1 DEF PassOK
  <2> HIDE DEF e
  <2>3. QED
    BY <2>1, <2>2
<1>4. first \in 0..Unset
  BY <1>1, RadiusAssumption DEF PassOK, Entry, Delays, Unset
<1>5. after \in (DOMAIN x.msgs \ {r}) \cup {NULL} /\ after < r /\ after \in Nat
  BY <1>1, EntryAfterOK
<1>6. after \in 0..MaxReq /\ r \in 0..MaxReq
  BY <1>1, <1>5 DEF NULL
<1> HIDE DEF asked, first, after
<1>7. /\ PassOK(pass') /\ pass'.state = "loop" /\ pass'.entry = after /\ pass'.failover = asked
      /\ pass'.prev = r
  BY <1>1, <1>2, <1>3, <1>4, <1>6 DEF PassOK
<1>8. InLoop(c', pass')
  BY <1>1, <1>2, <1>5, <1>7 DEF InLoop, PrevOK
<1>9. Tried(c', pass')
  <2>1. SUFFICES ASSUME NEW q \in DOMAIN x.msgs PROVE TriedMessage(x, pass', q)
    BY <1>2 DEF Tried
  <2>2. /\ q \in Nat /\ r \in Nat /\ after \in Nat /\ x.msgs[q].attempts \in Nat
        /\ NUM_FAILOVER \in Nat
    BY <1>1, <1>5, <2>1, RadiusAssumption DEF Typed, Entry
  <2>3. CASE q = r
    BY <1>1, <1>3, <1>5, <1>7, <2>2, <2>3 DEF TriedMessage
  <2>4. CASE q # r
    <3>1. TriedMessage(x, pass, q)
      BY <2>4 DEF Visiting
    <3>2. QED
      BY <1>1, <1>3, <1>5, <1>7, <2>2, <3>1 DEF TriedMessage
  <2>5. QED
    BY <2>3, <2>4
<1>10. Drops /\ Inv
  BY <1>2 DEF Drops, Visiting
<1>11. QED
  BY <1>1, <1>2, <1>7, <1>8, <1>9, <1>10, InvPrimed

(* A message that radius_client_get_id takes is not counted.               *)
LEMMA Shrunk ==
  ASSUME NEW n \in Nat, NEW x, ClientOK(x, n), NEW y, y.num_msgs = x.num_msgs,
         DOMAIN y.msgs \subseteq DOMAIN x.msgs, DOMAIN y.msgs # DOMAIN x.msgs
  PROVE  Short(y)
<1>1. Typed(x, n) /\ Counted(x) /\ x.num_msgs \in Int
  BY DEF ClientOK, Typed
<1>2. IsFiniteSet(DOMAIN x.msgs) /\ Cardinality(DOMAIN x.msgs) \in Nat
  BY <1>1, MsgsFinite
<1>3. PICK D \in SUBSET DOMAIN x.msgs : D = DOMAIN y.msgs
  OBVIOUS
<1>4. Cardinality(D) < Cardinality(DOMAIN x.msgs) /\ Cardinality(D) \in Nat
  BY <1>2, <1>3, FS_Subset, FS_CardinalityType
<1>5. QED
  BY <1>1, <1>2, <1>3, <1>4 DEF Short, Counted

(* The loop gave up an entry, or lost its place.                           *)
LEMMA UndefinedInv ==
  ASSUME Inv, NEW x, ClientOK(x, last), DOMAIN x.msgs \subseteq DOMAIN c.msgs,
         c' = x, pass' = [pass EXCEPT !.state = "undefined"], Short(x),
         conf' = conf, last' = last, answers' = answers
  PROVE  Inv' /\ Drops
<1>1. last \in 0..MaxReq /\ PassOK(pass)
  BY DEF Inv
<1>2. PassOK(pass') /\ pass'.state = "undefined"
  BY <1>1 DEF PassOK
<1>3. Tried(c', pass') /\ InLoop(c', pass')
  BY <1>2 DEF Tried, InLoop
<1>4. Drops
  BY DEF Drops
<1>5. QED
  BY <1>1, <1>2, <1>3, <1>4, InvPrimed

(* The loop removes the entry it visits.                                   *)
LEMMA RemoveEntryInv ==
  ASSUME NEW x, NEW r, Visiting(x, r), RemoveEntry(x, r),
         conf' = conf, last' = last, answers' = answers
  PROVE  Inv' /\ Drops
<1>1. /\ last \in Nat /\ last \in 0..MaxReq /\ MaxReq \in Nat /\ Typed(x, last)
      /\ DOMAIN x.msgs \subseteq 1..last /\ PassOK(pass) /\ pass.state = "loop" /\ r = pass.entry
      /\ r \in DOMAIN x.msgs /\ ClientOK(x, last) /\ Inv /\ DOMAIN x.msgs \subseteq DOMAIN c.msgs
  BY RadiusAssumption DEF Visiting, Inv, ClientOK, Typed
<1>2. CASE /\ pass.prev \notin DOMAIN x.msgs \cup {NULL}
           /\ c' = x /\ pass' = [pass EXCEPT !.state = "undefined"]
  <2>1. Short(x)
    BY <1>2 DEF Visiting, PrevOK
  <2>2. QED
    BY <1>1, <1>2, <2>1, UndefinedInv
<1>3. CASE /\ pass.prev \in DOMAIN x.msgs \cup {NULL}
           /\ c' = [Without(x, {r}) EXCEPT !.num_msgs = @ - 1]
           /\ pass' = [pass EXCEPT !.entry = EntryAfter(x, r)]
  <2>1. c' = Discounted(x, {r})
    BY <1>3, RemoveOne
  <2>2. ClientOK(c', last) /\ Follows(x, c') /\ DOMAIN c'.msgs = DOMAIN x.msgs \ {r}
    BY <1>1, <2>1, DiscountedOne
  <2>3. PICK after : after = EntryAfter(x, r)
    OBVIOUS
  <2>4. after \in (DOMAIN x.msgs \ {r}) \cup {NULL} /\ after < r /\ after \in Nat
    BY <1>1, <2>3, EntryAfterOK
  <2>5. after \in 0..MaxReq
    BY <1>1, <2>4 DEF NULL
  <2>6. pass' = [pass EXCEPT !.entry = after]
    BY <1>3, <2>3
  <2>7. /\ PassOK(pass') /\ pass'.state = "loop" /\ pass'.entry = after
        /\ pass'.failover = pass.failover /\ pass'.prev = pass.prev
    BY <1>1, <2>5, <2>6 DEF PassOK
  <2>8. InLoop(c', pass')
    <3>1. /\ pass.prev = NULL \/ pass.prev > r
          /\ pass.prev \in Nat /\ r \in Nat
      BY <1>1 DEF Inv, InLoop, PassOK
    <3>prev. pass.prev # NULL => pass.prev # r
      BY <3>1
    <3>2. pass.prev \in DOMAIN c'.msgs \cup {NULL}
      BY <1>3, <2>2, <3>prev
    <3>3. pass.prev = NULL \/ pass.prev > after
      BY <2>4, <3>1
    <3>4. QED
      BY <2>2, <2>4, <2>7, <3>2, <3>3 DEF InLoop, PrevOK
  <2>9. Tried(c', pass')
    <3>1. SUFFICES ASSUME NEW q \in DOMAIN c'.msgs PROVE TriedMessage(c', pass', q)
      BY DEF Tried
    <3>2. q # r /\ q \in DOMAIN x.msgs /\ SameMessage(c'.msgs[q], x.msgs[q])
      BY <2>2, <3>1 DEF Follows
    <3>3. TriedMessage(x, pass, q)
      BY <3>2 DEF Visiting
    <3>4. /\ q \in Nat /\ r \in Nat /\ x.msgs[q].attempts \in Nat
          /\ NUM_FAILOVER \in Nat /\ MAX_RETRIES \in Nat /\ 0 < MAX_RETRIES
      BY <1>1, <3>2, RadiusAssumption DEF Typed, Entry
    <3>5. QED
      BY <1>1, <2>4, <2>7, <3>2, <3>3, <3>4 DEF TriedMessage, SameMessage
  <2>10. Drops
    BY <1>1, <2>2 DEF Drops
  <2>11. QED
    BY <1>1, <2>2, <2>7, <2>8, <2>9, <2>10, InvPrimed
<1>4. QED
  BY <1>2, <1>3 DEF RemoveEntry

(* A failover removed the entry: only messages of accounting are left, and *)
(* the loop starts again.                                                  *)
LEMMA RestartInv ==
  ASSUME Inv, pass.state = "loop", NEW x, Survives(c, x, last),
         DOMAIN x.msgs # DOMAIN c.msgs, Restart(x),
         conf' = conf, last' = last, answers' = answers
  PROVE  Inv' /\ Drops
<1>1. /\ last \in Nat /\ last \in 0..MaxReq /\ MaxReq \in Nat /\ ClientOK(x, last)
      /\ Typed(x, last) /\ Typed(c, last) /\ DOMAIN x.msgs \subseteq 1..last /\ PassOK(pass)
      /\ Follows(c, x) /\ \A r \in DOMAIN x.msgs : x.msgs[r].type # "auth"
  BY RadiusAssumption DEF Inv, Survives, ClientOK, Typed
<1>2. PICK first : first = IF DOMAIN x.msgs = {} THEN NULL ELSE Newest(DOMAIN x.msgs)
  OBVIOUS
<1>3. first \in DOMAIN x.msgs \cup {NULL} /\ first \in 0..MaxReq
  <2>1. CASE DOMAIN x.msgs = {}
    BY <1>1, <1>2, <2>1 DEF NULL
  <2>2. CASE DOMAIN x.msgs # {}
    <3>1. DOMAIN x.msgs \in SUBSET (1..last)
      BY <1>1
    <3>2. first \in DOMAIN x.msgs
      BY <1>1, <1>2, <2>2, <3>1, NewestExists
    <3>3. QED
      BY <1>1, <3>2
  <2>3. QED
    BY <2>1, <2>2
<1>4. c' = x /\ pass' = [pass EXCEPT !.entry = first, !.prev = NULL]
  BY <1>2 DEF Restart
<1>5. NULL \in 0..MaxReq
  BY <1>1 DEF NULL
<1>6. PassOK(pass') /\ pass'.state = "loop" /\ pass'.entry = first /\ pass'.prev = NULL
  BY <1>1, <1>3, <1>4, <1>5 DEF PassOK
<1>7. InLoop(c', pass')
  BY <1>3, <1>4, <1>6 DEF InLoop, PrevOK
<1>8. Tried(x, pass)
  BY <1>1, TriedFollows DEF Inv
<1>9. Tried(c', pass')
  BY <1>1, <1>4, <1>8 DEF Tried, TriedMessage
<1>10. Drops
  BY <1>1, <1>4 DEF Drops, Follows
<1>11. QED
  BY <1>1, <1>4, <1>6, <1>7, <1>9, <1>10, InvPrimed

(* The visited entry is replaced by e.                                     *)
LEMMA VisitingWith ==
  ASSUME NEW x, NEW r, Visiting(x, r), NEW e \in Entry,
         e.type = x.msgs[r].type, e.secret = x.msgs[r].secret,
         \A q \in DOMAIN x.msgs : q # r => x.msgs[q].id # e.id,
         NEW y, y = With(x, r, e)
  PROVE  Visiting(y, r) /\ y.msgs[r] = e
<1>1. last \in Nat /\ ClientOK(x, last) /\ r \in DOMAIN x.msgs
  BY RadiusAssumption DEF Visiting, Inv
<1>2. ClientOK(y, last) /\ Replaces(x, y, r, e) /\ DOMAIN y.msgs = DOMAIN x.msgs
  BY <1>1, ReplacedOK
<1>3. ASSUME NEW q \in DOMAIN y.msgs, q # r PROVE TriedMessage(y, pass, q)
  <2>1. q \in DOMAIN x.msgs /\ y.msgs[q] = x.msgs[q]
    BY <1>2, <1>3 DEF Replaces
  <2>2. TriedMessage(x, pass, q)
    BY <1>3, <2>1 DEF Visiting
  <2>3. QED
    BY <2>1, <2>2 DEF TriedMessage
<1>prev. PrevOK(y, pass)
  BY <1>2 DEF Visiting, PrevOK, Short, Replaces
<1>4. Visiting(y, r)
  BY <1>1, <1>2, <1>3, <1>prev DEF Visiting
<1>5. QED
  BY <1>2, <1>4 DEF Replaces

(* Sockets opened again leave the visit as it is.                          *)
LEMMA VisitingSame ==
  ASSUME NEW x, NEW r, Visiting(x, r), NEW y, SameList(x, y)
  PROVE  Visiting(y, r) /\ y.msgs = x.msgs
<1>1. last \in Nat /\ ClientOK(x, last)
  BY RadiusAssumption DEF Visiting, Inv
<1>2. ClientOK(y, last) /\ y.msgs = x.msgs /\ y.num_msgs = x.num_msgs
  BY <1>1, SameListOK DEF SameList
<1>3. QED
  BY <1>2 DEF Visiting, TriedMessage, PrevOK, Short

(* The growing delay of radius_client_retransmit stays in range.           *)
LEMMA BackoffOK ==
  ASSUME NEW x, NEW r, Visiting(x, r), NEW y, y = Backoff(x, r)
  PROVE  /\ Visiting(y, r) /\ y.msgs[r].type = x.msgs[r].type
         /\ y.msgs[r].attempts = x.msgs[r].attempts
<1>1. ClientOK(x, last) /\ r \in DOMAIN x.msgs
  BY DEF Visiting
<1>2. PICK e : e = x.msgs[r]
  OBVIOUS
<1>3. e \in Entry /\ \A q \in DOMAIN x.msgs : q # r => x.msgs[q].id # e.id
  BY <1>1, <1>2 DEF ClientOK, Typed, Distinct
<1>4. Double(e.next_wait) \in Delays /\ e.next_wait \in Delays
  BY <1>3, RadiusAssumption DEF Entry, Delays, Double
<1>5. PICK w \in Delays : w = Double(e.next_wait)
  BY <1>4
<1>6. PICK f : f = [e EXCEPT !.wait = e.next_wait, !.next_wait = Double(@)]
  OBVIOUS
<1>7. f = [e EXCEPT !.wait = e.next_wait, !.next_wait = w]
  BY <1>5, <1>6
<1>8. /\ f \in Entry /\ f.type = e.type /\ f.id = e.id /\ f.secret = e.secret
      /\ f.attempts = e.attempts
  BY <1>3, <1>4, <1>5, <1>7 DEF Entry
<1>9. y = With(x, r, f)
  BY <1>2, <1>6 DEF Backoff
<1>10. Visiting(y, r) /\ y.msgs[r] = f
  BY <1>2, <1>3, <1>8, <1>9, VisitingWith
<1>11. QED
  BY <1>2, <1>8, <1>10

(* One more try, with the identifier that was handed out.                  *)
LEMMA AttemptOK ==
  ASSUME NEW x, NEW r, Visiting(x, r), NEW id \in Ids,
         x.msgs[r].attempts < MAX_RETRIES,
         x.msgs[r].type = "acct" => \A q \in DOMAIN x.msgs : x.msgs[q].id # id,
         NEW y, y = Attempt(x, r, id)
  PROVE  Visiting(y, r) /\ y.msgs[r].type = x.msgs[r].type
<1>1. ClientOK(x, last) /\ r \in DOMAIN x.msgs
  BY DEF Visiting
<1>2. PICK e : e = x.msgs[r]
  OBVIOUS
<1>3. e \in Entry /\ \A q \in DOMAIN x.msgs : q # r => x.msgs[q].id # e.id
  BY <1>1, <1>2 DEF ClientOK, Typed, Distinct
<1>4. PICK a \in 0..MAX_RETRIES : a = e.attempts + 1
  BY <1>2, <1>3, RadiusAssumption DEF Entry
<1>5. PICK i \in Ids : i = IF e.type = "acct" THEN id ELSE e.id
  BY <1>3 DEF Entry
<1>6. PICK f : f = [e EXCEPT !.attempts = @ + 1, !.id = IF e.type = "acct" THEN id ELSE @]
  OBVIOUS
<1>7. f = [e EXCEPT !.attempts = a, !.id = i]
  BY <1>4, <1>5, <1>6
<1>8. f \in Entry /\ f.type = e.type /\ f.id = i /\ f.secret = e.secret
  BY <1>3, <1>4, <1>5, <1>7 DEF Entry
<1>9. y = With(x, r, f)
  BY <1>2, <1>6 DEF Attempt
<1>10. \A q \in DOMAIN x.msgs : q # r => x.msgs[q].id # f.id
  BY <1>2, <1>3, <1>5, <1>8
<1>11. Visiting(y, r) /\ y.msgs[r] = f
  BY <1>2, <1>8, <1>9, <1>10, VisitingWith
<1>12. QED
  BY <1>2, <1>8, <1>11

(* Behind a send: the entry goes when its tries are used up.               *)
LEMMA SentInv ==
  ASSUME NEW x, NEW r, Visiting(x, r), Sent(x, r),
         conf' = conf, last' = last, answers' = answers
  PROVE  Inv' /\ Drops
<1>1. CASE x.msgs[r].attempts >= MAX_RETRIES
  BY <1>1, RemoveEntryInv DEF Sent
<1>2. CASE ~(x.msgs[r].attempts >= MAX_RETRIES)
  <2>1. x.msgs[r].attempts < MAX_RETRIES
    BY <1>2, RadiusAssumption DEF Visiting, ClientOK, Typed, Entry
  <2>2. KeepEntry(x, r)
    BY <1>2 DEF Sent
  <2>3. QED
    BY <2>1, <2>2, KeepEntryInv
<1>3. QED
  BY <1>1, <1>2

(* radius_client_retransmit from its send() on, failing or not.            *)
LEMMA ResendInv ==
  ASSUME NEW x, NEW r, Visiting(x, r), Resend(x, r),
         conf' = conf, last' = last, answers' = answers
  PROVE  Inv' /\ Drops
<1>1. last \in Nat /\ ClientOK(x, last) /\ conf \in Conf
  BY RadiusAssumption DEF Visiting, Inv
<1>2. CASE Sent(Backoff(x, r), r)
  <2>1. PICK y : y = Backoff(x, r)
    OBVIOUS
  <2>2. Visiting(y, r)
    BY <2>1, BackoffOK
  <2>3. Sent(y, r)
    BY <1>2, <2>1
  <2>4. QED
    BY <2>2, <2>3, SentInv
<1>3. ASSUME NEW res \in InitResults, NEW y,
             y = radius_client_init_sock(x, Kind(x.msgs[r].type), res),
             IF x.msgs[r].type = "auth" THEN KeepEntry(y, r) ELSE Sent(Backoff(y, r), r)
      PROVE  Inv' /\ Drops
  <2>1. Kind(x.msgs[r].type) \in Kinds
    BY DEF Kind, Kinds
  <2>2. SameList(x, y)
    BY <1>1, <1>3, <2>1, InitSockOK
  <2>3. Visiting(y, r) /\ y.msgs = x.msgs
    BY <2>2, VisitingSame
  <2>4. CASE x.msgs[r].type = "auth"
    <3>1. KeepEntry(y, r) /\ y.msgs[r].type = "auth"
      BY <1>3, <2>3, <2>4
    <3>2. QED
      BY <2>3, <3>1, KeepEntryInv
  <2>5. CASE x.msgs[r].type # "auth"
    <3>1. PICK z : z = Backoff(y, r)
      OBVIOUS
    <3>2. Visiting(z, r)
      BY <2>3, <3>1, BackoffOK
    <3>3. Sent(z, r)
      BY <1>3, <2>5, <3>1
    <3>4. QED
      BY <3>2, <3>3, SentInv
  <2>6. QED
    BY <2>4, <2>5
<1>4. QED
  BY <1>2, <1>3 DEF Resend

(* The entry that the loop visits is in the list.                          *)
LEMMA EntryThere ==
  ASSUME Inv, pass.state = "loop"
  PROVE  pass.entry \in DOMAIN c.msgs \cup {NULL} /\ PrevOK(c, pass)
<1>1. InLoop(c, pass)
  BY DEF Inv
<1>2. QED
  BY <1>1, Zenon DEF InLoop

(* A failover that leaves the visited entry removes no entry.              *)
LEMMA VisitOK ==
  ASSUME Inv, pass.state = "loop", NEW r, r = pass.entry, r \in DOMAIN c.msgs,
         NEW x, Survives(c, x, last), r \in DOMAIN x.msgs,
         Kind(c.msgs[r].type) = "acct" => DOMAIN x.msgs = DOMAIN c.msgs
  PROVE  Visiting(x, r) /\ x.msgs[r].attempts < MAX_RETRIES
<1>1. /\ last \in Nat /\ Typed(c, last) /\ Tried(c, pass) /\ PrevOK(c, pass)
      /\ ClientOK(x, last) /\ Follows(c, x) /\ Typed(x, last)
  BY EntryThere, RadiusAssumption DEF Inv, Survives, ClientOK
<1>2. \A q \in DOMAIN x.msgs : TriedMessage(x, pass, q)
  BY <1>1, TriedFollows DEF Tried
<1>3. DOMAIN x.msgs = DOMAIN c.msgs
  <2>1. x.msgs[r].type = c.msgs[r].type
    BY <1>1 DEF Follows, SameMessage
  <2>2. CASE c.msgs[r].type = "auth"
    BY <2>1, <2>2 DEF Survives
  <2>3. CASE c.msgs[r].type # "auth"
    BY <2>3 DEF Kind
  <2>4. QED
    BY <2>2, <2>3
<1>4. PrevOK(x, pass)
  BY <1>1, <1>3 DEF Survives, PrevOK, Short
<1>5. Visiting(x, r)
  BY <1>1, <1>2, <1>3, <1>4 DEF Visiting
<1>6. x.msgs[r].attempts \in Nat /\ r \in Nat
  BY <1>1 DEF Typed, Entry
<1>7. x.msgs[r].attempts < MAX_RETRIES
  BY <1>2, <1>6, RadiusAssumption DEF TriedMessage
<1>8. QED
  BY <1>5, <1>7

(* A retransmission takes a new identifier; when that removes an entry,    *)
(* even the visited one, num_msgs counts too many.                         *)
LEMMA RenumberedOK ==
  ASSUME NEW x, NEW r, Visiting(x, r), NEW y, y = Renumbered(x, r)
  PROVE  /\ ClientOK(y, last) /\ x.next_radius_identifier \in Ids
         /\ DOMAIN y.msgs \subseteq DOMAIN x.msgs
         /\ x.msgs[r].type = "acct" =>
              \A q \in DOMAIN y.msgs : y.msgs[q].id # x.next_radius_identifier
         /\ r \notin DOMAIN y.msgs => Short(y)
         /\ r \in DOMAIN y.msgs => Visiting(y, r) /\ y.msgs[r] = x.msgs[r]
<1>1. /\ last \in Nat /\ ClientOK(x, last) /\ r \in DOMAIN x.msgs /\ PrevOK(x, pass)
      /\ DOMAIN x.msgs \subseteq DOMAIN c.msgs
  BY RadiusAssumption DEF Visiting, Inv
<1>2. /\ ClientOK(y, last) /\ x.next_radius_identifier \in Ids
      /\ DOMAIN y.msgs \subseteq DOMAIN x.msgs
      /\ \A q \in DOMAIN y.msgs : y.msgs[q] = x.msgs[q]
      /\ x.msgs[r].type = "acct" =>
           \A q \in DOMAIN y.msgs : y.msgs[q].id # x.next_radius_identifier
      /\ y.num_msgs = x.num_msgs
  <2>1. CASE x.msgs[r].type = "acct"
    <3>1. y = radius_client_get_id(x)
      BY <2>1 DEF Renumbered
    <3>2. QED
      BY <1>1, <3>1, GetIdOK DEF Follows
  <2>2. CASE x.msgs[r].type # "acct"
    <3>1. y = x
      BY <2>2 DEF Renumbered
    <3>2. QED
      BY <1>1, <2>2, <3>1 DEF ClientOK, Typed
  <2>3. QED
    BY <2>1, <2>2
<1>3. DOMAIN y.msgs # DOMAIN x.msgs => Short(y)
  BY <1>1, <1>2, Shrunk
<1>4. PrevOK(y, pass)
  BY <1>1, <1>2, <1>3 DEF PrevOK, Short
<1>5. r \in DOMAIN y.msgs => Visiting(y, r) /\ y.msgs[r] = x.msgs[r]
  BY <1>1, <1>2, <1>4 DEF Visiting, TriedMessage
<1>6. QED
  BY <1>1, <1>2, <1>3, <1>5

(* One round of the loop keeps the invariant.                              *)
LEMMA TimerLoopInv ==
  ASSUME Inv, TimerLoop
  PROVE  Inv' /\ Drops
<1> DEFINE r == pass.entry
<1>1. /\ pass.state = "loop" /\ r # NULL /\ conf \in Conf /\ last \in Nat /\ ClientOK(c, last)
      /\ r \in DOMAIN c.msgs /\ Tried(c, pass) /\ Typed(c, last)
  <2>1. pass.state = "loop" /\ r # NULL
    BY DEF TimerLoop
  <2>2. /\ conf \in Conf /\ last \in Nat /\ ClientOK(c, last) /\ Tried(c, pass)
        /\ Typed(c, last)
    BY RadiusAssumption DEF Inv, ClientOK
  <2>3. QED
    BY <2>1, <2>2, EntryThere
<1>2. conf' = conf /\ last' = last /\ answers' = answers
  BY DEF TimerLoop
<1> DEFINE kind == Kind(c.msgs[r].type)
<1>3. kind \in Kinds
  BY DEF Kind, Kinds
<1>4. ASSUME NEW x, Survives(c, x, last), r \in DOMAIN x.msgs,
             kind = "acct" => DOMAIN x.msgs = DOMAIN c.msgs
      PROVE  Visiting(x, r) /\ x.msgs[r].attempts < MAX_RETRIES
  BY <1>1, <1>4, VisitOK
<1>5. CASE KeepEntry(c, r)
  <2>1. Survives(c, c, last)
    BY <1>1, FollowsSelf DEF Survives
  <2>2. Visiting(c, r) /\ c.msgs[r].attempts < MAX_RETRIES
    BY <1>1, <1>4, <2>1, Zenon
  <2> HIDE DEF r
  <2>3. QED
    BY <1>2, <1>5, <2>2, KeepEntryInv
<1>6. ASSUME NEW x \in Reopened(c, kind),
             \/ r \notin DOMAIN x.msgs /\ Restart(x)
             \/ r \in DOMAIN x.msgs /\ RemoveEntry(x, r)
             \/ /\ r \in DOMAIN x.msgs
                /\ LET y == Renumbered(x, r) IN
                   IF r \notin DOMAIN y.msgs
                   THEN c' = y /\ pass' = [pass EXCEPT !.state = "undefined"]
                   ELSE Resend(Attempt(y, r, x.next_radius_identifier), r)
      PROVE  Inv' /\ Drops
  <2>1. Survives(c, x, last) /\ (kind = "acct" => DOMAIN x.msgs = DOMAIN c.msgs)
    <3> HIDE DEF kind
    <3>1. QED
      BY <1>1, <1>3, <1>6, ReopenedOK
  <2> HIDE DEF kind
  <2>2. CASE r \notin DOMAIN x.msgs /\ Restart(x)
    <3>1. DOMAIN x.msgs # DOMAIN c.msgs
      BY <1>1, <2>2
    <3>2. QED
      BY <1>1, <1>2, <2>1, <2>2, <3>1, RestartInv
  <2>3. CASE r \in DOMAIN x.msgs /\ RemoveEntry(x, r)
    <3>1. Visiting(x, r)
      BY <1>4, <2>1, <2>3
    <3> HIDE DEF r
    <3>2. QED
      BY <1>2, <2>3, <3>1, RemoveEntryInv
  <2>4. ASSUME r \in DOMAIN x.msgs, NEW y, y = Renumbered(x, r),
               IF r \notin DOMAIN y.msgs
               THEN c' = y /\ pass' = [pass EXCEPT !.state = "undefined"]
               ELSE Resend(Attempt(y, r, x.next_radius_identifier), r)
        PROVE  Inv' /\ Drops
    <3>1. Visiting(x, r) /\ x.msgs[r].attempts < MAX_RETRIES
      BY <1>4, <2>1, <2>4
    <3>2. DOMAIN x.msgs \subseteq DOMAIN c.msgs
      BY <3>1 DEF Visiting
    <3>3. /\ ClientOK(y, last) /\ x.next_radius_identifier \in Ids
          /\ DOMAIN y.msgs \subseteq DOMAIN x.msgs
          /\ x.msgs[r].type = "acct" =>
               \A q \in DOMAIN y.msgs : y.msgs[q].id # x.next_radius_identifier
          /\ r \notin DOMAIN y.msgs => Short(y)
          /\ r \in DOMAIN y.msgs => Visiting(y, r) /\ y.msgs[r] = x.msgs[r]
      BY <2>4, <3>1, RenumberedOK
    <3> HIDE DEF r
    <3>4. CASE r \notin DOMAIN y.msgs
      <4>1. c' = y /\ pass' = [pass EXCEPT !.state = "undefined"]
        BY <2>4, <3>4
      <4>2. DOMAIN y.msgs \subseteq DOMAIN c.msgs
        BY <3>2, <3>3
      <4>3. QED
        BY <1>1, <1>2, <3>3, <3>4, <4>1, <4>2, UndefinedInv
    <3>5. CASE r \in DOMAIN y.msgs
      <4>1. Visiting(y, r) /\ y.msgs[r] = x.msgs[r]
        BY <3>3, <3>5
      <4>2. PICK z : z = Attempt(y, r, x.next_radius_identifier)
        OBVIOUS
      <4>3. Visiting(z, r)
        BY <3>1, <3>3, <4>1, <4>2, AttemptOK
      <4>4. Resend(z, r)
        BY <2>4, <3>5, <4>2
      <4>5. QED
        BY <1>2, <4>3, <4>4, ResendInv
    <3>6. QED
      BY <3>4, <3>5
  <2>5. QED
    BY <1>6, <2>2, <2>3, <2>4
<1>7. QED
  BY <1>5, <1>6 DEF TimerLoop

-----------------------------------------------------------------------------
(* The theorems.                                                           *)

(* The invariant holds of a client that was just set up.                   *)
LEMMA InvInit ==
  ASSUME Init
  PROVE  Inv
<1>1. PICK sock \in [Kinds -> {"open", "conn"}] :
        c = [msgs |-> [r \in {} |-> NULL], num_msgs |-> 0,
             next_radius_identifier |-> 0, timers |-> NoTimer,
             serv |-> FirstServers, sock |-> sock,
             peer |-> [k \in Kinds |-> IF sock[k] = "conn" THEN Peer(1) ELSE 0],
             lost |-> {}]
  BY DEF Init
<1>2. conf \in Conf /\ pass = Idle /\ last = 0 /\ answers = [r \in Requests |-> 0]
  BY DEF Init
<1>3. /\ Shape(c) /\ DOMAIN c.msgs = {} /\ c.num_msgs = 0 /\ c.next_radius_identifier = 0
      /\ c.timers = NoTimer /\ c.serv = [k \in Kinds |-> 1] /\ c.sock = sock
      /\ c.peer = [k \in Kinds |-> IF sock[k] = "conn" THEN Peer(1) ELSE 0] /\ c.lost = {}
  BY <1>1 DEF Shape, FirstServers
<1>4. Typed(c, 0)
  <2>1. c.serv \in [Kinds -> 1..conf.num]
    BY <1>2, <1>3, ConfTyped
  <2>2. c.timers \in [Delays -> Nat] /\ 0 \in Ids
    BY <1>3, RadiusAssumption DEF NoTimer, Ids
  <2>3. SocketsOK(c)
    BY <1>3 DEF SocketsOK, Reached, SockStates, Peer, Servers
  <2>4. QED
    BY <1>3, <2>1, <2>2, <2>3 DEF Typed
<1>5. Counted(c) /\ Distinct(c) /\ Signed(c)
  <2>1. Cardinality(DOMAIN c.msgs) = 0
    BY <1>3, FS_EmptySet
  <2>2. QED
    BY <1>3, <2>1, RadiusAssumption DEF Counted, Distinct, Signed
<1>6. ClientOK(c, 0)
  BY <1>4, <1>5 DEF ClientOK
<1>7. PassOK(pass) /\ Tried(c, pass) /\ InLoop(c, pass)
  BY <1>2, <1>3, IdleOK DEF Tried, InLoop
<1>8. Unanswered(c, 0, answers)
  BY <1>2 DEF Unanswered
<1>9. QED
  BY <1>2, <1>6, <1>7, <1>8, RadiusAssumption DEF Inv

(* Every step keeps the invariant and drops, takes or answers requests.    *)
LEMMA InvNext ==
  ASSUME Inv, [Next]_vars
  PROVE  Inv' /\ (UNCHANGED vars \/ Drops \/ Takes \/ Gives)
<1>1. CASE UNCHANGED vars
  BY <1>1 DEF vars, Inv, ClientOK, Typed, SocketsOK, Reached, Shape, Counted, Distinct,
              Signed, PassOK, Tried, TriedMessage, Unanswered, InLoop, PrevOK, Short
<1>2. CASE \E type \in Types, addr \in Addr : radius_client_send(type, addr)
  BY <1>2, SendInv
<1>3. CASE \E kind \in Kinds, id \in Ids : radius_client_receive(kind, id)
  BY <1>3, ReceiveInv
<1>4. CASE \E addr \in Addr : StationFreed(addr)
  BY <1>4, StationFreedInv
<1>5. CASE Reload
  BY <1>5, ReloadInv
<1>6. CASE radius_client_deinit
  BY <1>6, DeinitInv
<1>7. CASE radius_retry_primary_timer
  BY <1>7, RetryPrimaryInv
<1>8. CASE radius_client_timer
  BY <1>8, TimerInv
<1>9. CASE TimerLoop
  BY <1>9, TimerLoopInv
<1>10. CASE TimerEnd
  BY <1>10, TimerEndInv
<1>11. CASE Tick
  BY <1>11, TickInv
<1>12. QED
  BY <1>1, <1>2, <1>3, <1>4, <1>5, <1>6, <1>7, <1>8, <1>9, <1>10, <1>11 DEF Next

(* The properties are parts of the invariant.                              *)
LEMMA InvImplies ==
  ASSUME Inv
  PROVE  /\ TypeOK /\ ListBounded /\ DistinctIdentifiers /\ SignedForServer
         /\ QuietWhenFreed /\ LoopInList
<1>1. ClientOK(c, last) /\ Typed(c, last) /\ Counted(c) /\ last \in Nat /\ conf \in Conf
  BY RadiusAssumption DEF Inv, ClientOK
<1>2. ListBounded /\ DistinctIdentifiers
  BY <1>1 DEF ListBounded, Counted, DistinctIdentifiers, ClientOK, Distinct
<1>3. SignedForServer
  <2>1. SUFFICES ASSUME conf.differ, ~conf.primary, NEW r \in DOMAIN c.msgs,
                        c.msgs[r].type # "interim"
                 PROVE  LET kind == Kind(c.msgs[r].type) IN
                        /\ c.msgs[r].secret = c.serv[kind]
                        /\ c.sock[kind] = "conn" /\ kind \notin c.lost
                             => c.peer[kind] = c.msgs[r].secret
    BY DEF SignedForServer, SignedFor
  <2>2. c.msgs[r].secret = c.serv[Kind(c.msgs[r].type)]
    BY <1>1, <2>1 DEF ClientOK, Signed
  <2>3. Kind(c.msgs[r].type) \in Kinds
    BY DEF Kind, Kinds
  <2>4. Reached(c)
    BY <1>1 DEF Typed, SocketsOK
  <2>5. QED
    BY <2>1, <2>2, <2>3, <2>4 DEF Reached
<1>4. QuietWhenFreed /\ LoopInList
  <2>1. InLoop(c, pass)
    BY DEF Inv
  <2>2. LoopInList
    BY <2>1, Zenon DEF InLoop, Short, LoopInList
  <2>3. QuietWhenFreed
    BY <2>1, Zenon DEF InLoop, QuietWhenFreed
  <2>4. QED
    BY <2>2, <2>3
<1>5. c.num_msgs \in Nat
  <2>1. c.num_msgs \in Int /\ Cardinality(DOMAIN c.msgs) \in Nat
    BY <1>1, MsgsFinite DEF Typed
  <2>2. QED
    BY <1>1, <2>1 DEF Counted
<1>6. c.serv \in [Kinds -> Servers]
  <2>1. c.serv \in [Kinds -> 1..conf.num] /\ conf.num \in {1, 2}
    BY <1>1, ConfTyped DEF Typed
  <2>2. QED
    BY <2>1 DEF Servers
<1>7. TypeOK
  BY <1>1, <1>5, <1>6 DEF TypeOK, Inv, PassOK, Unanswered, Typed, SocketsOK
<1>8. QED
  BY <1>2, <1>3, <1>4, <1>7

(* The inductive invariant holds in every reachable state of the client.   *)
THEOREM InvHolds == Spec => []Inv
<1>1. Init => Inv
  BY InvInit
<1>2. Inv /\ [Next]_vars => Inv'
  BY InvNext
<1>3. QED
  BY <1>1, <1>2, PTL DEF Spec

(* Every variable of the client keeps its type; in particular no message   *)
(* is tried more than RADIUS_CLIENT_MAX_RETRIES times although a failed    *)
(* send() in radius_client_retransmit skips the check of that limit.       *)
THEOREM TypeCorrect == Spec => []TypeOK
<1>1. Inv => TypeOK
  BY InvImplies
<1>2. QED
  BY <1>1, InvHolds, PTL

(* The list stays within RADIUS_CLIENT_MAX_ENTRIES and num_msgs never      *)
(* falls below what radius_client_list_add and the four functions that     *)
(* remove messages leave in it.                                            *)
THEOREM ListAlwaysBounded == Spec => []ListBounded
<1>1. Inv => ListBounded
  BY InvImplies
<1>2. QED
  BY <1>1, InvHolds, PTL

(* However often next_radius_identifier wraps, radius_client_get_id never  *)
(* leaves two pending messages with one identifier.                        *)
THEOREM IdentifiersDistinct == Spec => []DistinctIdentifiers
<1>1. Inv => DistinctIdentifiers
  BY InvImplies
<1>2. QED
  BY <1>1, InvHolds, PTL

(* Without retry_primary_interval, every message that may be sent again is *)
(* signed for the current server, through radius_change_server and         *)
(* radius_client_reconfig, and the socket is connected to that server      *)
(* unless a failed connect or a reload left it behind.                     *)
THEOREM AlwaysSigned == Spec => []SignedForServer
<1>1. Inv => SignedForServer
  BY InvImplies
<1>2. QED
  BY <1>1, InvHolds, PTL

(* radius_client_timer visits entries of the list only, whatever a         *)
(* failover inside it removes; it uses a freed entry only where            *)
(* radius_client_get_id took one from the list without counting it.        *)
THEOREM LoopStaysInList == Spec => []LoopInList
<1>1. Inv => LoopInList
  BY InvImplies
<1>2. QED
  BY <1>1, InvHolds, PTL

(* radius_client_deinit leaves no timer registered.                        *)
THEOREM QuietAfterFree == Spec => []QuietWhenFreed
<1>1. Inv => QuietWhenFreed
  BY InvImplies
<1>2. QED
  BY <1>1, InvHolds, PTL

-----------------------------------------------------------------------------
(* The client implements RadiusRequests.                                   *)

StatusOf(r) ==
  IF r > last THEN "new"
  ELSE IF r \in DOMAIN c.msgs THEN "pending"
  ELSE IF answers[r] > 0 THEN "answered" ELSE "dropped"

(* The refinement mapping, request by request.                             *)
LEMMA StatusIs ==
  /\ Status = [r \in Requests |-> StatusOf(r)]
  /\ Status' = [r \in Requests |-> StatusOf(r)']
BY DEF Status, StatusOf

(* Every step is one of RadiusRequests, or none.                           *)
LEMMA PromiseStep ==
  ASSUME Inv, Inv', UNCHANGED vars \/ Drops \/ Takes \/ Gives
  PROVE  [Promise!Next]_(Promise!vars)
<1>1. /\ MaxReq \in Nat /\ last \in 0..MaxReq /\ answers \in [Requests -> Nat]
      /\ DOMAIN c.msgs \subseteq 1..last
      /\ \A r \in Requests : answers[r] > 0 => r <= last /\ r \notin DOMAIN c.msgs
  BY RadiusAssumption DEF Inv, Unanswered, ClientOK, Typed
<1>2. DOMAIN c.msgs \subseteq Requests /\ Requests \subseteq Nat
  BY <1>1 DEF Requests
<1>3. \A r \in DOMAIN c.msgs : Status[r] = "pending"
  BY <1>1, <1>2, StatusIs DEF StatusOf
<1>4. Promise!Pending = DOMAIN c.msgs
  BY <1>1, <1>2, <1>3, StatusIs DEF Promise!Pending, StatusOf
<1> DEFINE gone == DOMAIN c.msgs \ DOMAIN c'.msgs
<1>5. gone \in SUBSET Promise!Pending
  BY <1>4
<1>6. CASE UNCHANGED vars
  <2>1. Status' = Status /\ answers' = answers
    BY <1>6, StatusIs DEF vars, StatusOf
  <2>2. QED
    BY <2>1 DEF Promise!vars
<1>7. CASE Drops
  <2>1. \A r \in Requests : StatusOf(r)' = IF r \in gone THEN "dropped" ELSE StatusOf(r)
    BY <1>1, <1>2, <1>7 DEF Drops, StatusOf
  <2>2. Status' = [r \in Requests |-> IF r \in gone THEN "dropped" ELSE Status[r]]
    <3> HIDE DEF gone
    <3>1. QED
      BY <2>1, StatusIs
  <2>3. Promise!Drop(gone)
    BY <1>7, <2>2 DEF Drops, Promise!Drop
  <2> HIDE DEF gone
  <2>4. QED
    BY <1>5, <2>3 DEF Promise!Next
<1>8. CASE Takes
  <2>1. PICK n \in Requests : n = last + 1
    BY <1>1, <1>8 DEF Takes, Requests
  <2>2. StatusOf(n) = "new" /\ Status[n] = "new"
    BY <1>1, <2>1, StatusIs DEF StatusOf
  <2>3. StatusOf(n)' \in {"pending", "dropped"}
    BY <1>1, <1>8, <2>1 DEF Takes, StatusOf
  <2>4. \A r \in Requests : r # n =>
          StatusOf(r)' = IF r \in gone THEN "dropped" ELSE StatusOf(r)
    BY <1>1, <1>2, <1>8, <2>1 DEF Takes, StatusOf
  <2> HIDE DEF gone
  <2>5. PICK t \in {"pending", "dropped"} : t = StatusOf(n)'
    BY <2>3
  <2>6. Status' = [r \in Requests |-> IF r = n THEN t
                                      ELSE IF r \in gone THEN "dropped" ELSE Status[r]]
    BY <2>4, <2>5, StatusIs
  <2>7. Promise!Ask(n, gone)
    BY <1>8, <2>2, <2>6 DEF Takes, Promise!Ask
  <2>8. QED
    BY <1>5, <2>7 DEF Promise!Next
<1>9. CASE Gives
  <2>1. PICK r \in DOMAIN c.msgs : /\ DOMAIN c'.msgs = DOMAIN c.msgs \ {r}
                                  /\ answers' = [answers EXCEPT ![r] = @ + 1]
    BY <1>9 DEF Gives
  <2>2. last' = last /\ r \in Requests /\ r <= last /\ answers'[r] > 0
    BY <1>1, <1>2, <1>9, <2>1 DEF Gives
  <2>3. \A q \in Requests : StatusOf(q)' = IF q = r THEN "answered" ELSE StatusOf(q)
    BY <1>1, <1>2, <2>1, <2>2 DEF StatusOf
  <2>4. Status' = [Status EXCEPT ![r] = "answered"]
    BY <2>2, <2>3, StatusIs
  <2>5. Promise!Answer(r)
    BY <1>4, <2>1, <2>4 DEF Promise!Answer
  <2>6. QED
    BY <2>2, <2>5 DEF Promise!Next
<1>10. QED
  BY <1>6, <1>7, <1>8, <1>9

(* What the callers of radius_client_send rely on holds for every list     *)
(* size, number of identifiers and order of events: a request is answered  *)
(* at most once, not after it was dropped, and does not come back.         *)
THEOREM PromiseKept == Spec => KeepsPromise
<1>1. Init => Promise!Init
  <2>1. SUFFICES ASSUME Init PROVE Promise!Init
    OBVIOUS
  <2>2. last = 0 /\ answers = [r \in Requests |-> 0] /\ Requests = 1..MaxReq
    BY <2>1 DEF Init, Requests
  <2>3. \A r \in Requests : StatusOf(r) = "new"
    BY <2>2, RadiusAssumption DEF StatusOf
  <2>4. Status = [r \in Requests |-> "new"]
    BY <2>3, StatusIs
  <2>5. QED
    BY <2>2, <2>4 DEF Promise!Init
<1>2. Inv /\ [Next]_vars => [Promise!Next]_(Promise!vars)
  BY InvNext, PromiseStep
<1>3. QED
  BY <1>1, <1>2, InvHolds, PTL DEF Spec, KeepsPromise, Promise!Spec

-----------------------------------------------------------------------------
(* The timers.  Every function either leaves the timers and the waits      *)
(* alone (Kept), or cancels all timers and registers one for FIRST_WAIT if *)
(* a message is left (Armed).  Within the loop of radius_client_timer the  *)
(* run under way is no longer registered and the next one not yet: there   *)
(* the variable first takes the part of the timer (Scheduled).             *)

AtMostOne(t) == \E d \in Delays : \A f \in Delays : t[f] <= Once(d, f)

AtMostTwo(t) ==
  \E d, e \in Delays : \A f \in Delays : t[f] <= Once(d, f) + Once(e, f)

(* A timer of x comes at most FIRST_WAIT after the time of every message.  *)
Covers(x, d) == \A r \in DOMAIN x.msgs : d <= x.msgs[r].wait + FIRST_WAIT
Covered(x) ==
  DOMAIN x.msgs # {} => \E d \in Delays : x.timers[d] > 0 /\ Covers(x, d)

Kept(x, y) ==
  /\ y.timers = x.timers
  /\ DOMAIN y.msgs \subseteq DOMAIN x.msgs
  /\ \A r \in DOMAIN y.msgs : y.msgs[r].wait = x.msgs[r].wait

Armed(y) ==
  AtMostOne(y.timers) /\ (DOMAIN y.msgs = {} \/ y.timers[FIRST_WAIT] > 0)

Outcome(x, y) == Kept(x, y) \/ Armed(y)

(* The messages before entry r of the loop are covered by a timer or by    *)
(* first.                                                                  *)
Scheduled(x, first, r) ==
  \/ DOMAIN x.msgs = {}
  \/ x.timers[FIRST_WAIT] > 0
  \/ \A q \in DOMAIN x.msgs : q > r => first <= x.msgs[q].wait

TimerInvariant ==
  /\ AtMostTwo(c.timers)
  /\ pass.state = "loop" => AtMostOne(c.timers) /\ Scheduled(c, pass.first, pass.entry)
  /\ pass.state = "idle" => Covered(c)

-----------------------------------------------------------------------------
(* Counting registrations.                                                 *)

(* The times a timer may be registered for.                                *)
LEMMA DelaysTyped ==
  /\ MAX_WAIT \in Nat /\ FIRST_WAIT \in Nat \ {0} /\ Delays = 0..MAX_WAIT
  /\ 0 \in Delays /\ FIRST_WAIT \in Delays
BY RadiusAssumption DEF Delays

(* One registration is at most two.                                        *)
LEMMA OneIsTwo ==
  ASSUME NEW t \in [Delays -> Nat], AtMostOne(t)
  PROVE  AtMostTwo(t)
<1>1. PICK d \in Delays : \A f \in Delays : t[f] <= Once(d, f)
  BY DEF AtMostOne
<1>2. \A f \in Delays : t[f] <= Once(d, f) + Once(d, f)
  BY <1>1 DEF Once
<1>3. QED
  BY <1>2 DEF AtMostTwo

(* No registration is at most one.                                         *)
LEMMA NoneIsOne == NoTimer \in [Delays -> Nat] /\ AtMostOne(NoTimer)
<1>1. \A f \in Delays : NoTimer[f] <= Once(0, f)
  BY DEF NoTimer, Once
<1>2. QED
  BY <1>1, DelaysTyped DEF AtMostOne, NoTimer

(* eloop_register_timeout adds one registration.                           *)
LEMMA RegisterEffect ==
  ASSUME NEW x, Shape(x), x.timers \in [Delays -> Nat], NEW d \in Delays,
         NEW y, y = register_timeout(x, d)
  PROVE  /\ y.msgs = x.msgs /\ y.timers \in [Delays -> Nat] /\ y.timers[d] > 0
         /\ \A f \in Delays : y.timers[f] = x.timers[f] + Once(d, f)
<1>1. y.msgs = x.msgs /\ y.timers = [x.timers EXCEPT ![d] = @ + 1]
  BY DEF register_timeout, Shape
<1>2. QED
  BY <1>1 DEF Once

(* eloop_cancel_timeout leaves no registration.                            *)
LEMMA CancelEffect ==
  ASSUME NEW x, Shape(x), NEW y, y = cancel_timeout(x)
  PROVE  Shape(y) /\ y.msgs = x.msgs /\ y.timers = NoTimer
BY DEF cancel_timeout, Shape

(* Both in a row leave one.                                                *)
LEMMA RearmEffect ==
  ASSUME NEW x, Shape(x), NEW d \in Delays,
         NEW y, y = register_timeout(cancel_timeout(x), d)
  PROVE  y.msgs = x.msgs /\ y.timers[d] > 0 /\ AtMostOne(y.timers)
<1>1. PICK z : z = cancel_timeout(x)
  OBVIOUS
<1>2. Shape(z) /\ z.msgs = x.msgs /\ z.timers = NoTimer
  BY <1>1, CancelEffect
<1>3. y = register_timeout(z, d)
  BY <1>1
<1>4. /\ y.msgs = z.msgs /\ y.timers[d] > 0
      /\ \A f \in Delays : y.timers[f] = z.timers[f] + Once(d, f)
  BY <1>2, <1>3, NoneIsOne, RegisterEffect
<1>5. \A f \in Delays : y.timers[f] <= Once(d, f)
  BY <1>2, <1>4 DEF NoTimer, Once
<1>6. QED
  BY <1>2, <1>4, <1>5 DEF AtMostOne

-----------------------------------------------------------------------------
(* Kept and Armed.                                                         *)

(* What two functions in a row do.                                         *)
LEMMA OutcomeTrans ==
  ASSUME NEW x, NEW y, NEW z, Outcome(x, y), Outcome(y, z)
  PROVE  Outcome(x, z)
<1>1. CASE Armed(z)
  BY <1>1 DEF Outcome
<1>2. CASE Kept(y, z) /\ Kept(x, y)
  BY <1>2 DEF Outcome, Kept
<1>3. CASE Kept(y, z) /\ Armed(y)
  BY <1>3 DEF Outcome, Kept, Armed
<1>4. QED
  BY <1>1, <1>2, <1>3 DEF Outcome

(* Doing nothing.                                                          *)
LEMMA OutcomeSelf ==
  ASSUME NEW x
  PROVE  Outcome(x, x)
BY DEF Outcome, Kept

(* A timer for FIRST_WAIT covers every message.                            *)
LEMMA ArmedCovers ==
  ASSUME NEW n \in Nat, NEW x, Typed(x, n), x.timers[FIRST_WAIT] > 0
  PROVE  Covered(x)
<1>1. \A r \in DOMAIN x.msgs : x.msgs[r].wait \in Nat
  BY DelaysTyped DEF Typed, Entry
<1>2. Covers(x, FIRST_WAIT)
  BY <1>1, DelaysTyped DEF Covers
<1>3. QED
  BY <1>2, DelaysTyped DEF Covered

(* What the functions keep of the invariant.                               *)
LEMMA OutcomeKeeps ==
  ASSUME NEW n \in Nat, NEW x, NEW y, Typed(y, n), Outcome(x, y)
  PROVE  /\ AtMostOne(x.timers) => AtMostOne(y.timers)
         /\ AtMostTwo(x.timers) => AtMostTwo(y.timers)
         /\ Covered(x) => Covered(y)
<1>1. CASE Kept(x, y)
  <2>1. ASSUME Covered(x), DOMAIN y.msgs # {}
        PROVE  \E d \in Delays : y.timers[d] > 0 /\ Covers(y, d)
    <3>1. PICK d \in Delays : x.timers[d] > 0 /\ Covers(x, d)
      BY <1>1, <2>1 DEF Kept, Covered
    <3>2. y.timers[d] > 0 /\ Covers(y, d)
      BY <1>1, <3>1 DEF Kept, Covers
    <3>3. QED
      BY <3>2
  <2>2. QED
    BY <1>1, <2>1 DEF Kept, Covered
<1>2. CASE Armed(y)
  <2>1. y.timers \in [Delays -> Nat] /\ AtMostOne(y.timers)
    BY <1>2 DEF Typed, Armed
  <2>2. AtMostTwo(y.timers)
    BY <2>1, OneIsTwo
  <2>3. Covered(y)
    <3>1. CASE DOMAIN y.msgs = {}
      BY <3>1 DEF Covered
    <3>2. CASE y.timers[FIRST_WAIT] > 0
      BY <3>2, ArmedCovers
    <3>3. QED
      BY <1>2, <3>1, <3>2 DEF Armed
  <2>4. QED
    BY <2>1, <2>2, <2>3
<1>3. QED
  BY <1>1, <1>2 DEF Outcome

(* Messages that leave the list take no timer along.                       *)
LEMMA RemovedKept ==
  ASSUME NEW x, NEW gone, NEW y, Removes(x, y, gone)
  PROVE  Kept(x, y)
BY DEF Removes, Kept

(* The same of the messages removed and discounted.                        *)
LEMMA DiscountedKept ==
  ASSUME NEW n \in Nat, NEW x, ClientOK(x, n), NEW gone \in SUBSET DOMAIN x.msgs,
         NEW y, y = Discounted(x, gone)
  PROVE  Kept(x, y)
<1>1. /\ DOMAIN y.msgs = DOMAIN x.msgs \ gone /\ y.timers = x.timers
      /\ \A r \in DOMAIN y.msgs : y.msgs[r] = x.msgs[r]
  BY DiscountedOK
<1>2. QED
  BY <1>1 DEF Kept

-----------------------------------------------------------------------------
(* The functions.                                                          *)

(* radius_client_flush.                                                    *)
LEMMA FlushOutcome ==
  ASSUME NEW n \in Nat, NEW x, ClientOK(x, n), NEW only_auth \in BOOLEAN,
         NEW z, z = radius_client_flush(x, only_auth)
  PROVE  Outcome(x, z)
<1>1. PICK gone : gone = {r \in DOMAIN x.msgs : only_auth => x.msgs[r].type = "auth"}
  OBVIOUS
<1>2. PICK y : y = Discounted(x, gone)
  OBVIOUS
<1>3. gone \in SUBSET DOMAIN x.msgs
  BY <1>1
<1>4. z = IF gone = DOMAIN x.msgs THEN cancel_timeout(y) ELSE y
  BY <1>1, <1>2 DEF radius_client_flush, Discounted
<1>5. Kept(x, y) /\ Shape(y) /\ DOMAIN y.msgs = DOMAIN x.msgs \ gone
  <2>1. Kept(x, y)
    BY <1>2, <1>3, DiscountedKept
  <2>2. ClientOK(y, n) /\ DOMAIN y.msgs = DOMAIN x.msgs \ gone
    BY <1>2, <1>3, DiscountedOK
  <2>3. QED
    BY <2>1, <2>2 DEF ClientOK, Typed
<1>6. CASE gone = DOMAIN x.msgs
  <2>1. z.msgs = y.msgs /\ z.timers = NoTimer
    BY <1>4, <1>5, <1>6, CancelEffect
  <2>2. QED
    BY <1>5, <1>6, <2>1, NoneIsOne DEF Outcome, Armed
<1>7. CASE gone # DOMAIN x.msgs
  BY <1>4, <1>5, <1>7 DEF Outcome
<1>8. QED
  BY <1>6, <1>7

(* radius_change_server: a message that is left gets a timer.              *)
LEMMA ChangeServerOutcome ==
  ASSUME NEW n \in Nat, NEW x, ClientOK(x, n), NEW kind \in Kinds,
         NEW new, NEW old, NEW res,
         NEW z, z = radius_change_server(x, kind, new, old, res)
  PROVE  Outcome(x, z)
<1> DEFINE flushed == IF kind = "auth" /\ (new = old \/ SecretsDiffer(new, old))
                      THEN radius_client_flush(x, TRUE) ELSE x
           Update(e) ==
             IF new = old \/ e.type # kind THEN e
             ELSE [ResetCounters(e) EXCEPT
                     !.secret = IF SecretsDiffer(new, old) /\ kind = "acct" THEN new ELSE @]
           M == [r \in DOMAIN flushed.msgs |-> Update(flushed.msgs[r])]
           Sock(s) == IF res = "conn" THEN "conn" ELSE s
           PeerNow(s) == IF res = "conn" THEN Peer(new) ELSE IF res = "cut" THEN 0 ELSE s
           LostNow(S) == IF res = "conn" THEN S \ {kind} ELSE S \cup Lost(flushed, {kind})
           u == [flushed EXCEPT !.msgs = M, !.serv[kind] = new,
                                !.sock[kind] = Sock(@), !.peer[kind] = PeerNow(@),
                                !.lost = LostNow(@)]
<1>1. flushed = x \/ flushed = radius_client_flush(x, TRUE)
  OBVIOUS
<1>2. u = [flushed EXCEPT !.msgs = M, !.serv[kind] = new,
                          !.sock[kind] = Sock(@), !.peer[kind] = PeerNow(@),
                          !.lost = LostNow(@)]
  OBVIOUS
<1>3. z = IF DOMAIN u.msgs = {} THEN u ELSE register_timeout(cancel_timeout(u), FIRST_WAIT)
  BY DEF radius_change_server
<1> HIDE DEF flushed, u
<1>4. Outcome(x, flushed) /\ Shape(flushed)
  <2>1. CASE flushed = x
    BY <2>1, OutcomeSelf DEF ClientOK, Typed
  <2>2. CASE flushed = radius_client_flush(x, TRUE)
    <3>1. ClientOK(flushed, n)
      BY <2>2, FlushOK
    <3>2. Outcome(x, flushed)
      BY <2>2, FlushOutcome
    <3>3. QED
      BY <3>1, <3>2 DEF ClientOK, Typed
  <2>3. QED
    BY <1>1, <2>1, <2>2
<1>5. DOMAIN M = DOMAIN flushed.msgs
  OBVIOUS
<1> HIDE DEF M, Update, Sock, PeerNow, LostNow
<1>6. Shape(u) /\ u.msgs = M /\ u.timers = flushed.timers
  BY <1>2, <1>4 DEF Shape
<1>7. CASE DOMAIN u.msgs = {}
  <2>1. z = u /\ DOMAIN flushed.msgs = {}
    BY <1>3, <1>5, <1>6, <1>7
  <2>2. QED
    BY <1>4, <1>6, <1>7, <2>1 DEF Outcome, Kept, Armed
<1>8. CASE DOMAIN u.msgs # {}
  <2>1. z = register_timeout(cancel_timeout(u), FIRST_WAIT)
    BY <1>3, <1>8
  <2>2. z.timers[FIRST_WAIT] > 0 /\ AtMostOne(z.timers)
    BY <1>6, <2>1, DelaysTyped, RearmEffect
  <2>3. QED
    BY <2>2 DEF Outcome, Armed
<1>9. QED
  BY <1>7, <1>8

(* radius_client_init_auth and _acct.                                      *)
LEMMA InitSockOutcome ==
  ASSUME NEW x, Shape(x), NEW kind, NEW res,
         NEW z, z = radius_client_init_sock(x, kind, res)
  PROVE  Outcome(x, z)
<1>1. PICK y : y = Sockets(x, kind, res)
  OBVIOUS
<1>2. Shape(y) /\ y.msgs = x.msgs /\ y.timers = x.timers
  <2> DEFINE st == IF res = "unread" THEN "none" ELSE res
             pr == IF res = "conn" THEN Peer(x.serv[kind]) ELSE 0
  <2>1. y = [x EXCEPT !.sock[kind] = st, !.peer[kind] = pr, !.lost = @ \ {kind}]
    BY <1>1 DEF Sockets
  <2> HIDE DEF st, pr
  <2>2. QED
    BY <2>1 DEF Shape
<1>3. CASE z = y
  BY <1>2, <1>3 DEF Outcome, Kept
<1>4. CASE z = register_timeout(cancel_timeout(y), FIRST_WAIT)
  <2>1. z.timers[FIRST_WAIT] > 0 /\ AtMostOne(z.timers)
    BY <1>2, <1>4, DelaysTyped, RearmEffect
  <2>2. QED
    BY <2>1 DEF Outcome, Armed
<1>5. QED
  BY <1>1, <1>3, <1>4, Zenon DEF radius_client_init_sock

(* A socket that is looked for.                                            *)
LEMMA OpenedOutcome ==
  ASSUME NEW x, Shape(x), NEW kind, NEW y \in Opened(x, kind)
  PROVE  Outcome(x, y)
<1>1. y = x \/ \E res \in InitResults : y = radius_client_init_sock(x, kind, res)
  BY DEF Opened
<1>2. QED
  BY <1>1, OutcomeSelf, InitSockOutcome

(* A failover.                                                             *)
LEMMA FailoverOutcome ==
  ASSUME NEW n \in Nat, NEW x, ClientOK(x, n), NEW kind \in Kinds, NEW res,
         NEW z, z = failover(x, kind, res)
  PROVE  Outcome(x, z)
BY ChangeServerOutcome DEF failover

(* A retransmission that finds no socket.                                  *)
LEMMA ReopenedOutcome ==
  ASSUME conf \in Conf, NEW n \in Nat, NEW x, ClientOK(x, n), NEW kind \in Kinds,
         NEW y \in Reopened(x, kind)
  PROVE  Outcome(x, y)
<1>1. PICK z \in Opened(x, kind) :
        y = z \/ \E res \in ConnectResults(z, kind) : y = failover(z, kind, res)
  BY DEF Reopened
<1>2. ClientOK(z, n)
  BY <1>1, OpenedOK, SameListOK
<1>3. Outcome(x, z)
  BY <1>1, OpenedOutcome DEF ClientOK, Typed
<1>4. Outcome(z, y)
  BY <1>1, <1>2, OutcomeSelf, FailoverOutcome
<1>5. QED
  BY <1>3, <1>4, OutcomeTrans

(* The way back to the primary server, for one kind.                       *)
LEMMA BackToPrimaryOutcome ==
  ASSUME conf \in Conf, conf.primary, NEW n \in Nat, NEW x, ClientOK(x, n),
         NEW kind \in Kinds, NEW y \in BackToPrimary(x, kind)
  PROVE  Outcome(x, y)
<1>1. PICK old : old = x.serv[kind]
  OBVIOUS
<1>2. old \in 1..conf.num /\ 1 \in 1..conf.num
  BY <1>1, ConfTyped DEF ClientOK, Typed
<1>3. CASE y = x
  BY <1>3, OutcomeSelf
<1>4. CASE y = radius_change_server(x, kind, 1, old, "conn")
  BY <1>4, ChangeServerOutcome
<1>5. ASSUME NEW res \in ChangeResults, NEW again \in ChangeResults,
             y = radius_change_server(radius_change_server(x, kind, 1, old, res),
                                      kind, old, old, again)
      PROVE  Outcome(x, y)
  <2>1. PICK z : z = radius_change_server(x, kind, 1, old, res)
    OBVIOUS
  <2>2. ClientOK(z, n)
    BY <1>2, <2>1, ChangeServerOK DEF Survives
  <2>3. Outcome(x, z)
    BY <2>1, ChangeServerOutcome
  <2>4. y = radius_change_server(z, kind, old, old, again)
    BY <1>5, <2>1, Zenon
  <2>5. Outcome(z, y)
    BY <2>2, <2>4, ChangeServerOutcome
  <2>6. QED
    BY <2>3, <2>5, OutcomeTrans
<1>6. QED
  BY <1>1, <1>3, <1>4, <1>5 DEF BackToPrimary, ChangeResults

(* radius_client_get_id.                                                   *)
LEMMA GetIdKept ==
  ASSUME NEW n \in Nat, NEW x, ClientOK(x, n), NEW y, y = radius_client_get_id(x)
  PROVE  Kept(x, y) /\ ClientOK(y, n)
<1>1. PICK gone : gone = {r \in DOMAIN x.msgs : x.msgs[r].id = x.next_radius_identifier}
  OBVIOUS
<1>2. y = [Without(x, gone) EXCEPT !.next_radius_identifier = (@ + 1) % NumIds]
  BY <1>1 DEF radius_client_get_id
<1>3. Shape(x)
  BY DEF ClientOK, Typed
<1>4. Removes(x, y, gone)
  BY <1>2, <1>3 DEF Removes, SameServers, Without, Shape
<1>5. QED
  BY <1>4, RemovedKept, GetIdOK

(* radius_client_update_timeout: one timer, at the earliest of the times.  *)
LEMMA UpdateTimeoutArms ==
  ASSUME NEW n \in Nat, NEW x, Typed(x, n), NEW y, y = radius_client_update_timeout(x)
  PROVE  y.msgs = x.msgs /\ AtMostOne(y.timers) /\ Covered(y)
<1>1. PICK W : W = {x.msgs[r].wait : r \in DOMAIN x.msgs}
  OBVIOUS
<1>2. Shape(x) /\ \A r \in DOMAIN x.msgs : x.msgs[r].wait \in Delays
  BY DEF Typed, Entry
<1>3. CASE DOMAIN x.msgs = {}
  <2>1. y = cancel_timeout(x)
    BY <1>3 DEF radius_client_update_timeout
  <2>2. y.msgs = x.msgs /\ y.timers = NoTimer
    BY <1>2, <2>1, CancelEffect
  <2>3. QED
    BY <1>3, <2>2, NoneIsOne DEF Covered
<1>4. CASE DOMAIN x.msgs # {}
  <2>1. PICK d : d = Oldest(W)
    OBVIOUS
  <2>2. y = register_timeout(cancel_timeout(x), d)
    BY <1>1, <1>4, <2>1 DEF radius_client_update_timeout
  <2>3. W \in SUBSET Delays /\ W # {}
    BY <1>1, <1>2, <1>4
  <2>4. W \in SUBSET Nat
    BY <2>3, DelaysTyped
  <2>5. d \in W /\ \A w \in W : d <= w
    BY <2>1, <2>3, <2>4, OldestExists
  <2>6. d \in Delays
    BY <2>3, <2>5
  <2>7. y.msgs = x.msgs /\ y.timers[d] > 0 /\ AtMostOne(y.timers)
    BY <1>2, <2>2, <2>6, RearmEffect
  <2>8. Covers(y, d)
    <3>1. SUFFICES ASSUME NEW r \in DOMAIN x.msgs PROVE d <= x.msgs[r].wait + FIRST_WAIT
      BY <2>7 DEF Covers
    <3>2. d <= x.msgs[r].wait
      BY <1>1, <2>5, <3>1
    <3>3. x.msgs[r].wait \in Nat /\ d \in Nat /\ FIRST_WAIT \in Nat
      BY <1>2, <2>6, <3>1, DelaysTyped
    <3>4. QED
      BY <3>2, <3>3
  <2>9. QED
    BY <2>6, <2>7, <2>8 DEF Covered
<1>5. QED
  BY <1>3, <1>4

(* What With leaves of the timers.                                         *)
LEMMA WithTimers ==
  ASSUME NEW x, Shape(x), NEW r, NEW e, NEW y, y = With(x, r, e)
  PROVE  y.timers = x.timers
BY DEF With, Shape

(* radius_client_list_add: the new message and the others have one timer.  *)
LEMMA ListAddArms ==
  ASSUME NEW n \in Nat, NEW x, ClientOK(x, n), NEW e \in Entry,
         NEW z, z = radius_client_list_add(x, n + 1, e), Typed(z, n + 1)
  PROVE  AtMostOne(z.timers) /\ Covered(z)
<1>1. PICK r : r = n + 1
  OBVIOUS
<1>2. PICK w : w = With(x, r, e)
  OBVIOUS
<1>3. Typed(x, n)
  BY DEF ClientOK
<1>4. Replaces(x, w, r, e)
  BY <1>2, <1>3, WithReplaces
<1>5. Typed(w, n + 1)
  <2>1. DOMAIN w.msgs \subseteq 1..(n + 1)
    BY <1>1, <1>3, <1>4 DEF Typed, Replaces
  <2>2. \A q \in DOMAIN w.msgs : w.msgs[q] \in Entry
    BY <1>3, <1>4 DEF Typed, Replaces
  <2>3. SocketsOK(w) /\ w.serv = x.serv
    BY <1>3, <1>4, SameSockets DEF Typed, Replaces, SameServers
  <2>4. QED
    BY <1>3, <1>4, <2>1, <2>2, <2>3 DEF Typed, Replaces
<1>6. PICK y : y = radius_client_update_timeout(w)
  OBVIOUS
<1>7. n + 1 \in Nat
  OBVIOUS
<1>8. AtMostOne(y.timers) /\ Covered(y)
  BY <1>5, <1>6, <1>7, UpdateTimeoutArms
<1>9. Shape(y)
  BY <1>5, <1>6, <1>7, UpdateTimeoutOK DEF SameList
<1>10. PICK gone : gone = {Oldest(DOMAIN y.msgs)} \ {r}
  OBVIOUS
<1>11. z = IF x.num_msgs >= MAX_ENTRIES THEN Without(y, gone)
           ELSE [y EXCEPT !.num_msgs = @ + 1]
  BY <1>1, <1>2, <1>6, <1>10 DEF radius_client_list_add
<1>12. Kept(y, z)
  <2>1. CASE z = Without(y, gone)
    <3>1. Removes(y, z, gone)
      BY <1>9, <2>1 DEF Removes, SameServers, Without, Shape
    <3>2. QED
      BY <3>1, RemovedKept
  <2>2. CASE z = [y EXCEPT !.num_msgs = @ + 1]
    <3>1. z.msgs = y.msgs /\ z.timers = y.timers
      BY <1>9, <2>2 DEF Shape
    <3>2. QED
      BY <3>1 DEF Kept
  <2>3. QED
    BY <1>11, <2>1, <2>2
<1>13. Outcome(y, z)
  BY <1>12 DEF Outcome
<1>14. QED
  BY <1>7, <1>8, <1>13, OutcomeKeeps

-----------------------------------------------------------------------------
(* The actions while no loop is under way.                                 *)

(* What the typed state gives to every step.                               *)
LEMMA InvTyped ==
  ASSUME Inv
  PROVE  /\ last \in Nat /\ ClientOK(c, last) /\ Typed(c, last) /\ Shape(c)
         /\ c.timers \in [Delays -> Nat] /\ PassOK(pass) /\ conf \in Conf
         /\ DOMAIN c.msgs \subseteq 1..last
BY RadiusAssumption DEF Inv, ClientOK, Typed

(* The same after the step.                                                *)
LEMMA InvTypedNext ==
  ASSUME Inv', conf' = conf
  PROVE  /\ last' \in Nat /\ Typed(c', last') /\ c'.timers \in [Delays -> Nat]
BY RadiusAssumption DEF Inv, ClientOK, Typed, SocketsOK, Reached

(* A step between two runs of the timer that is made of such functions.    *)
LEMMA QuietStep ==
  ASSUME Inv', conf' = conf, TimerInvariant, pass.state = "idle", Outcome(c, c'),
         pass'.state \in {"idle", "freed"}
  PROVE  TimerInvariant'
<1>1. last' \in Nat /\ Typed(c', last')
  BY InvTypedNext
<1>2. AtMostTwo(c.timers) /\ Covered(c)
  BY DEF TimerInvariant
<1>3. AtMostTwo(c'.timers) /\ Covered(c')
  BY <1>1, <1>2, OutcomeKeeps
<1>4. AtMostTwo(c.timers)' /\ Covered(c)'
  BY <1>3 DEF AtMostTwo, Covered, Covers
<1>5. QED
  BY <1>4 DEF TimerInvariant

(* A request is made: a socket is looked for, the message is queued.       *)
LEMMA SendTimer ==
  ASSUME Inv, Inv', TimerInvariant, NEW type \in Types, NEW addr \in Addr,
         radius_client_send(type, addr)
  PROVE  TimerInvariant'
<1>1. /\ last \in Nat /\ ClientOK(c, last) /\ pass.state = "idle" /\ pass' = pass
      /\ last' = last + 1 /\ conf \in Conf /\ conf' = conf
  BY InvTyped DEF radius_client_send, Busy
<1>2. PICK kind \in Kinds : kind = Kind(type)
  BY DEF Kind, Kinds
<1>3. PICK g : g = radius_client_get_id(c)
  OBVIOUS
<1>4. Kept(c, g) /\ ClientOK(g, last) /\ c.next_radius_identifier \in Ids
  BY <1>1, <1>3, GetIdKept DEF ClientOK, Typed
<1>5. PICK x \in Opened(g, kind) :
        \/ c' = x
        \/ LET e == NewEntry(type, addr, c.next_radius_identifier,
                             IF conf.differ THEN x.serv[kind] ELSE 1)
           IN  \/ c' = radius_client_list_add(x, last + 1, e)
               \/ \E res \in InitResults :
                    c' = radius_client_list_add(
                           radius_client_init_sock(x, kind, res), last + 1, e)
  BY <1>2, <1>3 DEF radius_client_send
<1>6. ClientOK(x, last)
  BY <1>1, <1>2, <1>4, <1>5, OpenedOK, SameListOK
<1>7. CASE c' = x
  <2>1. Outcome(g, x)
    BY <1>4, <1>5, OpenedOutcome DEF ClientOK, Typed
  <2>2. Outcome(c, g)
    BY <1>4 DEF Outcome
  <2>3. Outcome(c, c')
    BY <1>7, <2>1, <2>2, OutcomeTrans
  <2>4. QED
    BY <1>1, <2>3, QuietStep
<1>8. ASSUME NEW y, ClientOK(y, last), NEW e \in Entry,
             c' = radius_client_list_add(y, last + 1, e)
      PROVE  TimerInvariant'
  <2>1. Typed(c', last + 1) /\ c'.timers \in [Delays -> Nat]
    BY <1>1, InvTypedNext
  <2>2. AtMostOne(c'.timers) /\ Covered(c')
    BY <1>1, <1>8, <2>1, ListAddArms
  <2>3. AtMostTwo(c'.timers)
    BY <2>1, <2>2, OneIsTwo
  <2>4. AtMostTwo(c.timers)' /\ Covered(c)'
    BY <2>2, <2>3 DEF AtMostTwo, Covered, Covers
  <2>5. QED
    BY <1>1, <2>4 DEF TimerInvariant
<1>9. PICK e : e = NewEntry(type, addr, c.next_radius_identifier,
                            IF conf.differ THEN x.serv[kind] ELSE 1)
  OBVIOUS
<1>10. e \in Entry
  <2>1. x.serv \in [Kinds -> 1..conf.num] /\ conf.num \in {1, 2}
    BY <1>1, <1>6, ConfTyped DEF ClientOK, Typed
  <2>2. PICK s \in Servers : s = IF conf.differ THEN x.serv[kind] ELSE 1
    BY <1>2, <2>1 DEF Servers
  <2>3. e = NewEntry(type, addr, c.next_radius_identifier, s)
    BY <1>9, <2>2, Zenon
  <2>4. QED
    BY <1>4, <2>3, NewEntryTyped
<1>11. CASE c' = radius_client_list_add(x, last + 1, e)
  BY <1>6, <1>8, <1>10, <1>11
<1>12. ASSUME NEW res \in InitResults,
              c' = radius_client_list_add(radius_client_init_sock(x, kind, res), last + 1, e)
       PROVE  TimerInvariant'
  <2>1. PICK y : y = radius_client_init_sock(x, kind, res)
    OBVIOUS
  <2>2. ClientOK(y, last)
    BY <1>1, <1>2, <1>6, <1>12, <2>1, InitSockOK, SameListOK
  <2>3. c' = radius_client_list_add(y, last + 1, e)
    BY <1>12, <2>1, Zenon
  <2>4. QED
    BY <1>8, <1>10, <2>2, <2>3
<1>13. QED
  BY <1>5, <1>7, <1>9, <1>11, <1>12

(* An answer takes a message away.                                         *)
LEMMA ReceiveTimer ==
  ASSUME Inv, Inv', TimerInvariant, NEW kind \in Kinds, NEW id \in Ids,
         radius_client_receive(kind, id)
  PROVE  TimerInvariant'
<1>1. Shape(c) /\ pass.state = "idle" /\ pass' = pass /\ conf' = conf
  BY InvTyped DEF radius_client_receive, Busy
<1>2. PICK r : c' = [Without(c, {r}) EXCEPT !.num_msgs = @ - 1]
  BY DEF radius_client_receive
<1>3. Removes(c, c', {r})
  BY <1>1, <1>2 DEF Removes, SameServers, Without, Shape
<1>4. Outcome(c, c')
  BY <1>3, RemovedKept DEF Outcome
<1>5. QED
  BY <1>1, <1>4, QuietStep

(* A station is freed.                                                     *)
LEMMA StationFreedTimer ==
  ASSUME Inv, Inv', TimerInvariant, NEW addr \in Addr, StationFreed(addr)
  PROVE  TimerInvariant'
<1>1. /\ last \in Nat /\ ClientOK(c, last) /\ pass.state = "idle" /\ pass' = pass
      /\ c' = radius_client_flush_auth(c, addr) /\ conf' = conf
  BY InvTyped DEF StationFreed, Busy
<1>2. PICK gone : gone = {r \in DOMAIN c.msgs : c.msgs[r].type = "auth" /\ c.msgs[r].addr = addr}
  OBVIOUS
<1>3. c' = Discounted(c, gone) /\ gone \in SUBSET DOMAIN c.msgs
  BY <1>1, <1>2 DEF radius_client_flush_auth, Discounted
<1>4. Outcome(c, c')
  BY <1>1, <1>3, DiscountedKept DEF Outcome
<1>5. QED
  BY <1>1, <1>4, QuietStep

(* The configuration is reloaded.                                          *)
LEMMA ReloadTimer ==
  ASSUME Inv, Inv', TimerInvariant, Reload
  PROVE  TimerInvariant'
<1>1. /\ last \in Nat /\ ClientOK(c, last) /\ pass.state = "idle" /\ pass' = pass
      /\ conf' = conf
  BY InvTyped DEF Reload, Busy
<1>2. PICK x : x = radius_client_flush(c, FALSE)
  OBVIOUS
<1>3. Outcome(c, x) /\ Shape(x)
  BY <1>1, <1>2, FlushOutcome, FlushOK DEF ClientOK, Typed
<1>4. c'.msgs = x.msgs /\ c'.timers = x.timers
  <2>1. \E serv, lost : c' = [x EXCEPT !.serv = serv, !.lost = lost]
    BY <1>2 DEF Reload
  <2>2. QED
    BY <1>3, <2>1 DEF Shape
<1>5. Outcome(c, c')
  BY <1>3, <1>4 DEF Outcome, Kept, Armed
<1>6. QED
  BY <1>1, <1>5, QuietStep

(* The client is freed.                                                    *)
LEMMA DeinitTimer ==
  ASSUME Inv, Inv', TimerInvariant, radius_client_deinit
  PROVE  TimerInvariant'
<1>1. pass'.state = "freed"
  BY DEF radius_client_deinit, Idle
<1>2. c'.timers = NoTimer
  BY <1>1 DEF Inv, InLoop
<1>3. AtMostTwo(c'.timers)
  BY <1>2, NoneIsOne, OneIsTwo
<1>4. QED
  BY <1>1, <1>3 DEF TimerInvariant, AtMostTwo

(* radius_retry_primary_timer, for both kinds.                             *)
LEMMA RetryPrimaryTimer ==
  ASSUME Inv, Inv', TimerInvariant, radius_retry_primary_timer
  PROVE  TimerInvariant'
<1>1. /\ last \in Nat /\ ClientOK(c, last) /\ conf \in Conf /\ conf.primary
      /\ pass.state = "idle" /\ pass' = pass /\ conf' = conf
  BY InvTyped DEF radius_retry_primary_timer, Busy
<1>2. PICK x \in BackToPrimary(c, "auth") : c' \in BackToPrimary(x, "acct")
  BY DEF radius_retry_primary_timer
<1>3. "auth" \in Kinds /\ "acct" \in Kinds
  BY DEF Kinds
<1>4. ClientOK(x, last) /\ Outcome(c, x)
  BY <1>1, <1>2, <1>3, BackToPrimaryOK, BackToPrimaryOutcome
<1>5. Outcome(x, c')
  BY <1>1, <1>2, <1>3, <1>4, BackToPrimaryOutcome
<1>6. Outcome(c, c')
  BY <1>4, <1>5, OutcomeTrans
<1>7. QED
  BY <1>1, <1>6, QuietStep

(* Time passes: timers and waits come nearer together.                     *)
LEMMA TickTimer ==
  ASSUME Inv, TimerInvariant, Tick
  PROVE  TimerInvariant'
<1>1. /\ Shape(c) /\ c.timers \in [Delays -> Nat] /\ Typed(c, last)
      /\ pass.state = "idle" /\ pass' = pass
  BY InvTyped DEF Tick, Busy
<1> DEFINE Older(e) == [e EXCEPT !.wait = Less(@), !.age = IF @ < FIRST_WAIT THEN @ + 1 ELSE @]
           M == [r \in DOMAIN c.msgs |-> Older(c.msgs[r])]
           T == [d \in Delays |-> IF d < MAX_WAIT THEN c.timers[d + 1] ELSE 0]
<1>2. c' = [c EXCEPT !.msgs = M, !.timers = T]
  BY DEF Tick
<1>3. \A r \in DOMAIN c.msgs :
        c.msgs[r] \in Entry /\ c.msgs[r].wait \in Nat /\ Older(c.msgs[r]).wait = Less(c.msgs[r].wait)
  BY <1>1, DelaysTyped DEF Typed, Entry
<1>4. DOMAIN M = DOMAIN c.msgs /\ \A r \in DOMAIN M : M[r].wait = Less(c.msgs[r].wait)
  BY <1>3
<1>5. /\ T \in [Delays -> Nat]
      /\ \A d \in Delays : T[d] = IF d < MAX_WAIT THEN c.timers[d + 1] ELSE 0
  BY <1>1, DelaysTyped
<1> HIDE DEF M, T, Older
<1>6. c'.msgs = M /\ c'.timers = T
  BY <1>1, <1>2 DEF Shape
<1>7. c.timers[0] = 0
  BY <1>1, DelaysTyped DEF Tick, TimerDue
<1>8. AtMostTwo(T)
  <2>1. PICK d, e \in Delays : \A f \in Delays : c.timers[f] <= Once(d, f) + Once(e, f)
    BY DEF TimerInvariant, AtMostTwo
  <2>2. PICK a \in Delays : a = Less(d)
    BY DelaysTyped DEF Less
  <2>3. PICK b \in Delays : b = Less(e)
    BY DelaysTyped DEF Less
  <2>4. ASSUME NEW f \in Delays PROVE T[f] <= Once(a, f) + Once(b, f)
    <3>1. CASE f < MAX_WAIT
      <4>1. f + 1 \in Delays
        BY <3>1, DelaysTyped
      <4>2. T[f] <= Once(d, f + 1) + Once(e, f + 1)
        BY <1>5, <2>1, <3>1, <4>1
      <4>3. Once(d, f + 1) <= Once(a, f) /\ Once(e, f + 1) <= Once(b, f)
        BY <2>2, <2>3, <4>1, DelaysTyped DEF Once, Less
      <4>4. /\ Once(d, f + 1) \in Nat /\ Once(e, f + 1) \in Nat
            /\ Once(a, f) \in Nat /\ Once(b, f) \in Nat /\ T[f] \in Nat
        BY <1>5 DEF Once
      <4>5. QED
        BY <4>2, <4>3, <4>4
    <3>2. CASE ~(f < MAX_WAIT)
      BY <1>5, <3>2 DEF Once
    <3>3. QED
      BY <3>1, <3>2
  <2>5. QED
    BY <2>4 DEF AtMostTwo
<1>9. ASSUME DOMAIN M # {}
      PROVE  \E d \in Delays : T[d] > 0 /\ \A r \in DOMAIN M : d <= M[r].wait + FIRST_WAIT
  <2>1. PICK d \in Delays : c.timers[d] > 0 /\ Covers(c, d)
    BY <1>1, <1>4, <1>9 DEF TimerInvariant, Covered
  <2>2. d \in Nat \ {0} /\ d <= MAX_WAIT
    BY <1>7, <2>1, DelaysTyped
  <2>3. PICK b \in Delays : b = d - 1
    BY <2>2, DelaysTyped
  <2>4. T[b] > 0
    BY <1>5, <2>1, <2>2, <2>3, DelaysTyped
  <2>5. \A r \in DOMAIN M : b <= M[r].wait + FIRST_WAIT
    <3>1. SUFFICES ASSUME NEW r \in DOMAIN M PROVE b <= M[r].wait + FIRST_WAIT
      OBVIOUS
    <3>2. d <= c.msgs[r].wait + FIRST_WAIT /\ c.msgs[r].wait \in Nat
      BY <1>3, <1>4, <2>1, <3>1 DEF Covers
    <3>3. M[r].wait = Less(c.msgs[r].wait)
      BY <1>4, <3>1
    <3>4. QED
      BY <2>2, <2>3, <3>2, <3>3, DelaysTyped DEF Less
  <2>6. QED
    BY <2>4, <2>5
<1>10. AtMostTwo(c.timers)'
  BY <1>6, <1>8 DEF AtMostTwo
<1>11. Covered(c)'
  BY <1>6, <1>9 DEF Covered, Covers
<1>12. QED
  BY <1>1, <1>10, <1>11 DEF TimerInvariant

-----------------------------------------------------------------------------
(* The runs of radius_client_timer.                                        *)

(* The entry at the head of a list is its newest.                          *)
LEMMA NewestIsLast ==
  ASSUME NEW n \in Nat, NEW S \in SUBSET (1..n), S # {}
  PROVE  Newest(S) \in S /\ \A q \in S : q <= Newest(S)
<1> DEFINE B == {m \in Nat : \A q \in S : q <= m}
<1>1. n \in B
  OBVIOUS
<1>2. PICK m \in B : \A y \in B : m <= y
  BY <1>1, OldestExists
<1>3. m \in S
  <2>1. SUFFICES ASSUME m \notin S PROVE FALSE
    OBVIOUS
  <2>2. PICK s \in S : TRUE
    OBVIOUS
  <2>3. m \in Nat /\ m > s /\ s \in Nat
    BY <2>1, <2>2
  <2>4. m - 1 \in B
    BY <2>1, <2>3
  <2>5. QED
    BY <2>3, <2>4, <1>2
<1>4. QED
  BY <1>3 DEF Newest

(* What comes before the entry behind r is r and what came before r.       *)
LEMMA EntryAfterNext ==
  ASSUME NEW n \in Nat, NEW x, Typed(x, n), NEW r \in DOMAIN x.msgs,
         NEW q \in DOMAIN x.msgs, q > EntryAfter(x, r)
  PROVE  q = r \/ q > r
<1>1. DOMAIN x.msgs \subseteq 1..n
  BY DEF Typed
<1>2. SUFFICES ASSUME q < r PROVE FALSE
  BY <1>1
<1>3. q \in Behind(x, r) /\ Behind(x, r) \in SUBSET (1..n)
  BY <1>1, <1>2 DEF Behind
<1>4. EntryAfter(x, r) = Newest(Behind(x, r))
  BY <1>3 DEF EntryAfter
<1>5. q <= Newest(Behind(x, r)) /\ Newest(Behind(x, r)) \in Behind(x, r)
  BY <1>3, NewestIsLast
<1>6. QED
  BY <1>1, <1>3, <1>4, <1>5

(* The run under way is no longer registered; no message is behind it yet. *)
LEMMA TimerTimer ==
  ASSUME Inv, TimerInvariant, radius_client_timer
  PROVE  TimerInvariant'
<1>1. /\ Shape(c) /\ c.timers \in [Delays -> Nat] /\ last \in Nat
      /\ DOMAIN c.msgs \subseteq 1..last /\ pass.state = "idle"
  BY InvTyped DEF radius_client_timer, Busy
<1>2. c.timers[0] > 0 /\ c' = [c EXCEPT !.timers[0] = @ - 1]
  BY DEF radius_client_timer, TimerDue
<1>3. c'.msgs = c.msgs /\ c'.timers = [c.timers EXCEPT ![0] = @ - 1]
  BY <1>1, <1>2 DEF Shape
<1>4. /\ c'.timers \in [Delays -> Nat] /\ c'.timers[0] = c.timers[0] - 1
      /\ \A f \in Delays : f # 0 => c'.timers[f] = c.timers[f]
  BY <1>1, <1>2, <1>3, DelaysTyped
<1>5. AtMostOne(c'.timers)
  <2>1. PICK d, e \in Delays : \A f \in Delays : c.timers[f] <= Once(d, f) + Once(e, f)
    BY DEF TimerInvariant, AtMostTwo
  <2>2. d = 0 \/ e = 0
    BY <1>1, <1>2, <2>1, DelaysTyped DEF Once
  <2>3. CASE d = 0
    <3>1. ASSUME NEW f \in Delays PROVE c'.timers[f] <= Once(e, f)
      <4>1. c.timers[f] <= Once(d, f) + Once(e, f) /\ c.timers[f] \in Nat
        BY <1>1, <2>1
      <4>2. Once(d, f) = (IF f = 0 THEN 1 ELSE 0) /\ Once(e, f) \in Nat
        BY <2>3 DEF Once
      <4>3. QED
        BY <1>4, <4>1, <4>2
    <3>2. QED
      BY <3>1 DEF AtMostOne
  <2>4. CASE e = 0
    <3>1. ASSUME NEW f \in Delays PROVE c'.timers[f] <= Once(d, f)
      <4>1. c.timers[f] <= Once(d, f) + Once(e, f) /\ c.timers[f] \in Nat
        BY <1>1, <2>1
      <4>2. Once(e, f) = (IF f = 0 THEN 1 ELSE 0) /\ Once(d, f) \in Nat
        BY <2>4 DEF Once
      <4>3. QED
        BY <1>4, <4>1, <4>2
    <3>2. QED
      BY <3>1 DEF AtMostOne
  <2>5. QED
    BY <2>2, <2>3, <2>4
<1>6. AtMostTwo(c'.timers)
  BY <1>4, <1>5, OneIsTwo
<1>7. CASE DOMAIN c.msgs = {}
  <2>1. pass' = pass
    BY <1>7 DEF radius_client_timer
  <2>2. QED
    BY <1>1, <1>3, <1>6, <1>7, <2>1 DEF TimerInvariant, AtMostTwo, Covered
<1>8. CASE DOMAIN c.msgs # {}
  <2>1. PICK r : r = Newest(DOMAIN c.msgs)
    OBVIOUS
  <2>2. pass' = [Idle EXCEPT !.state = "loop", !.entry = r]
    BY <1>8, <2>1 DEF radius_client_timer
  <2>3. DOMAIN c.msgs \in SUBSET (1..last)
    BY <1>1
  <2>4. r \in DOMAIN c.msgs /\ \A q \in DOMAIN c.msgs : q <= r
    BY <1>1, <1>8, <2>1, <2>3, NewestIsLast
  <2>5. pass'.state = "loop" /\ pass'.entry = r
    BY <2>2 DEF Idle
  <2>6. \A q \in DOMAIN c'.msgs : ~(q > pass'.entry)
    BY <1>1, <1>3, <2>4, <2>5
  <2>7. Scheduled(c', pass'.first, pass'.entry)
    BY <2>6 DEF Scheduled
  <2>8. QED
    BY <1>5, <1>6, <2>5, <2>7 DEF TimerInvariant, AtMostOne, AtMostTwo, Scheduled
<1>9. QED
  BY <1>7, <1>8

(* Entry r is visited, the list is x by now: no other timer than one that  *)
(* covers everything, and the messages visited before are covered.         *)
Round(x, r) == AtMostOne(x.timers) /\ Scheduled(x, pass.first, r)

(* A round that calls one of the functions.                                *)
LEMMA RoundOutcome ==
  ASSUME NEW n \in Nat, NEW x, NEW y, Typed(y, n), NEW r, Round(x, r), Outcome(x, y)
  PROVE  Round(y, r)
<1>1. AtMostOne(y.timers)
  BY OutcomeKeeps DEF Round
<1>2. CASE Kept(x, y)
  BY <1>1, <1>2 DEF Round, Scheduled, Kept
<1>3. CASE Armed(y)
  BY <1>1, <1>3 DEF Round, Scheduled, Armed
<1>4. QED
  BY <1>2, <1>3 DEF Outcome

(* The visited entry may be changed.                                       *)
LEMMA RoundWith ==
  ASSUME NEW n \in Nat, NEW x, Typed(x, n), NEW r \in DOMAIN x.msgs, NEW e,
         Round(x, r), NEW y, y = With(x, r, e)
  PROVE  Round(y, r)
<1>1. Replaces(x, y, r, e)
  BY WithReplaces
<1>2. y.timers = x.timers
  BY WithTimers DEF Typed
<1>3. /\ DOMAIN y.msgs = DOMAIN x.msgs
      /\ \A q \in DOMAIN y.msgs : q # r => y.msgs[q] = x.msgs[q]
  BY <1>1 DEF Replaces
<1>4. ~(r > r)
  BY DEF Typed
<1>5. QED
  BY <1>2, <1>3, <1>4 DEF Round, Scheduled

(* The loop goes on behind an entry that stays: its time is in first.      *)
LEMMA KeepEntryTimer ==
  ASSUME NEW x, NEW r, Visiting(x, r), Round(x, r), KeepEntry(x, r)
  PROVE  TimerInvariant'
<1>1. /\ last \in Nat /\ Typed(x, last) /\ PassOK(pass) /\ pass.state = "loop"
      /\ r \in DOMAIN x.msgs /\ x.timers \in [Delays -> Nat]
  BY InvTyped DEF Visiting, ClientOK, Typed
<1>2. PICK w : w = x.msgs[r].wait
  OBVIOUS
<1>3. \A q \in DOMAIN x.msgs : x.msgs[q].wait \in Nat
  BY <1>1, DelaysTyped DEF Typed, Entry
<1>4. PICK first : first = IF w < pass.first THEN w ELSE pass.first
  OBVIOUS
<1>5. pass.first \in Nat /\ w \in Nat /\ first <= w /\ first <= pass.first /\ first \in Nat
  BY <1>1, <1>2, <1>3, <1>4, RadiusAssumption DEF PassOK, Unset
<1>6. PICK after : after = EntryAfter(x, r)
  OBVIOUS
<1>7. c' = x /\ pass'.state = "loop" /\ pass'.first = first /\ pass'.entry = after
  BY <1>1, <1>2, <1>4, <1>6 DEF KeepEntry, PassOK
<1>8. Scheduled(x, first, after)
  <2>1. CASE DOMAIN x.msgs = {} \/ x.timers[FIRST_WAIT] > 0
    BY <2>1 DEF Scheduled
  <2>2. CASE \A q \in DOMAIN x.msgs : q > r => pass.first <= x.msgs[q].wait
    <3>1. ASSUME NEW q \in DOMAIN x.msgs, q > after PROVE first <= x.msgs[q].wait
      <4>1. q = r \/ q > r
        BY <1>1, <1>6, <3>1, EntryAfterNext
      <4>2. QED
        BY <1>2, <1>3, <1>5, <2>2, <4>1
    <3>2. QED
      BY <3>1 DEF Scheduled
  <2>3. QED
    BY <2>1, <2>2 DEF Round, Scheduled
<1>9. AtMostOne(x.timers) /\ AtMostTwo(x.timers)
  BY <1>1, OneIsTwo DEF Round
<1>10. QED
  BY <1>7, <1>8, <1>9 DEF TimerInvariant, AtMostOne, AtMostTwo, Scheduled

(* The loop lost its place.                                                *)
LEMMA UndefinedTimer ==
  ASSUME NEW n \in Nat, NEW x, Typed(x, n), AtMostOne(x.timers), c' = x,
         PassOK(pass), pass' = [pass EXCEPT !.state = "undefined"]
  PROVE  TimerInvariant'
<1>1. pass'.state = "undefined"
  BY DEF PassOK
<1>2. AtMostTwo(x.timers)
  BY OneIsTwo DEF Typed
<1>3. QED
  BY <1>1, <1>2 DEF TimerInvariant, AtMostTwo

(* The loop removes the entry it visits.                                   *)
LEMMA RemoveEntryTimer ==
  ASSUME NEW x, NEW r, Visiting(x, r), Round(x, r), RemoveEntry(x, r)
  PROVE  TimerInvariant'
<1>1. /\ last \in Nat /\ Typed(x, last) /\ PassOK(pass) /\ pass.state = "loop" /\ Shape(x)
      /\ r \in DOMAIN x.msgs /\ x.timers \in [Delays -> Nat] /\ AtMostOne(x.timers)
  BY InvTyped DEF Visiting, ClientOK, Typed, Round
<1>2. CASE c' = x /\ pass' = [pass EXCEPT !.state = "undefined"]
  BY <1>1, <1>2, UndefinedTimer
<1>3. CASE /\ c' = [Without(x, {r}) EXCEPT !.num_msgs = @ - 1]
           /\ pass' = [pass EXCEPT !.entry = EntryAfter(x, r)]
  <2>1. Removes(x, c', {r})
    BY <1>1, <1>3 DEF Removes, SameServers, Without, Shape
  <2>2. /\ c'.timers = x.timers /\ DOMAIN c'.msgs = DOMAIN x.msgs \ {r}
        /\ \A q \in DOMAIN c'.msgs : c'.msgs[q] = x.msgs[q]
    BY <2>1 DEF Removes
  <2>3. PICK after : after = EntryAfter(x, r)
    OBVIOUS
  <2>4. pass'.state = "loop" /\ pass'.first = pass.first /\ pass'.entry = after
    BY <1>1, <1>3, <2>3 DEF PassOK
  <2>5. Scheduled(c', pass.first, after)
    <3>1. CASE DOMAIN x.msgs = {} \/ x.timers[FIRST_WAIT] > 0
      BY <2>2, <3>1 DEF Scheduled
    <3>2. CASE \A q \in DOMAIN x.msgs : q > r => pass.first <= x.msgs[q].wait
      <4>1. ASSUME NEW q \in DOMAIN c'.msgs, q > after PROVE pass.first <= c'.msgs[q].wait
        <5>1. q \in DOMAIN x.msgs /\ q # r /\ c'.msgs[q] = x.msgs[q]
          BY <2>2, <4>1
        <5>2. q > r
          BY <1>1, <2>3, <4>1, <5>1, EntryAfterNext
        <5>3. QED
          BY <3>2, <5>1, <5>2
      <4>2. QED
        BY <4>1 DEF Scheduled
    <3>3. QED
      BY <3>1, <3>2 DEF Round, Scheduled
  <2>6. AtMostTwo(x.timers)
    BY <1>1, OneIsTwo
  <2>7. QED
    BY <1>1, <2>2, <2>4, <2>5, <2>6 DEF TimerInvariant, AtMostOne, AtMostTwo, Scheduled
<1>4. QED
  BY <1>2, <1>3 DEF RemoveEntry

(* The loop starts again: every message is visited once more.              *)
LEMMA RestartTimer ==
  ASSUME NEW n \in Nat, NEW x, Typed(x, n), AtMostOne(x.timers), Restart(x),
         PassOK(pass), pass.state = "loop"
  PROVE  TimerInvariant'
<1>1. PICK head : head = IF DOMAIN x.msgs = {} THEN NULL ELSE Newest(DOMAIN x.msgs)
  OBVIOUS
<1>2. c' = x /\ pass' = [pass EXCEPT !.entry = head, !.prev = NULL]
  BY <1>1 DEF Restart
<1>3. pass'.state = "loop" /\ pass'.entry = head
  BY <1>2 DEF PassOK
<1>4. DOMAIN x.msgs \in SUBSET (1..n)
  BY DEF Typed
<1>5. ASSUME NEW q \in DOMAIN x.msgs PROVE q <= head /\ head \in Nat
  <2>1. DOMAIN x.msgs # {} /\ head = Newest(DOMAIN x.msgs)
    BY <1>1, <1>5
  <2>2. head \in DOMAIN x.msgs /\ q <= head
    BY <1>4, <1>5, <2>1, NewestIsLast
  <2>3. QED
    BY <1>4, <2>2
<1>6. \A q \in DOMAIN x.msgs : ~(q > head)
  BY <1>4, <1>5
<1>7. Scheduled(x, pass'.first, head)
  BY <1>6 DEF Scheduled
<1>8. AtMostTwo(x.timers)
  BY OneIsTwo DEF Typed
<1>9. QED
  BY <1>2, <1>3, <1>7, <1>8 DEF TimerInvariant, AtMostOne, AtMostTwo, Scheduled

(* Behind a send.                                                          *)
LEMMA SentTimer ==
  ASSUME NEW x, NEW r, Visiting(x, r), Round(x, r), Sent(x, r)
  PROVE  TimerInvariant'
<1>1. RemoveEntry(x, r) \/ KeepEntry(x, r)
  BY DEF Sent
<1>2. QED
  BY <1>1, RemoveEntryTimer, KeepEntryTimer

(* The next delay of the visited entry.                                    *)
LEMMA BackoffRound ==
  ASSUME NEW x, NEW r, Visiting(x, r), Round(x, r), NEW y, y = Backoff(x, r)
  PROVE  Visiting(y, r) /\ Round(y, r)
<1>1. last \in Nat /\ Typed(x, last) /\ r \in DOMAIN x.msgs
  BY InvTyped DEF Visiting, ClientOK
<1>2. PICK f : y = With(x, r, f)
  BY DEF Backoff
<1>3. QED
  BY <1>1, <1>2, BackoffOK, RoundWith

(* radius_client_retransmit from its send() on.                            *)
LEMMA ResendTimer ==
  ASSUME NEW x, NEW r, Visiting(x, r), Round(x, r), Resend(x, r)
  PROVE  TimerInvariant'
<1>1. last \in Nat /\ ClientOK(x, last) /\ Shape(x) /\ conf \in Conf
  BY InvTyped DEF Visiting, ClientOK, Typed
<1>2. ASSUME NEW y, Visiting(y, r), Round(y, r), Sent(Backoff(y, r), r)
      PROVE  TimerInvariant'
  <2>1. PICK z : z = Backoff(y, r)
    OBVIOUS
  <2>2. Visiting(z, r) /\ Round(z, r)
    BY <1>2, <2>1, BackoffRound
  <2>3. Sent(z, r)
    BY <1>2, <2>1
  <2>4. QED
    BY <2>2, <2>3, SentTimer
<1>3. ASSUME NEW res \in InitResults, NEW y,
             y = radius_client_init_sock(x, Kind(x.msgs[r].type), res)
      PROVE  Visiting(y, r) /\ Round(y, r)
  <2>1. Kind(x.msgs[r].type) \in Kinds
    BY DEF Kind, Kinds
  <2>2. SameList(x, y)
    BY <1>1, <1>3, <2>1, InitSockOK
  <2>3. Visiting(y, r) /\ Typed(y, last)
    BY <2>2, VisitingSame DEF Visiting, ClientOK
  <2>4. Outcome(x, y)
    BY <1>1, <1>3, InitSockOutcome
  <2>5. QED
    BY <1>1, <2>3, <2>4, RoundOutcome
<1>4. ASSUME NEW res \in InitResults, NEW y,
             y = radius_client_init_sock(x, Kind(x.msgs[r].type), res),
             KeepEntry(y, r) \/ Sent(Backoff(y, r), r)
      PROVE  TimerInvariant'
  <2>1. Visiting(y, r) /\ Round(y, r)
    BY <1>3, <1>4
  <2>2. QED
    BY <1>2, <1>4, <2>1, KeepEntryTimer
<1>5. QED
  BY <1>2, <1>4 DEF Resend

(* One round of the loop.                                                  *)
LEMMA TimerLoopTimer ==
  ASSUME Inv, TimerInvariant, TimerLoop
  PROVE  TimerInvariant'
<1>1. PICK r : r = pass.entry
  OBVIOUS
<1>2. /\ pass.state = "loop" /\ conf \in Conf /\ last \in Nat /\ ClientOK(c, last)
      /\ r \in DOMAIN c.msgs /\ PassOK(pass)
  <2>1. pass.state = "loop" /\ r # NULL
    BY <1>1 DEF TimerLoop
  <2>2. QED
    BY <1>1, <2>1, InvTyped, EntryThere
<1>3. Round(c, r)
  BY <1>1, <1>2 DEF TimerInvariant, Round
<1>4. PICK kind \in Kinds : kind = Kind(c.msgs[r].type)
  BY DEF Kind, Kinds
<1>5. ASSUME NEW x, Survives(c, x, last), r \in DOMAIN x.msgs,
             kind = "acct" => DOMAIN x.msgs = DOMAIN c.msgs
      PROVE  Visiting(x, r) /\ x.msgs[r].attempts < MAX_RETRIES
  BY <1>1, <1>2, <1>4, <1>5, VisitOK
<1>6. CASE KeepEntry(c, r)
  <2>1. Survives(c, c, last)
    BY <1>2, FollowsSelf DEF Survives
  <2>2. Visiting(c, r)
    BY <1>2, <1>5, <2>1
  <2>3. QED
    BY <1>3, <1>6, <2>2, KeepEntryTimer
<1>7. ASSUME NEW x \in Reopened(c, kind),
             \/ r \notin DOMAIN x.msgs /\ Restart(x)
             \/ r \in DOMAIN x.msgs /\ RemoveEntry(x, r)
             \/ /\ r \in DOMAIN x.msgs
                /\ LET y == Renumbered(x, r) IN
                   IF r \notin DOMAIN y.msgs
                   THEN c' = y /\ pass' = [pass EXCEPT !.state = "undefined"]
                   ELSE Resend(Attempt(y, r, x.next_radius_identifier), r)
      PROVE  TimerInvariant'
  <2>0. Survives(c, x, last) /\ (kind = "acct" => DOMAIN x.msgs = DOMAIN c.msgs)
    BY <1>2, <1>7, ReopenedOK
  <2>1. ClientOK(x, last) /\ Typed(x, last)
    BY <2>0 DEF Survives, ClientOK
  <2>2. Outcome(c, x)
    BY <1>2, <1>7, ReopenedOutcome
  <2>3. Round(x, r)
    BY <1>2, <1>3, <2>1, <2>2, RoundOutcome
  <2>4. CASE r \notin DOMAIN x.msgs /\ Restart(x)
    BY <1>2, <2>1, <2>3, <2>4, RestartTimer DEF Round
  <2>5. CASE r \in DOMAIN x.msgs /\ RemoveEntry(x, r)
    <3>1. Visiting(x, r)
      BY <1>5, <2>0, <2>5
    <3>2. QED
      BY <2>3, <2>5, <3>1, RemoveEntryTimer
  <2>6. ASSUME r \in DOMAIN x.msgs, NEW y, y = Renumbered(x, r),
               IF r \notin DOMAIN y.msgs
               THEN c' = y /\ pass' = [pass EXCEPT !.state = "undefined"]
               ELSE Resend(Attempt(y, r, x.next_radius_identifier), r)
        PROVE  TimerInvariant'
    <3>1. Visiting(x, r) /\ x.msgs[r].attempts < MAX_RETRIES
      BY <1>5, <2>0, <2>6
    <3>2. /\ ClientOK(y, last) /\ x.next_radius_identifier \in Ids
          /\ x.msgs[r].type = "acct" =>
               \A q \in DOMAIN y.msgs : y.msgs[q].id # x.next_radius_identifier
          /\ r \in DOMAIN y.msgs => Visiting(y, r) /\ y.msgs[r] = x.msgs[r]
      BY <2>6, <3>1, RenumberedOK
    <3>kept. Kept(x, y)
      <4>1. CASE x.msgs[r].type = "acct"
        BY <1>2, <2>1, <2>6, <4>1, GetIdKept DEF Renumbered
      <4>2. CASE x.msgs[r].type # "acct"
        BY <2>6, <4>2 DEF Renumbered, Kept
      <4>3. QED
        BY <4>1, <4>2
    <3>3. Round(y, r) /\ Typed(y, last)
      <4>1. Outcome(x, y) /\ Typed(y, last)
        BY <3>2, <3>kept DEF Outcome, ClientOK
      <4>2. QED
        BY <1>2, <2>3, <4>1, RoundOutcome
    <3>4. CASE r \notin DOMAIN y.msgs
      <4>1. c' = y /\ pass' = [pass EXCEPT !.state = "undefined"]
        BY <2>6, <3>4
      <4>2. QED
        BY <1>2, <3>3, <4>1, UndefinedTimer DEF Round
    <3>5. CASE r \in DOMAIN y.msgs
      <4>1. Visiting(y, r) /\ y.msgs[r] = x.msgs[r]
        BY <3>2, <3>5
      <4>2. PICK z : z = Attempt(y, r, x.next_radius_identifier)
        OBVIOUS
      <4>3. Visiting(z, r)
        BY <3>1, <3>2, <3>5, <4>1, <4>2, AttemptOK
      <4>4. PICK f : z = With(y, r, f)
        BY <4>2 DEF Attempt
      <4>5. Round(z, r)
        BY <1>2, <3>3, <3>5, <4>4, RoundWith
      <4>6. Resend(z, r)
        BY <2>6, <3>5, <4>2
      <4>7. QED
        BY <4>3, <4>5, <4>6, ResendTimer
    <3>6. QED
      BY <3>4, <3>5
  <2>7. QED
    BY <1>7, <2>4, <2>5, <2>6
<1>8. QED
  BY <1>1, <1>4, <1>6, <1>7 DEF TimerLoop

(* Behind the loop one more timer is registered, for first; failovers      *)
(* replace it.                                                             *)
LEMMA TimerEndTimer ==
  ASSUME Inv, TimerInvariant, TimerEnd
  PROVE  TimerInvariant'
<1>1. /\ last \in Nat /\ ClientOK(c, last) /\ Typed(c, last) /\ Shape(c) /\ conf \in Conf
      /\ c.timers \in [Delays -> Nat] /\ PassOK(pass) /\ DOMAIN c.msgs \subseteq 1..last
      /\ pass.state = "loop" /\ pass.entry = NULL /\ pass' = Idle
  BY InvTyped DEF TimerEnd
<1>2. AtMostOne(c.timers) /\ Scheduled(c, pass.first, NULL)
  BY <1>1 DEF TimerInvariant
<1>3. PICK d : d = IF pass.first = Unset THEN 0 ELSE pass.first
  OBVIOUS
<1>4. d \in Delays
  <2>1. pass.first \in 0..Unset
    BY <1>1 DEF PassOK
  <2>2. QED
    BY <1>3, <2>1, RadiusAssumption DEF Unset, Delays
<1>5. PICK armed : armed = IF DOMAIN c.msgs = {} THEN c ELSE register_timeout(c, d)
  OBVIOUS
<1>6. PICK x \in FailoverIf(armed, "auth") : c' \in FailoverIf(x, "acct")
  BY <1>3, <1>5 DEF TimerEnd
<1>7. ClientOK(armed, last)
  BY <1>1, <1>4, <1>5, RegisterOK, SameListOK
<1>8. AtMostTwo(armed.timers) /\ Covered(armed)
  <2>1. CASE DOMAIN c.msgs = {}
    BY <1>1, <1>2, <1>5, <2>1, OneIsTwo DEF Covered
  <2>2. CASE DOMAIN c.msgs # {}
    <3>1. armed = register_timeout(c, d)
      BY <1>5, <2>2
    <3>2. /\ armed.msgs = c.msgs /\ armed.timers \in [Delays -> Nat] /\ armed.timers[d] > 0
          /\ \A f \in Delays : armed.timers[f] = c.timers[f] + Once(d, f)
      BY <1>1, <1>4, <3>1, RegisterEffect
    <3>3. AtMostTwo(armed.timers)
      <4>1. PICK e \in Delays : \A f \in Delays : c.timers[f] <= Once(e, f)
        BY <1>2 DEF AtMostOne
      <4>2. \A f \in Delays : armed.timers[f] <= Once(e, f) + Once(d, f)
        BY <1>1, <3>2, <4>1 DEF Once
      <4>3. QED
        BY <1>4, <4>2 DEF AtMostTwo
    <3>4. CASE c.timers[FIRST_WAIT] > 0
      <4>1. armed.timers[FIRST_WAIT] > 0
        <5>1. /\ armed.timers[FIRST_WAIT] = c.timers[FIRST_WAIT] + Once(d, FIRST_WAIT)
              /\ c.timers[FIRST_WAIT] \in Nat
          BY <1>1, <3>2, DelaysTyped
        <5>2. Once(d, FIRST_WAIT) \in Nat
          BY DEF Once
        <5>3. QED
          BY <3>4, <5>1, <5>2
      <4>2. Typed(armed, last)
        BY <1>7 DEF ClientOK
      <4>3. QED
        BY <1>1, <3>3, <4>1, <4>2, ArmedCovers
    <3>5. CASE \A q \in DOMAIN c.msgs : q > NULL => pass.first <= c.msgs[q].wait
      <4>1. ASSUME NEW q \in DOMAIN c.msgs PROVE d <= c.msgs[q].wait + FIRST_WAIT
        <5>1. c.msgs[q].wait \in Nat /\ pass.first \in Nat /\ FIRST_WAIT \in Nat /\ q > NULL
          BY <1>1, RadiusAssumption DEF PassOK, Typed, Entry, Delays, Unset, NULL
        <5>2. QED
          BY <1>3, <3>5, <5>1
      <4>2. Covers(armed, d)
        BY <3>2, <4>1 DEF Covers
      <4>3. QED
        BY <1>4, <3>2, <3>3, <4>2 DEF Covered
    <3>6. QED
      BY <1>2, <2>2, <3>4, <3>5 DEF Scheduled
  <2>3. QED
    BY <2>1, <2>2
<1>9. ASSUME NEW y, ClientOK(y, last), NEW kind \in Kinds, NEW z \in FailoverIf(y, kind)
      PROVE  ClientOK(z, last) /\ Outcome(y, z)
  <2>1. z = y \/ \E res \in ChangeResults : z = failover(y, kind, res)
    BY <1>9 DEF FailoverIf, ConnectResults, ChangeResults, Failures
  <2>2. CASE z = y
    BY <1>9, <2>2, OutcomeSelf
  <2>3. ASSUME NEW res \in ChangeResults, z = failover(y, kind, res)
        PROVE  ClientOK(z, last) /\ Outcome(y, z)
    BY <1>1, <1>9, <2>3, FailoverOK, FailoverOutcome DEF Survives
  <2>4. QED
    BY <2>1, <2>2, <2>3
<1>10. "auth" \in Kinds /\ "acct" \in Kinds
  BY DEF Kinds
<1>11. ClientOK(x, last) /\ Outcome(armed, x)
  BY <1>6, <1>7, <1>9, <1>10
<1>12. ClientOK(c', last) /\ Outcome(x, c')
  BY <1>6, <1>9, <1>10, <1>11
<1>13. Outcome(armed, c') /\ Typed(c', last)
  BY <1>11, <1>12, OutcomeTrans DEF ClientOK
<1>14. AtMostTwo(c'.timers) /\ Covered(c')
  BY <1>1, <1>8, <1>13, OutcomeKeeps
<1>15. pass'.state = "idle"
  BY <1>1, IdleOK
<1>16. QED
  BY <1>14, <1>15 DEF TimerInvariant, AtMostTwo, Covered, Covers

-----------------------------------------------------------------------------
(* The theorems.                                                           *)

(* The client starts without messages and without timers.                  *)
LEMMA TimerInit ==
  ASSUME Init
  PROVE  TimerInvariant
<1>1. pass = Idle /\ c.timers = NoTimer /\ DOMAIN c.msgs = {}
  BY DEF Init
<1>2. AtMostTwo(c.timers)
  BY <1>1, NoneIsOne, OneIsTwo
<1>3. pass.state = "idle"
  BY <1>1, IdleOK
<1>4. QED
  BY <1>1, <1>2, <1>3 DEF TimerInvariant, Covered

(* Every step keeps the invariant.                                         *)
LEMMA TimerNext ==
  ASSUME Inv, Inv', TimerInvariant, [Next]_vars
  PROVE  TimerInvariant'
<1>1. CASE UNCHANGED vars
  BY <1>1 DEF vars, TimerInvariant, AtMostOne, AtMostTwo, Covered, Covers, Scheduled
<1>2. CASE \E type \in Types, addr \in Addr : radius_client_send(type, addr)
  BY <1>2, SendTimer
<1>3. CASE \E kind \in Kinds, id \in Ids : radius_client_receive(kind, id)
  BY <1>3, ReceiveTimer
<1>4. CASE \E addr \in Addr : StationFreed(addr)
  BY <1>4, StationFreedTimer
<1>5. CASE Reload
  BY <1>5, ReloadTimer
<1>6. CASE radius_client_deinit
  BY <1>6, DeinitTimer
<1>7. CASE radius_retry_primary_timer
  BY <1>7, RetryPrimaryTimer
<1>8. CASE radius_client_timer
  BY <1>8, TimerTimer
<1>9. CASE TimerLoop
  BY <1>9, TimerLoopTimer
<1>10. CASE TimerEnd
  BY <1>10, TimerEndTimer
<1>11. CASE Tick
  BY <1>11, TickTimer
<1>12. QED
  BY <1>1, <1>2, <1>3, <1>4, <1>5, <1>6, <1>7, <1>8, <1>9, <1>10, <1>11 DEF Next

(* The invariant of the timers holds in every reachable state.             *)
THEOREM TimerInvariantHolds == Spec => []TimerInvariant
<1>1. Init => TimerInvariant
  BY TimerInit
<1>2. Inv /\ Inv' /\ TimerInvariant /\ [Next]_vars => TimerInvariant'
  BY TimerNext
<1>3. QED
  BY <1>1, <1>2, InvHolds, PTL DEF Spec

(* However radius_client_timer, failovers, reconnections and new requests  *)
(* follow one another, at most two registrations of radius_client_timer    *)
(* exist: every path through radius_client_timer that registers a timer of *)
(* its own cancels the others first, except the one behind its loop.       *)
THEOREM TimersAlwaysBounded == Spec => []TimersBounded
<1>1. TimerInvariant => TimersBounded
  BY DEF TimerInvariant, AtMostTwo, TimersBounded
<1>2. QED
  BY <1>1, TimerInvariantHolds, PTL

(* A pending message is never left without a timer, and the timer comes no *)
(* later than FIRST_WAIT after the message is due, whatever was flushed,   *)
(* answered, failed over or reconnected since it was registered.           *)
THEOREM AlwaysInTime == Spec => []RetransmitInTime
<1>1. TimerInvariant => RetransmitInTime
  BY DEF TimerInvariant, Covered, Covers, RetransmitInTime, Busy
<1>2. QED
  BY <1>1, TimerInvariantHolds, PTL

=================================================================================
