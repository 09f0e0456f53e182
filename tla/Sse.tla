--------------------------------- MODULE Sse ---------------------------------
(***************************************************************************)
(* The SSE service (services/sse.service.ts) behind GET /v1/events/subscribe *)
(* (controllers/sse.controller.ts): the caps are checked, the caller's      *)
(* streams are awaited from the database, and only then is the client       *)
(* registered.  Clients leave by closing, by being too slow, or by failing  *)
(* a write, and the same client may leave by more than one of these paths.  *)
(***************************************************************************)
EXTENDS Naturals, FiniteSets

CONSTANTS
  Conns,           \* requests to subscribe, each with its own response socket
  Ips, Users,
  IpOf, UserOf,    \* the address and the authenticated user of a request
  SseStreams,
  OwnedIds,        \* OwnedIds[u]: the streams u sends or receives
  MaxConnections, MaxPerIp, MaxPerUser,
  MaxBus           \* bound: messages on the Redis bus at a time

ASSUME SseAssumption ==
  /\ IpOf \in [Conns -> Ips] /\ UserOf \in [Conns -> Users]
  /\ OwnedIds \in [Users -> SUBSET SseStreams]
  /\ {MaxConnections, MaxPerIp, MaxPerUser} \subseteq Nat \ {0}

VARIABLES
  request,               \* where the subscribe handler of a request stands
  socket,                \* whether the peer still holds the response open
  clients,               \* the ids in the service's client map
  subscriptions, paused, \* fields of a client
  backlog,               \* writableLength: 0 flowing, 1 over the high-water mark, 2 over MAX_WRITABLE_BUFFER
  ipConnectionCounts, userConnectionCounts,
  shuttingDown,
  bus,                   \* topics published to Redis and not yet handed back
  reconnected,           \* clients that were sent the reconnect event
  overlapped,            \* history: a request passed the caps while another was between check and registration
  lateJoiners            \* history: requests between check and registration when the shutdown began

sseVars == <<request, socket, clients, subscriptions, paused, backlog, ipConnectionCounts,
             userConnectionCounts, shuttingDown, bus, reconnected, overlapped, lateJoiners>>

Topics == SseStreams \cup Users

SseTypeOK ==
  /\ request \in [Conns -> {"idle", "querying", "streaming", "refused"}]
  /\ socket \in [Conns -> {"open", "closed"}]
  /\ clients \subseteq Conns
  /\ subscriptions \in [Conns -> SUBSET Topics]
  /\ paused \in [Conns -> BOOLEAN]
  /\ backlog \in [Conns -> 0..2]
  /\ ipConnectionCounts \in [Ips -> 0..Cardinality(Conns)]
  /\ userConnectionCounts \in [Users -> 0..Cardinality(Conns)]
  /\ shuttingDown \in BOOLEAN /\ overlapped \in BOOLEAN
  /\ bus \subseteq Topics
  /\ reconnected \subseteq Conns /\ lateJoiners \subseteq Conns

SseInit ==
  /\ request = [c \in Conns |-> "idle"]
  /\ socket = [c \in Conns |-> "open"]
  /\ clients = {}
  /\ subscriptions = [c \in Conns |-> {}]
  /\ paused = [c \in Conns |-> FALSE]
  /\ backlog = [c \in Conns |-> 0]
  /\ ipConnectionCounts = [i \in Ips |-> 0]
  /\ userConnectionCounts = [u \in Users |-> 0]
  /\ shuttingDown = FALSE
  /\ bus = {}
  /\ reconnected = {}
  /\ overlapped = FALSE
  /\ lateJoiners = {}

Querying == {c \in Conns : request[c] = "querying"}

CheckCapacity(c) ==
  /\ Cardinality(clients) < MaxConnections
  /\ ipConnectionCounts[IpOf[c]] < MaxPerIp
  /\ userConnectionCounts[UserOf[c]] < MaxPerUser

(* The synchronous half of subscribe: refused while shutting down, over a cap or
   on invalid parameters; otherwise the handler awaits the caller's streams. *)
Subscribe(c) ==
  /\ request[c] = "idle" /\ socket[c] = "open"
  /\ \E parses \in BOOLEAN :
       LET admitted == ~shuttingDown /\ CheckCapacity(c) /\ parses IN
       /\ request' = [request EXCEPT ![c] = IF admitted THEN "querying" ELSE "refused"]
       /\ overlapped' = (overlapped \/ (admitted /\ Querying # {}))
  /\ UNCHANGED <<socket, clients, subscriptions, paused, backlog, ipConnectionCounts,
                 userConnectionCounts, shuttingDown, bus, reconnected, lateJoiners>>

QueryFails(c) ==
  /\ request[c] = "querying"
  /\ request' = [request EXCEPT ![c] = "refused"]
  /\ UNCHANGED <<socket, clients, subscriptions, paused, backlog, ipConnectionCounts,
                 userConnectionCounts, shuttingDown, bus, reconnected, overlapped, lateJoiners>>

(* The topics of a request that names `streams` and `users` ("all" names none):
   its own streams or those of them it named, its own key, and the keys of the
   other parties of its streams that it named. *)
Scope(c, streams, users) ==
  LET u == UserOf[c]
      partners == {v \in Users : OwnedIds[v] \cap OwnedIds[u] # {}}
  IN (IF streams = {} THEN OwnedIds[u] ELSE streams \cap OwnedIds[u])
     \cup {u} \cup (users \cap partners)

(* The asynchronous half: addClient, whether or not the peer is still there. *)
AddClient(c, streams, users) ==
  /\ request[c] = "querying"
  /\ request' = [request EXCEPT ![c] = "streaming"]
  /\ clients' = clients \cup {c}
  /\ subscriptions' = [subscriptions EXCEPT ![c] = Scope(c, streams, users)]
  /\ paused' = [paused EXCEPT ![c] = FALSE]
  /\ ipConnectionCounts' = [ipConnectionCounts EXCEPT ![IpOf[c]] = @ + 1]
  /\ userConnectionCounts' = [userConnectionCounts EXCEPT ![UserOf[c]] = @ + 1]
  /\ UNCHANGED <<socket, backlog, shuttingDown, bus, reconnected, overlapped, lateJoiners>>

Monus(a, b) == IF a > b THEN a - b ELSE 0

\* A variant: a client that is already gone is taken off the counts again.
RemoveClientsAgain(S, wait, length) ==
  /\ clients' = clients \ S
  /\ subscriptions' = [c \in Conns |-> IF c \in S THEN {} ELSE subscriptions[c]]
  /\ paused' = [c \in Conns |-> c \notin S /\ wait[c]]
  /\ backlog' = [c \in Conns |-> IF c \in S THEN 0 ELSE length[c]]
  /\ ipConnectionCounts' = [i \in Ips |->
       Monus(ipConnectionCounts[i], Cardinality({c \in S : IpOf[c] = i}))]
  /\ userConnectionCounts' = [u \in Users |->
       Monus(userConnectionCounts[u], Cardinality({c \in S : UserOf[c] = u}))]

(* removeClient for every client of S that is still in the map; each removal
   takes one off a count and never below zero.  The client object goes with it:
   `wait` and `length` are what the remaining clients' paused and backlog become. *)
RemoveClients(S, wait, length) ==
  LET gone == S \cap clients IN
  /\ clients' = clients \ gone
  /\ subscriptions' = [c \in Conns |-> IF c \in gone THEN {} ELSE subscriptions[c]]
  /\ paused' = [c \in Conns |-> c \notin gone /\ wait[c]]
  /\ backlog' = [c \in Conns |-> IF c \in gone THEN 0 ELSE length[c]]
  /\ ipConnectionCounts' = [i \in Ips |->
       Monus(ipConnectionCounts[i], Cardinality({c \in gone : IpOf[c] = i}))]
  /\ userConnectionCounts' = [u \in Users |->
       Monus(userConnectionCounts[u], Cardinality({c \in gone : UserOf[c] = u}))]

(* writeToClient for every client of `targets`.  A paused client is written
   nothing.  A write may leave the buffer longer; a response that is over may
   throw or only answer false.  Whoever is over the limit, or throws, is removed. *)
WriteTo(targets) ==
  \E length \in [targets -> 0..2], throws \in SUBSET targets :
    /\ \A c \in targets :
         /\ length[c] >= backlog[c]
         /\ paused[c] => (length[c] = backlog[c] /\ c \notin throws)
         /\ socket[c] = "open" => c \notin throws
         /\ socket[c] = "closed" => length[c] = backlog[c]
    /\ RemoveClients({c \in targets : length[c] = 2 \/ c \in throws},
                     [c \in Conns |-> paused[c] \/ (c \in targets /\ (length[c] > 0 \/ socket[c] = "closed"))],
                     [c \in Conns |-> IF c \in targets THEN length[c] ELSE backlog[c]])

SendHeartbeat ==
  /\ clients # {}
  /\ WriteTo(clients)
  /\ UNCHANGED <<request, socket, shuttingDown, bus, reconnected, overlapped, lateJoiners>>

LocalBroadcast(topic) == WriteTo({c \in clients : topic \in subscriptions[c]})

(* broadcastToStream and broadcastToUser while Redis is not connected. *)
Broadcast(topic) ==
  /\ \E c \in clients : topic \in subscriptions[c]
  /\ LocalBroadcast(topic)
  /\ UNCHANGED <<request, socket, shuttingDown, bus, reconnected, overlapped, lateJoiners>>

(* The same through Redis: published here, delivered to this instance by its own
   subscription, or lost with the connection. *)
Publish(topic) ==
  /\ topic \notin bus /\ Cardinality(bus) < MaxBus
  /\ bus' = bus \cup {topic}
  /\ UNCHANGED <<request, socket, clients, subscriptions, paused, backlog, ipConnectionCounts,
                 userConnectionCounts, shuttingDown, reconnected, overlapped, lateJoiners>>

OnPmessage(topic) ==
  /\ topic \in bus
  /\ bus' = bus \ {topic}
  /\ \/ LocalBroadcast(topic)
     \/ UNCHANGED <<clients, subscriptions, paused, backlog, ipConnectionCounts, userConnectionCounts>>
  /\ UNCHANGED <<request, socket, shuttingDown, reconnected, overlapped, lateJoiners>>

(* The peer reads what was buffered: the drain event unpauses the client. *)
Drain(c) ==
  /\ c \in clients /\ socket[c] = "open" /\ backlog[c] > 0
  /\ backlog' = [backlog EXCEPT ![c] = 0]
  /\ paused' = [paused EXCEPT ![c] = FALSE]
  /\ UNCHANGED <<request, socket, clients, subscriptions, ipConnectionCounts, userConnectionCounts,
                 shuttingDown, bus, reconnected, overlapped, lateJoiners>>

(* The response closes.  The listener that removes the client exists only once
   addClient has run; after another path removed it, the listener finds nothing. *)
Close(c) ==
  /\ socket[c] = "open" /\ request[c] \in {"querying", "streaming"}
  /\ socket' = [socket EXCEPT ![c] = "closed"]
  /\ RemoveClients({c}, paused, backlog)
  /\ UNCHANGED <<request, shuttingDown, bus, reconnected,
                 overlapped, lateJoiners>>

(* Step 1 of the shutdown: every client in the map is sent the reconnect event,
   by a bare write that neither pauses nor drops anybody. *)
SendReconnectToAll ==
  /\ ~shuttingDown
  /\ shuttingDown' = TRUE
  /\ reconnected' = reconnected \cup clients
  /\ lateJoiners' = Querying
  /\ \E length \in [Conns -> 0..2] :
       /\ \A c \in Conns : \/ length[c] = backlog[c]
                           \/ c \in clients /\ socket[c] = "open" /\ length[c] = backlog[c] + 1
       /\ backlog' = length
  /\ UNCHANGED <<request, socket, clients, subscriptions, paused, ipConnectionCounts,
                 userConnectionCounts, bus, overlapped>>

SseNext ==
  \/ \E c \in Conns :
       \/ Subscribe(c) \/ QueryFails(c) \/ Drain(c) \/ Close(c)
       \/ \E streams \in SUBSET SseStreams, users \in SUBSET Users : AddClient(c, streams, users)
  \/ \E topic \in Topics : Broadcast(topic) \/ Publish(topic) \/ OnPmessage(topic)
  \/ SendHeartbeat \/ SendReconnectToAll

SseSpec == SseInit /\ [][SseNext]_sseVars

-----------------------------------------------------------------------------
(* The per-address and per-user counts are exactly the clients in the map,
   whichever of close, slow client and failed write removes a client first
   (removeClient, sse.service.ts:306). *)
SseCountsMatch ==
  /\ \A i \in Ips : ipConnectionCounts[i] = Cardinality({c \in clients : IpOf[c] = i})
  /\ \A u \in Users : userConnectionCounts[u] = Cardinality({c \in clients : UserOf[c] = u})

(* The three caps hold as long as no request passed checkCapacity while another
   was still awaiting its streams: the query between the check and addClient
   (sse.controller.ts:62) is the only way past a cap. *)
SseCapsHold ==
  ~overlapped =>
    /\ Cardinality(clients) <= MaxConnections
    /\ \A i \in Ips : ipConnectionCounts[i] <= MaxPerIp
    /\ \A u \in Users : userConnectionCounts[u] <= MaxPerUser

(* No client in the map holds a buffer over MAX_WRITABLE_BUFFER, except by the
   reconnect event itself, which is written without the check. *)
SseBacklogBounded ==
  \A c \in clients : backlog[c] = 2 => shuttingDown /\ c \in reconnected

(* Once the shutdown began, every client was told to reconnect unless its
   request was already past the shutdown test and awaiting its streams. *)
SseReconnectsAll ==
  shuttingDown => clients \subseteq reconnected \cup lateJoiners

(* The service's accounting survives every order of subscribing, broadcasting,
   leaving and shutting down: counts, caps, backlogs and the last message. *)
SseSound == SseCountsMatch /\ SseCapsHold /\ SseBacklogBounded /\ SseReconnectsAll
=============================================================================
