-------------------------- MODULE LifecycleProofs ---------------------------
(***************************************************************************)
(* The end of an instance, and the sockets it lives for.                   *)
(*                                                                         *)
(* Shutdown: for all timeouts, with or without a gateway, a scheduler and  *)
(* a cache, and for any amount of work in progress, exit code 0 is given   *)
(* in the order the sequence promises, or for a timeout that is too short. *)
(*                                                                         *)
(* WebsocketGateway: for any number of sockets, rooms and events in the    *)
(* guard, the gauge is right, and registrations of closed sockets have one *)
(* cause.                                                                  *)
(***************************************************************************)
EXTENDS Shutdown, WebsocketGateway, FiniteSetTheorems, TLAPS

(* Type correctness of both coroutines and of what they close.             *)
THEOREM TypeCorrect == Spec => []TypeOK
<1>1. Init => TypeOK
  BY Timeouts, WorkBound DEF Init, TypeOK, Destroyed
<1>2. TypeOK /\ [Next]_vars => TypeOK'
  <2> SUFFICES ASSUME TypeOK, [Next]_vars PROVE TypeOK'
    OBVIOUS
  <2>0. setup' = setup
    BY DEF Next, vars
  <2> USE <2>0, Timeouts, WorkBound DEF TypeOK, resources, nest, work
  <2>1. CASE Signal \/ CloseWebSockets \/ CloseCacheConnections \/ ForceExit
    BY <2>1 DEF Signal, CloseWebSockets, CloseCacheConnections, ForceExit
  <2>2. CASE Tick
    BY <2>2 DEF Tick, SocketsAt
  <2>3. ASSUME NEW m \in Destroyed, BeginDestroy(m) PROVE TypeOK'
    BY <2>3 DEF BeginDestroy
  <2>4. CASE CloseQueue \/ QueueDestroyed \/ CloseQueueFails
    BY <2>4 DEF CloseQueue, QueueDestroyed, CloseQueueFails
  <2>5. CASE PrismaDestroyed \/ PrismaDestroyThrows \/ CacheDestroyed
    BY <2>5 DEF PrismaDestroyed, PrismaDestroyThrows, CacheDestroyed
  <2>6. CASE BeginClose \/ EndClose
    BY <2>6 DEF BeginClose, EndClose
  <2>7. CASE StartWork
    BY <2>7 DEF StartWork
  <2>8. CASE EndWork
    BY <2>8 DEF EndWork
  <2>9. CASE UNCHANGED vars
    BY <2>9 DEF vars
  <2> QED BY <2>1, <2>2, <2>3, <2>4, <2>5, <2>6, <2>7, <2>8, <2>9 DEF Next
<1> QED BY <1>1, <1>2, PTL DEF Spec

-----------------------------------------------------------------------------
(* Exit code 0 says nothing of the race that came before it.  By the end   *)
(* of the notice gracefulShutdown has come to its own end, so a race that  *)
(* may end by its timeout, when that is no shorter, has been waited for;   *)
(* and what the sequence has passed stays as it left it.                   *)
Orderly ==
    /\ svc = "idle" => elapsed = 0
    /\ svc # "idle" /\ Has("gateway") /\ elapsed >= NotifyWait
          => sockets # "open"
    /\ svc \in {"cache", "done"} =>
          /\ \/ sockets # "open"
             \/ ~Has("gateway")
             \/ setup.closeTimeout < NotifyWait
          /\ cron \in {"off", "failed"} \/ ~Has("scheduler")
    /\ exit = "0" => svc = "done"

LEMMA OrderlyStep ==
    ASSUME TypeOK, Orderly, [Next]_vars
    PROVE  Orderly'
<1>0. setup' = setup /\ setup.closeTimeout \in Nat /\ NotifyWait \in Nat \ {0}
  BY Timeouts, WaitIsPositive DEF Next, vars, TypeOK, Setup
<1> USE <1>0, Timeouts
    DEF TypeOK, Orderly, Running, Has, resources, nest, work
<1>1. CASE Signal
  BY <1>1 DEF Signal
<1>2. CASE Tick
  BY <1>2 DEF Tick, SocketsAt
<1>3. CASE CloseWebSockets
  BY <1>3 DEF CloseWebSockets, SocketsRace
<1>4. CASE CloseCacheConnections \/ ForceExit \/ PrismaDestroyThrows
  BY <1>4 DEF CloseCacheConnections, ForceExit, PrismaDestroyThrows
<1>5. CASE UNCHANGED <<svc, elapsed, exit, sockets, cron>>
  BY <1>5
<1>6. ASSUME NEW m \in Destroyed, BeginDestroy(m)
      PROVE  UNCHANGED <<svc, elapsed, exit, sockets, cron>>
  BY <1>6 DEF BeginDestroy
<1> QED
  BY <1>1, <1>2, <1>3, <1>4, <1>5, <1>6
     DEF Next, vars, CloseQueue, QueueDestroyed, CloseQueueFails,
         PrismaDestroyed, CacheDestroyed, BeginClose, EndClose, StartWork, EndWork

(* A clean exit comes after gracefulShutdown's end and the stop of the     *)
(* cron jobs, or has no gateway or scheduler, or too short a timeout,      *)
(* whatever Nest's hooks do meanwhile.                                     *)
THEOREM CleanExit == Spec => []ExitZeroIsOrderly
<1>1. Init => Orderly
  BY Timeouts, WaitIsPositive DEF Init, Orderly
<1>2. TypeOK /\ Orderly /\ [Next]_vars => Orderly'
  BY OrderlyStep
<1>3. TypeOK /\ Orderly => ExitZeroIsOrderly
  BY DEF TypeOK, Orderly, ExitZeroIsOrderly
<1> QED BY <1>1, <1>2, <1>3, TypeCorrect, PTL DEF Spec

-----------------------------------------------------------------------------
(* Only finitely many sockets are open at a time, however many may come.   *)
GaugeInv == IsFiniteSet(Open) /\ GaugeCountsOpenSockets

(* What the closing of a set of sockets does to the gauge.                 *)
LEMMA GaugeAfterDisconnect ==
    ASSUME GatewayTypeOK, GaugeInv, NEW C \in SUBSET Open, HandleDisconnect(C)
    PROVE  GaugeInv' /\ connections' \in Nat
<1>1. Open' = Open \ C
  BY DEF HandleDisconnect, Open, GatewayTypeOK
<1>2. /\ IsFiniteSet(Open \ C)
      /\ Cardinality(Open \ C) = Cardinality(Open) - Cardinality(Open \cap C)
  BY FS_Difference DEF GaugeInv
<1>3. Open \cap C = C
  OBVIOUS
<1>4. connections' = Cardinality(Open')
  BY <1>1, <1>2, <1>3
     DEF HandleDisconnect, GaugeWithout, GaugeInv, GaugeCountsOpenSockets
<1>5. Cardinality(Open') \in Nat
  BY <1>1, <1>2, FS_CardinalityType
<1> QED BY <1>1, <1>2, <1>4, <1>5 DEF GaugeInv, GaugeCountsOpenSockets

LEMMA GaugeStep ==
    ASSUME GatewayTypeOK, GaugeInv, [GatewayNext]_gatewayVars
    PROVE  GaugeInv' /\ connections' \in Nat
<1>1. ASSUME NEW c \in Clients, HandleConnection(c)
      PROVE  GaugeInv' /\ connections' \in Nat
  <2>1. Open' = Open \cup {c} /\ c \notin Open
    BY <1>1 DEF HandleConnection, Open, GatewayTypeOK
  <2>2. IsFiniteSet(Open') /\ Cardinality(Open') = Cardinality(Open) + 1
    BY <2>1, FS_AddElement DEF GaugeInv
  <2> QED
    BY <1>1, <2>2
       DEF HandleConnection, GaugeInv, GaugeCountsOpenSockets, GatewayTypeOK
<1>2. ASSUME NEW c \in Clients, Disconnect(c)
      PROVE  GaugeInv' /\ connections' \in Nat
  <2>1. {c} \in SUBSET Open
    BY <1>2 DEF Disconnect, Open
  <2> QED BY <1>2, <2>1, GaugeAfterDisconnect DEF Disconnect
<1>3. CASE DisconnectAll
  BY <1>3, GaugeAfterDisconnect DEF DisconnectAll
<1>4. CASE UNCHANGED <<conn, connections>>
  BY <1>4 DEF GaugeInv, GaugeCountsOpenSockets, Open, GatewayTypeOK
<1>5. ASSUME NEW s \in Slots, NEW e \in Event, Receive(s, e)
      PROVE  UNCHANGED <<conn, connections>>
  BY <1>5 DEF Receive
<1>6. ASSUME NEW s \in Slots,
             \/ Refuse(s) \/ HandleAuthenticate(s) \/ HandleJoinRoom(s)
             \/ HandleLeaveRoom(s) \/ HandleEmit(s)
      PROVE  UNCHANGED <<conn, connections>>
  BY <1>6 DEF Refuse, HandleAuthenticate, HandleJoinRoom, HandleLeaveRoom,
              HandleEmit
<1>7. CASE NotifyShutdown \/ UNCHANGED gatewayVars
  BY <1>4, <1>7 DEF NotifyShutdown, gatewayVars
<1> QED BY <1>1, <1>2, <1>3, <1>4, <1>5, <1>6, <1>7 DEF GatewayNext

(* An event in the guard knows its socket, its name and its room.          *)
LEMMA EventShape ==
    ASSUME GatewayTypeOK, NEW s \in Slots, event[s] # Idle
    PROVE  /\ event[s].client \in Clients
           /\ event[s].name \in {"join-room", "leave-room"} =>
                 event[s].room \in Rooms
<1>1. event[s] \in Event
  BY DEF GatewayTypeOK
<1> QED BY <1>1 DEF Event, Idle

LEMMA JoinType ==
    ASSUME GatewayTypeOK, NEW c \in Clients, NEW room \in Rooms, Join(c, room)
    PROVE  rooms' \in [Clients -> SUBSET Rooms]
  BY DEF Join, GatewayTypeOK

LEMMA AcceptType ==
    ASSUME GatewayTypeOK, NEW s \in Slots, NEW name, Accept(s, name)
    PROVE  /\ user' \in [Clients -> Users \cup {NoUser}]
           /\ event' \in [Slots -> Event]
  BY EventShape DEF Accept, GatewayTypeOK, Event

LEMMA DisconnectType ==
    ASSUME GatewayTypeOK, NEW C \in SUBSET Clients, HandleDisconnect(C)
    PROVE  /\ conn' \in [Clients -> {"new", "open", "closed"}]
           /\ rooms' \in [Clients -> SUBSET Rooms]
           /\ connectedClients' \subseteq Clients /\ late' \subseteq Clients
           /\ UNCHANGED <<owner, user, event>>
  BY DEF HandleDisconnect, Leave, GatewayTypeOK

LEMMA GatewayTypeStep ==
    ASSUME GatewayTypeOK, GaugeInv, [GatewayNext]_gatewayVars
    PROVE  GatewayTypeOK'
<1>1. connections' \in Nat
  BY GaugeStep
<1> USE <1>1 DEF GatewayTypeOK
<1>2. ASSUME NEW c \in Clients, HandleConnection(c) PROVE GatewayTypeOK'
  BY <1>2 DEF HandleConnection
<1>3. ASSUME NEW c \in Clients, Disconnect(c) PROVE GatewayTypeOK'
  BY <1>3, DisconnectType DEF Disconnect
<1>4. ASSUME NEW s \in Slots, NEW e \in Event, Receive(s, e)
      PROVE  GatewayTypeOK'
  BY <1>4 DEF Receive
<1>5. ASSUME NEW s \in Slots, Refuse(s) PROVE GatewayTypeOK'
  BY <1>5 DEF Refuse, Event
<1>6. ASSUME NEW s \in Slots, HandleAuthenticate(s) PROVE GatewayTypeOK'
  <2>1. event[s].client \in Clients
    BY <1>6, EventShape DEF HandleAuthenticate, Accept
  <2>2. rooms' \in [Clients -> SUBSET Rooms]
    BY <1>6, <2>1, JoinType, LobbyIsARoom DEF HandleAuthenticate
  <2>3. /\ user' \in [Clients -> Users \cup {NoUser}]
        /\ event' \in [Slots -> Event]
    BY <1>6, AcceptType DEF HandleAuthenticate
  <2> QED BY <1>6, <2>1, <2>2, <2>3 DEF HandleAuthenticate
<1>7. ASSUME NEW s \in Slots, HandleJoinRoom(s) PROVE GatewayTypeOK'
  <2>1. event[s].client \in Clients /\ event[s].room \in Rooms
    BY <1>7, EventShape DEF HandleJoinRoom, Accept
  <2>2. rooms' \in [Clients -> SUBSET Rooms]
    BY <1>7, <2>1, JoinType DEF HandleJoinRoom
  <2>3. /\ user' \in [Clients -> Users \cup {NoUser}]
        /\ event' \in [Slots -> Event]
    BY <1>7, AcceptType DEF HandleJoinRoom
  <2> QED BY <1>7, <2>2, <2>3 DEF HandleJoinRoom
<1>8. ASSUME NEW s \in Slots, HandleLeaveRoom(s) PROVE GatewayTypeOK'
  <2>1. /\ user' \in [Clients -> Users \cup {NoUser}]
        /\ event' \in [Slots -> Event]
    BY <1>8, AcceptType DEF HandleLeaveRoom
  <2> QED BY <1>8, <2>1 DEF HandleLeaveRoom
<1>9. ASSUME NEW s \in Slots, HandleEmit(s) PROVE GatewayTypeOK'
  BY <1>9, AcceptType DEF HandleEmit
<1>10. CASE NotifyShutdown
  BY <1>10 DEF NotifyShutdown
<1>11. CASE DisconnectAll
  <2>1. connectedClients \cap Open \in SUBSET Clients
    BY DEF Open
  <2> QED BY <1>11, <2>1, DisconnectType DEF DisconnectAll
<1>12. CASE UNCHANGED gatewayVars
  BY <1>12 DEF gatewayVars
<1> QED
  BY <1>2, <1>3, <1>4, <1>5, <1>6, <1>7, <1>8, <1>9, <1>10, <1>11, <1>12
     DEF GatewayNext

LEMMA GatewayInvariant == GatewaySpec => [](GatewayTypeOK /\ GaugeInv)
<1>1. GatewayInit => GatewayTypeOK /\ GaugeInv
  <2> SUFFICES ASSUME GatewayInit PROVE GatewayTypeOK /\ GaugeInv
    OBVIOUS
  <2>1. GatewayTypeOK
    BY DEF GatewayInit, GatewayTypeOK, Event
  <2>2. Open = {}
    BY DEF GatewayInit, Open
  <2> QED
    BY <2>1, <2>2, FS_EmptySet DEF GatewayInit, GaugeInv, GaugeCountsOpenSockets
<1>2. GatewayTypeOK /\ GaugeInv /\ [GatewayNext]_gatewayVars
         => GatewayTypeOK' /\ GaugeInv'
  BY GaugeStep, GatewayTypeStep
<1> QED BY <1>1, <1>2, PTL DEF GatewaySpec

(* Type correctness of the gateway; the gauge does not go below zero, for  *)
(* which it must be known to count the sockets that are open.              *)
THEOREM GatewayTypeCorrect == GatewaySpec => []GatewayTypeOK
  BY GatewayInvariant, PTL

(* The gauge is right, however many sockets come and go, and in whatever   *)
(* order they authenticate and disconnect.                                 *)
THEOREM GaugeIsRight == GatewaySpec => []GaugeCountsOpenSockets
<1>1. GaugeInv => GaugeCountsOpenSockets
  BY DEF GaugeInv
<1> QED BY <1>1, GatewayInvariant, PTL

-----------------------------------------------------------------------------
(* How a ghost comes about: an event in the guard came in on an open       *)
(* socket, and if that has closed since, an authenticate made it late.     *)
EventsHaveSockets ==
    \A s \in Slots : event[s] # Idle =>
        /\ conn[event[s].client] # "new"
        /\ event[s].name = "authenticate" =>
              conn[event[s].client] = "open" \/ event[s].client \in late

GhostInv == EventsHaveSockets /\ GhostsWereLate

LEMMA GhostsAfterDisconnect ==
    ASSUME GatewayTypeOK, GhostInv, NEW C \in SUBSET Clients,
           HandleDisconnect(C)
    PROVE  GhostInv'
<1>1. /\ event' = event /\ connectedClients' \subseteq connectedClients \ C
      /\ \A c \in C : conn'[c] = "closed"
      /\ \A c \in Clients \ C : conn'[c] = conn[c]
      /\ late \subseteq late'
      /\ \A c \in C : Authenticating(c) => c \in late'
  BY DEF HandleDisconnect, Leave
<1>2. EventsHaveSockets'
  <2> SUFFICES ASSUME NEW s \in Slots, event[s] # Idle
               PROVE  /\ conn'[event[s].client] # "new"
                      /\ event[s].name = "authenticate" =>
                            \/ conn'[event[s].client] = "open"
                            \/ event[s].client \in late'
    BY <1>1 DEF EventsHaveSockets
  <2>1. event[s].client \in Clients
    BY EventShape
  <2>2. event[s].name = "authenticate" => Authenticating(event[s].client)
    BY DEF Authenticating
  <2> QED BY <1>1, <2>1, <2>2 DEF GhostInv, EventsHaveSockets
<1>3. GhostsWereLate'
  BY <1>1 DEF GhostInv, GhostsWereLate, GatewayTypeOK
<1> QED BY <1>2, <1>3 DEF GhostInv

LEMMA GhostStep ==
    ASSUME GatewayTypeOK, GhostInv, [GatewayNext]_gatewayVars
    PROVE  GhostInv'
<1> USE DEF GhostInv, EventsHaveSockets, GhostsWereLate, GatewayTypeOK
<1>1. ASSUME NEW c \in Clients, HandleConnection(c) PROVE GhostInv'
  <2>1. /\ UNCHANGED <<event, connectedClients, late>>
        /\ conn[c] = "new" /\ conn'[c] = "open"
        /\ \A d \in Clients \ {c} : conn'[d] = conn[d]
    BY <1>1 DEF HandleConnection
  <2>2. \A s \in Slots : event[s] # Idle => event[s].client \in Clients
    BY EventShape
  <2> QED BY <2>1, <2>2
<1>2. ASSUME NEW c \in Clients, Disconnect(c) PROVE GhostInv'
  BY <1>2, GhostsAfterDisconnect DEF Disconnect
<1>3. CASE DisconnectAll
  <2>1. connectedClients \cap Open \in SUBSET Clients
    BY DEF Open
  <2> QED BY <1>3, <2>1, GhostsAfterDisconnect DEF DisconnectAll
<1>4. ASSUME NEW s \in Slots, NEW e \in Event, Receive(s, e) PROVE GhostInv'
  BY <1>4 DEF Receive
<1>5. ASSUME NEW s \in Slots, event' = [event EXCEPT ![s] = Idle],
             UNCHANGED <<conn, connectedClients, late>>
      PROVE  GhostInv'
  BY <1>5
<1>6. ASSUME NEW s \in Slots, HandleAuthenticate(s) PROVE GhostInv'
  <2>1. /\ event[s] # Idle /\ event[s].name = "authenticate"
        /\ event' = [event EXCEPT ![s] = Idle]
        /\ connectedClients' = connectedClients \cup {event[s].client}
        /\ UNCHANGED <<conn, late>>
    BY <1>6 DEF HandleAuthenticate, Accept
  <2> QED BY <2>1
<1>7. ASSUME NEW s \in Slots,
             \/ Refuse(s) \/ HandleJoinRoom(s) \/ HandleLeaveRoom(s)
             \/ HandleEmit(s)
      PROVE  GhostInv'
  BY <1>5, <1>7
     DEF Refuse, HandleJoinRoom, HandleLeaveRoom, HandleEmit, Accept
<1>8. CASE NotifyShutdown \/ UNCHANGED gatewayVars
  BY <1>8 DEF NotifyShutdown, gatewayVars
<1> QED BY <1>1, <1>2, <1>3, <1>4, <1>6, <1>7, <1>8 DEF GatewayNext

(* A closed socket is registered only when it closed while the guard was   *)
(* verifying the token of an authenticate of its own.                      *)
THEOREM GhostsHaveOneCause == GatewaySpec => []GhostsWereLate
<1>1. GatewayInit => GhostInv
  BY DEF GatewayInit, GhostInv, EventsHaveSockets, GhostsWereLate
<1>2. GatewayTypeOK /\ GhostInv /\ [GatewayNext]_gatewayVars => GhostInv'
  BY GhostStep
<1>3. GhostInv => GhostsWereLate
  BY DEF GhostInv
<1> QED BY <1>1, <1>2, <1>3, GatewayTypeCorrect, PTL DEF GatewaySpec
=============================================================================
