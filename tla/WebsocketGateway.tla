-------------------------- MODULE WebsocketGateway --------------------------
(***************************************************************************)
(* WebsocketGateway of one instance: its sockets, the map of registered    *)
(* clients, the rooms, the connection gauge and gracefulShutdown.  Every   *)
(* event passes WsJwtGuard, which awaits the verification of the token of  *)
(* the handshake, so a client can be gone when its event's handler runs.   *)
(*                                                                         *)
(* The rooms are socket.io's: a socket that is closed leaves its rooms and *)
(* joins no more.                                                          *)
(***************************************************************************)
EXTENDS Integers, FiniteSets

CONSTANTS
    Clients,    \* sockets; a client that reconnects comes as another socket
    Users,
    NoUser,     \* client.user is undefined
    Rooms,
    Lobby,
    Slots       \* slots for events whose token is being verified

ASSUME LobbyIsARoom == Lobby \in Rooms
ASSUME NoUserIsNoUser == NoUser \notin Users

VARIABLES
    conn,               \* the state of each socket
    owner,              \* the subject of the token in its handshake
    user,               \* client.user
    rooms,              \* the rooms each socket is in
    connectedClients,   \* the Map, as the set of its keys
    connections,        \* the gauge websocket_connections_total
    event,              \* the events in the guard
    late,               \* history: sockets that closed while authenticating
    phase               \* of gracefulShutdown

gatewayVars == <<conn, owner, user, rooms, connectedClients, connections,
                 event, late, phase>>

Idle == [pc |-> "idle"]

(* "emit" stands for the events whose handlers only emit: send-message,    *)
(* typing, and a join-room or leave-room without a room name.              *)
Event == {Idle} \cup [pc : {"guard"}, client : Clients,
                      name : {"authenticate", "emit"}]
                \cup [pc : {"guard"}, client : Clients,
                      name : {"join-room", "leave-room"}, room : Rooms]

GatewayTypeOK ==
    /\ conn \in [Clients -> {"new", "open", "closed"}]
    /\ owner \in [Clients -> Users]
    /\ user \in [Clients -> Users \cup {NoUser}]
    /\ rooms \in [Clients -> SUBSET Rooms]
    /\ connectedClients \subseteq Clients
    /\ connections \in Nat
    /\ event \in [Slots -> Event]
    /\ late \subseteq Clients
    /\ phase \in {"up", "notified", "done"}

GatewayInit ==
    /\ conn = [c \in Clients |-> "new"]
    /\ owner \in [Clients -> Users]
    /\ user = [c \in Clients |-> NoUser]
    /\ rooms = [c \in Clients |-> {}]
    /\ connectedClients = {}
    /\ connections = 0
    /\ event = [s \in Slots |-> Idle]
    /\ late = {}
    /\ phase = "up"

-----------------------------------------------------------------------------
Open == {c \in Clients : conn[c] = "open"}

Authenticating(c) ==
    \E s \in Slots : /\ event[s] # Idle
                     /\ event[s].client = c /\ event[s].name = "authenticate"

HandleConnection(c) ==
    /\ conn[c] = "new"
    /\ conn' = [conn EXCEPT ![c] = "open"]
    /\ connections' = connections + 1
    /\ UNCHANGED <<owner, user, rooms, connectedClients, event, late, phase>>

(* Variant to refute GhostsWereLate: the client is not deleted.            *)
LeaveRegistered(C) == connectedClients

(* connectedClients.delete for each of C. *)
Leave(C) == connectedClients \ C

(* Variant to refute GatewayTypeOK: a disconnection is counted twice.      *)
GaugeWithoutTwice(C) == connections - 2 * Cardinality(C)

(* Variant to refute GaugeCountsOpenSockets: dec for registered ones only. *)
GaugeWithoutRegistered(C) == connections - Cardinality(C \cap connectedClients)

GaugeWithout(C) == connections - Cardinality(C)

(* The sockets of C close, and handleDisconnect runs for each of them. *)
HandleDisconnect(C) ==
    /\ conn' = [c \in Clients |-> IF c \in C THEN "closed" ELSE conn[c]]
    /\ rooms' = [c \in Clients |-> IF c \in C THEN {} ELSE rooms[c]]
    /\ connectedClients' = Leave(C)
    /\ connections' = GaugeWithout(C)
    /\ late' = late \cup {c \in C : Authenticating(c)}
    /\ UNCHANGED <<owner, user, event>>

(* A client goes, or its connection breaks. *)
Disconnect(c) ==
    /\ conn[c] = "open"
    /\ HandleDisconnect({c})
    /\ UNCHANGED phase

(* An event arrives with a token in the handshake: verifyAsync starts.     *)
(* Without a token the guard throws and nothing changes.                   *)
Receive(s, e) ==
    /\ event[s] = Idle
    /\ e # Idle
    /\ conn[e.client] = "open"
    /\ event' = [event EXCEPT ![s] = e]
    /\ UNCHANGED <<conn, owner, user, rooms, connectedClients, connections,
                   late, phase>>

(* The token is expired or invalid. *)
Refuse(s) ==
    /\ event[s] # Idle
    /\ event' = [event EXCEPT ![s] = Idle]
    /\ UNCHANGED <<conn, owner, user, rooms, connectedClients, connections,
                   late, phase>>

(* The token is valid: the guard attaches the user and the handler runs.   *)
Accept(s, name) ==
    /\ event[s] # Idle
    /\ event[s].name = name
    /\ user' = [user EXCEPT ![event[s].client] = owner[event[s].client]]
    /\ event' = [event EXCEPT ![s] = Idle]

Join(c, room) ==
    rooms' = IF conn[c] = "open" THEN [rooms EXCEPT ![c] = @ \cup {room}]
                                 ELSE rooms

HandleAuthenticate(s) ==
    /\ Accept(s, "authenticate")
    /\ connectedClients' = connectedClients \cup {event[s].client}
    /\ Join(event[s].client, Lobby)
    /\ UNCHANGED <<conn, owner, connections, late, phase>>

HandleJoinRoom(s) ==
    /\ Accept(s, "join-room")
    /\ Join(event[s].client, event[s].room)
    /\ UNCHANGED <<conn, owner, connectedClients, connections, late, phase>>

HandleLeaveRoom(s) ==
    /\ Accept(s, "leave-room")
    /\ rooms' = [rooms EXCEPT ![event[s].client] = @ \ {event[s].room}]
    /\ UNCHANGED <<conn, owner, connectedClients, connections, late, phase>>

HandleEmit(s) ==
    /\ Accept(s, "emit")
    /\ UNCHANGED <<conn, owner, rooms, connectedClients, connections, late,
                   phase>>

(* gracefulShutdown, up to its wait of one second ... *)
NotifyShutdown ==
    /\ phase = "up"
    /\ phase' = "notified"
    /\ UNCHANGED <<conn, owner, user, rooms, connectedClients, connections,
                   event, late>>

(* ... and after it: disconnect every registered client. *)
DisconnectAll ==
    /\ phase = "notified"
    /\ phase' = "done"
    /\ HandleDisconnect(connectedClients \cap Open)

GatewayNext ==
    \/ \E c \in Clients : HandleConnection(c) \/ Disconnect(c)
    \/ \E s \in Slots : \/ \E e \in Event : Receive(s, e)
                        \/ Refuse(s) \/ HandleAuthenticate(s)
                        \/ HandleJoinRoom(s) \/ HandleLeaveRoom(s)
                        \/ HandleEmit(s)
    \/ NotifyShutdown
    \/ DisconnectAll

GatewaySpec == GatewayInit /\ [][GatewayNext]_gatewayVars

-----------------------------------------------------------------------------
(* The gauge on the dashboards is the number of open sockets, whatever the *)
(* order of connections, authentications and disconnections.               *)
GaugeCountsOpenSockets == connections = Cardinality(Open)

(* The only closed sockets still registered are those that closed while    *)
(* the guard was verifying the token of an authenticate of theirs.         *)
GhostsWereLate ==
    \A c \in connectedClients : conn[c] = "open" \/ c \in late
=============================================================================
