------------------------------ MODULE RoomLobby ------------------------------
(***************************************************************************)
(* Rooms around a match: who is in them, who hosts, and the three indices  *)
(* RoomManager keeps beside them (server/src/socket/lobbyHandlers,         *)
(* registerHandlers, rooms/RoomManager, rooms/Room).                       *)
(*                                                                         *)
(* A handler is one action, except that room:create and room:join of a     *)
(* socket with an account check first, await the database, and add the     *)
(* player when it answers: the request waits in `requests` in between, and *)
(* anything may happen.  Guests are served at once.                        *)
(*                                                                         *)
(* The play itself is module GameRoom's.  Here a game is the set of those  *)
(* dealt in, from which reveals and departures take players until one is   *)
(* left; a game is one set.  Player ids count up, so the order of ids is   *)
(* the insertion order of the Map of players.  A room code is never drawn  *)
(* twice.  Time is not modelled: a countdown of seconds ends before a      *)
(* disconnect timer of minutes, nothing else is assumed.                   *)
(***************************************************************************)
EXTENDS Integers, FiniteSets, Functions

CONSTANTS
    Sockets,         \* connections; a client that reconnects has a new one
    Accounts,        \* the sockets of logged-in users
    MaxRooms,        \* rooms ever created
    MaxIds,          \* players and bots ever seated
    SeatChoices,     \* limits on players a host may set
    MaxRequests,     \* joins and creations waiting for the database
    MaxDoubled,      \* sockets that join though they are in a room
    NoRoom,
    NoSocket

ASSUME LobbyAssumption ==
    /\ Accounts \subseteq Sockets
    /\ {MaxRooms, MaxIds, MaxRequests} \subseteq Nat \ {0}
    /\ MaxDoubled \in Nat
    /\ SeatChoices \subseteq Nat \ {0, 1} /\ SeatChoices # {} /\ IsFiniteSet(SeatChoices)
    /\ NoSocket \notin Sockets /\ NoRoom \notin 1 .. MaxRooms

VARIABLES
    room,            \* the rooms, by code
    created,         \* how many codes were drawn
    rooms,           \* the codes that are registered
    socketToRoom,
    roomToSockets,
    playerToRoom,
    sockets,         \* the sockets that are connected
    requests,        \* what waits for the database: [socket, room], NoRoom to create one
    ids,             \* how many players and bots were ever seated
    doubled,         \* history: sockets seated while they were in a room already,
    ghosts,          \* players seated for a socket that was gone,
    unmapped         \* and players taken for gone, by a kick or as a bot, who are still there

vars == <<room, created, rooms, socketToRoom, roomToSockets, playerToRoom, sockets, requests,
          ids, doubled, ghosts, unmapped>>

RoomCodes == 1 .. MaxRooms
Players == 1 .. MaxIds
NoPlayer == 0
LobbyPhases == {"LOBBY", "PLAYING", "GAME_OVER"}

RoomRecords ==
    [players : SUBSET Players, bots : SUBSET Players, connected : SUBSET Players,
     tokens : SUBSET Players, timers : SUBSET Players, dealt : SUBSET Players,
     eliminated : SUBSET Players, hostId : Players \cup {NoPlayer},
     playerToSocket : [Players -> Sockets \cup {NoSocket}],
     socketToPlayer : [Sockets -> Players \cup {NoPlayer}],
     spectators : SUBSET Sockets, gamePhase : LobbyPhases, maxPlayers : SeatChoices,
     countdown : BOOLEAN, leftInCountdown : BOOLEAN]

MostSeats == CHOOSE n \in SeatChoices : \A k \in SeatChoices : k <= n

\* Room's constructor.  The settings a new room has are the largest choice.
EmptyRoom ==
    [players |-> {}, bots |-> {}, connected |-> {}, tokens |-> {}, timers |-> {}, dealt |-> {},
     eliminated |-> {}, hostId |-> NoPlayer,
     playerToSocket |-> [p \in Players |-> NoSocket],
     socketToPlayer |-> [s \in Sockets |-> NoPlayer],
     spectators |-> {}, gamePhase |-> "LOBBY",
     maxPlayers |-> MostSeats,
     countdown |-> FALSE, leftInCountdown |-> FALSE]

Oldest(S) == CHOOSE p \in S : \A q \in S : p <= q

-----------------------------------------------------------------------------
(* What the methods of Room do to a room r.                                *)

Humans(r) == r.players \ r.bots
Away(r) == Humans(r) \ r.connected
Active(r) == r.dealt \ r.eliminated
IsEmpty(r) == Humans(r) \subseteq Away(r) \ r.timers

AddPlayer(r, p, s) ==
    [r EXCEPT !.players = @ \cup {p}, !.connected = @ \cup {p}, !.tokens = @ \cup {p},
              !.hostId = IF r.players = {} THEN p ELSE @,
              !.playerToSocket[p] = s, !.socketToPlayer[s] = p]

\* Mutant: the new host is chosen before the old one is taken off the list.
RemovePlayerTooLate(r, s) ==
    LET p == r.socketToPlayer[s]
        rest == r.players \ {p}
    IN  IF p = NoPlayer THEN r ELSE
        [r EXCEPT !.players = rest, !.connected = @ \ {p}, !.tokens = @ \ {p},
                  !.playerToSocket[p] = NoSocket, !.socketToPlayer[s] = NoPlayer,
                  !.hostId = IF p = @ /\ rest # {} THEN Oldest(r.players) ELSE @,
                  !.leftInCountdown = @ \/ r.countdown]

RemovePlayer(r, s) ==
    LET p == r.socketToPlayer[s]
        rest == r.players \ {p}
    IN  IF p = NoPlayer THEN r ELSE
        [r EXCEPT !.players = rest, !.connected = @ \ {p}, !.tokens = @ \ {p},
                  !.playerToSocket[p] = NoSocket, !.socketToPlayer[s] = NoPlayer,
                  !.hostId = IF p = @ /\ rest # {} THEN Oldest(rest) ELSE @,
                  !.leftInCountdown = @ \/ r.countdown]

DetachPlayer(r, s) ==
    LET p == r.socketToPlayer[s]
        heirs == ((Humans(r) \cap r.connected) \ r.eliminated) \ {p}
    IN  [r EXCEPT !.connected = @ \ {p}, !.tokens = @ \ {p}, !.timers = @ \ {p},
                  !.playerToSocket[p] = NoSocket, !.socketToPlayer[s] = NoPlayer,
                  !.hostId = IF p = @ /\ heirs # {} THEN Oldest(heirs) ELSE @]

\* removeBot: it removes nobody else.
WithoutBot(r, b) ==
    IF b \notin r.bots THEN r
    ELSE [r EXCEPT !.players = @ \ {b}, !.bots = @ \ {b},
                   !.leftInCountdown = @ \/ r.countdown]

\* Mutant: the countdown is not told apart from the lobby.
RemoveOnDisconnect(r, s) ==
    LET p == r.socketToPlayer[s]
        removed == [RemovePlayer(r, s) EXCEPT !.leftInCountdown = r.leftInCountdown]
    IN  IF p \notin r.players THEN r
        ELSE IF r.gamePhase = "LOBBY" THEN removed
        ELSE [r EXCEPT !.connected = @ \ {p}, !.timers = @ \cup {p},
                       !.playerToSocket[p] = NoSocket, !.socketToPlayer[s] = NoPlayer]

\* Mutant: a timer only for those who go while the game is played.
TimeOnlyInGame(r, s) ==
    LET p == r.socketToPlayer[s]
        gone == [r EXCEPT !.connected = @ \ {p},
                          !.playerToSocket[p] = NoSocket, !.socketToPlayer[s] = NoPlayer]
    IN  IF p \notin r.players THEN r
        ELSE IF r.gamePhase = "LOBBY" /\ ~r.countdown THEN RemovePlayer(r, s)
        ELSE IF r.gamePhase = "LOBBY" THEN gone
        ELSE [gone EXCEPT !.timers = @ \cup {p}]

HandleDisconnect(r, s) ==
    LET p == r.socketToPlayer[s]
    IN  IF p \notin r.players THEN r
        ELSE IF r.gamePhase = "LOBBY" /\ ~r.countdown THEN RemovePlayer(r, s)
        ELSE [r EXCEPT !.connected = @ \ {p}, !.timers = @ \cup {p},
                       !.playerToSocket[p] = NoSocket, !.socketToPlayer[s] = NoPlayer]

\* Mutant: the timer of the absence is left running.
ReseatLeavingTimer(r, p, s) ==
    LET old == r.playerToSocket[p]
        vacated == [t \in Sockets |-> IF t = old THEN NoPlayer ELSE r.socketToPlayer[t]]
    IN  [r EXCEPT !.connected = @ \cup {p}, !.playerToSocket[p] = s,
                  !.socketToPlayer = [vacated EXCEPT ![s] = p]]

\* handleReconnect, and handleStaleSocketReconnect and handleSessionTransfer,
\* which also take the player from the socket it had.
Reseat(r, p, s) ==
    LET old == r.playerToSocket[p]
        vacated == [t \in Sockets |-> IF t = old THEN NoPlayer ELSE r.socketToPlayer[t]]
    IN  [r EXCEPT !.connected = @ \cup {p}, !.timers = @ \ {p}, !.playerToSocket[p] = s,
                  !.socketToPlayer = [vacated EXCEPT ![s] = p]]

\* eliminatePlayer in the engine, and what a game that is over leads to.
Eliminate(r, p) ==
    LET out == r.eliminated \cup (r.dealt \cap {p})
    IN  [r EXCEPT !.eliminated = out,
                  !.gamePhase = IF @ = "PLAYING" /\ Cardinality(r.dealt \ out) <= 1
                                  THEN "GAME_OVER" ELSE @]

\* The limit on players is asked for in the lobby only, and forgotten here.
StartGame(r) ==
    [r EXCEPT !.gamePhase = "PLAYING", !.dealt = r.players \ r.eliminated,
              !.countdown = FALSE, !.leftInCountdown = FALSE, !.maxPlayers = MostSeats]

ResetForRematch(r) ==
    LET stay == r.players \ Away(r)
        heirs == IF stay \subseteq r.bots THEN stay ELSE stay \ r.bots
    IN  StartGame([r EXCEPT !.eliminated = {}, !.players = stay,
                            !.tokens = @ \cap stay, !.timers = @ \cap stay,
                            !.hostId = IF @ \notin stay /\ stay # {} THEN Oldest(heirs) ELSE @])
-----------------------------------------------------------------------------
(* The indices of RoomManager.                                             *)

InRoom(s) == socketToRoom[s] \in rooms
RoomFor(s) == room[socketToRoom[s]]
IsHost(s) == InRoom(s) /\ RoomFor(s).socketToPlayer[s] = RoomFor(s).hostId
               /\ RoomFor(s).hostId # NoPlayer

MapSocket(s, c) ==
    /\ socketToRoom' = [socketToRoom EXCEPT ![s] = c]
    /\ roomToSockets' = [roomToSockets EXCEPT ![c] = @ \cup {s}]

\* The indices without sockets S; handlers remove one socket and may map another.
Unmapped(S) == [t \in Sockets |-> IF t \in S THEN NoRoom ELSE socketToRoom[t]]
\* Mutant: removeSocketMapping leaves the reverse index alone.
ReverseIndexKept(S) == roomToSockets

SocketsWithout(S) ==
    [c \in RoomCodes |-> roomToSockets[c] \ {t \in S \cap Sockets : socketToRoom[t] = c}]
Forget(p) == [playerToRoom EXCEPT ![p] = NoRoom]

\* deleteRoom, when a handler has left the room as r and the indices as given.
\* The room's timers go with it, and nothing can reach what is left of it.
DeleteRoom(c, r, toRoom, toSockets, toRoomOfPlayer) ==
    /\ rooms' = rooms \ {c}
    /\ room' = [room EXCEPT ![c] = EmptyRoom]
    /\ socketToRoom' = [t \in Sockets |-> IF t \in toSockets[c] THEN NoRoom ELSE toRoom[t]]
    /\ roomToSockets' = [toSockets EXCEPT ![c] = {}]
    /\ playerToRoom' = [p \in Players |-> IF p \in r.players THEN NoRoom ELSE toRoomOfPlayer[p]]

\* The end of the handlers in which somebody goes.
KeepUnlessEmpty(c, r, toRoom, toSockets, toRoomOfPlayer) ==
    \/ /\ IsEmpty(r)
       /\ DeleteRoom(c, r, toRoom, toSockets, toRoomOfPlayer)
    \/ /\ ~IsEmpty(r)
       /\ room' = [room EXCEPT ![c] = r]
       /\ socketToRoom' = toRoom /\ roomToSockets' = toSockets
       /\ playerToRoom' = toRoomOfPlayer
       /\ UNCHANGED rooms

unmoved == <<rooms, socketToRoom, roomToSockets, playerToRoom>>
history == <<doubled, ghosts, unmapped>>

Init ==
    /\ room = [c \in RoomCodes |-> EmptyRoom]
    /\ created = 0 /\ rooms = {}
    /\ socketToRoom = [s \in Sockets |-> NoRoom]
    /\ roomToSockets = [c \in RoomCodes |-> {}]
    /\ playerToRoom = [p \in Players |-> NoRoom]
    /\ sockets = Sockets
    /\ requests = {}
    /\ ids = 0
    /\ doubled = {} /\ ghosts = {} /\ unmapped = {}

-----------------------------------------------------------------------------
(* Coming in.                                                              *)

\* addPlayer and what follows it, for the socket s of a request that was let in.
\* The room may have been closed in between: its code is mapped all the same.
Seat(s, c, r) ==
    LET p == ids + 1
    IN  /\ ids < MaxIds
        /\ ids' = p
        /\ room' = [room EXCEPT ![c] = IF c \in rooms' THEN AddPlayer(r, p, s) ELSE @]
        /\ MapSocket(s, c)
        /\ playerToRoom' = [playerToRoom EXCEPT ![p] = c]
        /\ doubled' = IF InRoom(s) THEN doubled \cup {s} ELSE doubled
        /\ ghosts' = IF s \in sockets THEN ghosts ELSE ghosts \cup {p}
        /\ UNCHANGED <<sockets, unmapped>>

SeatInNewRoom(s) ==
    /\ created < MaxRooms
    /\ created' = created + 1 /\ rooms' = rooms \cup {created + 1}
    /\ Seat(s, created + 1, EmptyRoom)

MayCreate(s) == s \in sockets /\ ~InRoom(s)

CreateRoom(s) ==
    /\ s \notin Accounts /\ MayCreate(s)
    /\ SeatInNewRoom(s)
    /\ UNCHANGED requests

\* Unlike room:create, room:join does not ask whether the socket is in a room.
MayJoin(s, c) ==
    /\ s \in sockets
    /\ InRoom(s) => Cardinality(doubled) < MaxDoubled
    /\ c \in rooms
    /\ Cardinality(room[c].players) < room[c].maxPlayers
    /\ room[c].gamePhase = "LOBBY"

JoinRoom(s, c) ==
    /\ s \notin Accounts /\ MayJoin(s, c)
    /\ UNCHANGED <<created, rooms, requests>>
    /\ Seat(s, c, room[c])

Ask(s, c) ==
    /\ s \in Accounts
    /\ Cardinality(requests) < MaxRequests
    /\ IF c = NoRoom THEN MayCreate(s) ELSE MayJoin(s, c)
    /\ requests' = requests \cup {[socket |-> s, room |-> c]}
    /\ UNCHANGED <<room, created, ids, sockets, unmoved, history>>

\* refreshSocketUserData has returned.
Answered(q) ==
    /\ requests' = requests \ {q}
    /\ \/ /\ q.room = NoRoom
          /\ SeatInNewRoom(q.socket)
       \/ /\ q.room # NoRoom
          /\ UNCHANGED <<created, rooms>>
          /\ Seat(q.socket, q.room, room[q.room])

\* The player's client, on another socket that it has just opened: p lost the
\* connection, or his old socket is still taken to be there.
Return(s, c, p) ==
    /\ s \in sockets /\ ~InRoom(s)
    /\ c \in rooms /\ p \in Humans(room[c]) \cap room[c].tokens
    /\ LET old == room[c].playerToSocket[p]
       IN  /\ old # s
           /\ p \in room[c].connected => old # NoSocket
           /\ room' = [room EXCEPT ![c] = Reseat(@, p, s)]
           /\ socketToRoom' = [Unmapped({old}) EXCEPT ![s] = c]
           /\ roomToSockets' = [SocketsWithout({old}) EXCEPT ![c] = @ \cup {s}]
    /\ UNCHANGED <<created, rooms, playerToRoom, sockets, requests, ids, history>>

Spectate(s, c) ==
    /\ s \in sockets /\ ~InRoom(s)
    /\ c \in rooms /\ room[c].gamePhase # "LOBBY"
    /\ room' = [room EXCEPT ![c].spectators = @ \cup {s}]
    /\ MapSocket(s, c)
    /\ UNCHANGED <<created, rooms, playerToRoom, sockets, requests, ids, history>>

-----------------------------------------------------------------------------
(* Going.                                                                  *)

StopSpectating(s) ==
    /\ room' = [room EXCEPT ![socketToRoom[s]].spectators = @ \ {s}]
    /\ socketToRoom' = Unmapped({s}) /\ roomToSockets' = SocketsWithout({s})
    /\ UNCHANGED <<rooms, playerToRoom>>

LeaveRoom(s) ==
    /\ s \in sockets /\ InRoom(s)
    /\ LET r == RoomFor(s)
           p == r.socketToPlayer[s]
           inGame == p # NoPlayer /\ r.gamePhase = "PLAYING"
           left == IF inGame THEN DetachPlayer(Eliminate(r, p), s) ELSE RemovePlayer(r, s)
       IN  \/ s \in r.spectators /\ StopSpectating(s)
           \/ /\ s \notin r.spectators
              /\ KeepUnlessEmpty(socketToRoom[s], left, Unmapped({s}), SocketsWithout({s}),
                                 IF p = NoPlayer THEN playerToRoom ELSE Forget(p))
    /\ UNCHANGED <<created, sockets, requests, ids, history>>

Disconnect(s) ==
    /\ s \in sockets
    /\ sockets' = sockets \ {s}
    /\ \/ ~InRoom(s) /\ UNCHANGED <<room, unmoved>>
       \/ InRoom(s) /\ s \in RoomFor(s).spectators /\ StopSpectating(s)
       \/ /\ InRoom(s) /\ s \notin RoomFor(s).spectators
          /\ LET r == RoomFor(s)
                 p == r.socketToPlayer[s]
                 left == HandleDisconnect(r, s)
             IN  KeepUnlessEmpty(socketToRoom[s], left, Unmapped({s}), SocketsWithout({s}),
                                 IF p # NoPlayer /\ p \notin left.players THEN Forget(p)
                                 ELSE playerToRoom)
    /\ UNCHANGED <<created, requests, ids, history>>

\* Three minutes passed without the player.
DisconnectTimeout(c, p) ==
    /\ c \in rooms /\ p \in room[c].timers
    /\ ~room[c].countdown
    /\ LET r == [room[c] EXCEPT !.timers = @ \ {p}]
           found == playerToRoom[p] = c /\ r.gamePhase # "LOBBY"
       IN  room' = [room EXCEPT ![c] = IF found THEN Eliminate(r, p) ELSE r]
    /\ UNCHANGED <<created, unmoved, sockets, requests, ids, history>>

CloseRoom(s) ==
    /\ s \in sockets /\ IsHost(s)
    /\ DeleteRoom(socketToRoom[s], RoomFor(s), socketToRoom, roomToSockets, playerToRoom)
    /\ UNCHANGED <<created, sockets, requests, ids, history>>

\* cleanupStaleRooms: rooms that are empty, or that nobody touched for hours.
SweepRoom(c) ==
    /\ c \in rooms
    /\ DeleteRoom(c, room[c], socketToRoom, roomToSockets, playerToRoom)
    /\ UNCHANGED <<created, sockets, requests, ids, history>>

-----------------------------------------------------------------------------
(* The host.                                                               *)

HostSets(s, r) ==
    /\ s \in sockets /\ IsHost(s)
    /\ room' = [room EXCEPT ![socketToRoom[s]] = r]

UpdateSettings(s, n) ==
    /\ IsHost(s) /\ Humans(RoomFor(s)) \subseteq {RoomFor(s).hostId}
    /\ RoomFor(s).gamePhase = "LOBBY"
    /\ HostSets(s, [RoomFor(s) EXCEPT !.maxPlayers = n])
    /\ UNCHANGED <<created, unmoved, sockets, requests, ids, history>>

AddBot(s) ==
    LET r == RoomFor(s)
        b == ids + 1
    IN  /\ ids < MaxIds /\ IsHost(s)
        /\ r.gamePhase = "LOBBY" /\ Cardinality(r.players) < r.maxPlayers
        /\ HostSets(s, [r EXCEPT !.players = @ \cup {b}, !.bots = @ \cup {b}])
        /\ ids' = b
        /\ playerToRoom' = [playerToRoom EXCEPT ![b] = socketToRoom[s]]
        /\ UNCHANGED <<created, rooms, socketToRoom, roomToSockets, sockets, requests, history>>

\* The handler takes any id, a human's or another room's too: who is no bot of the
\* room stays where he is, and his mapping goes.  The page sends ids of bots only.
RemoveBot(s, b) ==
    /\ IsHost(s) /\ RoomFor(s).gamePhase = "LOBBY"
    /\ HostSets(s, WithoutBot(RoomFor(s), b))
    /\ playerToRoom' = Forget(b)
    /\ unmapped' = unmapped \cup {p \in {b} : \E c \in rooms : p \in room'[c].players}
    /\ UNCHANGED <<created, rooms, socketToRoom, roomToSockets, sockets, requests, ids, doubled, ghosts>>

\* The socket of the player who is kicked is taken from him; of one who is away
\* only the mapping goes.
KickPlayer(s, p) ==
    LET r == RoomFor(s)
        target == r.playerToSocket[p]
        left == IF target = NoSocket THEN r ELSE RemovePlayer(r, target)
    IN  /\ IsHost(s) /\ r.gamePhase = "LOBBY"
        /\ p \in Humans(r) \ {r.hostId}
        /\ HostSets(s, left)
        /\ socketToRoom' = Unmapped({target}) /\ roomToSockets' = SocketsWithout({target})
        /\ playerToRoom' = Forget(p)
        /\ unmapped' = unmapped \cup ({p} \cap left.players)
        /\ UNCHANGED <<created, rooms, sockets, requests, ids, doubled, ghosts>>

\* game:start in the lobby, pressed once or again: the callback of a second press
\* finds the game started and returns.  Pressed during a game it resets the
\* series and a deadline that only the lobby reads.
GameStart(s) ==
    /\ IsHost(s) /\ RoomFor(s).gamePhase = "LOBBY"
    /\ Cardinality(RoomFor(s).players) >= 2
    /\ HostSets(s, [RoomFor(s) EXCEPT !.countdown = TRUE])
    /\ UNCHANGED <<created, unmoved, sockets, requests, ids, history>>

\* The game starts at once; the callback of its countdown only sets the turn timer.
GameRematch(s) ==
    /\ IsHost(s) /\ RoomFor(s).gamePhase = "GAME_OVER"
    /\ Cardinality(RoomFor(s).players) >= 2
    /\ HostSets(s, ResetForRematch(RoomFor(s)))
    /\ UNCHANGED <<created, unmoved, sockets, requests, ids, history>>

-----------------------------------------------------------------------------
(* What timers and the game do.                                            *)

\* The callback looks up the room and its phase, and counts nobody.
CountdownEnds(c) ==
    /\ c \in rooms /\ room[c].countdown
    /\ room' = [room EXCEPT ![c] = StartGame(@)]
    /\ UNCHANGED <<created, unmoved, sockets, requests, ids, history>>

\* A round of the game puts somebody out (GameRoom has the rest).
RevealRound(c) ==
    /\ c \in rooms /\ room[c].gamePhase = "PLAYING" /\ Cardinality(Active(room[c])) > 1
    /\ \E p \in Active(room[c]) : room' = [room EXCEPT ![c] = Eliminate(@, p)]
    /\ UNCHANGED <<created, unmoved, sockets, requests, ids, history>>

FromSocket(s) ==
    \/ CreateRoom(s) \/ Ask(s, NoRoom) \/ \E c \in rooms : JoinRoom(s, c) \/ Ask(s, c)
    \/ \E c \in rooms : Spectate(s, c) \/ \E p \in Players : Return(s, c, p)
    \/ LeaveRoom(s) \/ Disconnect(s) \/ CloseRoom(s)
    \/ \E n \in SeatChoices : UpdateSettings(s, n)
    \/ GameStart(s) \/ GameRematch(s)
    \/ \E p \in Players : KickPlayer(s, p)
    \/ AddBot(s) \/ \E p \in Players : RemoveBot(s, p)

Timers(c) == CountdownEnds(c) \/ \E p \in Players : DisconnectTimeout(c, p)

Next ==
    \/ \E s \in Sockets : FromSocket(s)
    \/ \E q \in requests : Answered(q)
    \/ \E c \in rooms : Timers(c) \/ RevealRound(c) \/ SweepRoom(c)

LobbySpec == Init /\ [][Next]_vars

-----------------------------------------------------------------------------
(* Properties.                                                             *)

\* The sets and maps of one room fit together.
RoomShape(r) ==
    /\ r.bots \subseteq r.players /\ r.tokens \subseteq Humans(r)
    /\ r.connected \subseteq r.tokens
    /\ r.timers \subseteq Away(r)
    /\ \A p \in Players : r.playerToSocket[p] # NoSocket <=> p \in r.connected
    /\ r.spectators # {} => r.gamePhase # "LOBBY"
    /\ r.countdown => r.gamePhase = "LOBBY"

\* Every index, request and room has the shape its code gives it; in particular
\* a disconnect timer runs only for a player who is away.
LobbyTypeOK ==
    /\ \A c \in RoomCodes : RoomShape(room[c])
    /\ room \in [RoomCodes -> RoomRecords]
    /\ created \in 0 .. MaxRooms /\ rooms \subseteq 1 .. created
    /\ socketToRoom \in [Sockets -> RoomCodes \cup {NoRoom}]
    /\ roomToSockets \in [RoomCodes -> SUBSET Sockets]
    /\ playerToRoom \in [Players -> RoomCodes \cup {NoRoom}]
    /\ sockets \subseteq Sockets /\ doubled \subseteq Sockets
    /\ requests \subseteq [socket : Accounts, room : RoomCodes \cup {NoRoom}]
    /\ ids \in 0 .. MaxIds
    /\ ghosts \subseteq Players /\ unmapped \subseteq Players

\* A connected player can be reached: his socket is alive, leads to his room and
\* leads back to him.
Reachable(c, p) ==
    LET s == room[c].playerToSocket[p]
    IN  /\ s \in sockets
        /\ socketToRoom[s] = c /\ s \in roomToSockets[c]
        /\ room[c].socketToPlayer[s] = p

\* A socket that leads to a room is known there, as a player's or a spectator's.
Known(s) ==
    LET r == RoomFor(s)
    IN  /\ s \in roomToSockets[socketToRoom[s]]
        /\ \/ s \in r.spectators
           \/ /\ r.socketToPlayer[s] \in r.players
              /\ r.playerToSocket[r.socketToPlayer[s]] = s

\* RoomManager's two socket indices, the two maps of each room and the live
\* connections are five views of who sits where, which joins, returns on another
\* socket, kicks, leaves, lost connections and closing a room update one by one.
\* They agree, except for the two effects of the await in room:create and
\* room:join: a socket seated while it was in a room already, and a player
\* seated for a socket that had gone, whom nobody can reach.
IndexesAgree ==
    /\ \A c \in rooms : \A p \in Humans(room[c]) \cap room[c].connected :
         \/ Reachable(c, p)
         \/ room[c].playerToSocket[p] \in doubled \/ p \in ghosts
    /\ \A s \in Sockets \ doubled : InRoom(s) => Known(s)
    /\ \A c \in rooms : \A s \in roomToSockets[c] \ doubled : socketToRoom[s] = c

\* The host of a room, which only the host can start, is somebody on its list,
\* however the role was handed over: leaving the lobby or the countdown, leaving a
\* game, losing the connection, being removed, missing a rematch.
HostIsListed ==
    \A c \in rooms : room[c].players # {} => room[c].hostId \in room[c].players

\* A human who was dealt in, is away and is not out has a disconnect timer, and
\* the timer will find his room: the game does not wait for him forever.  The
\* exception is a player who is still there though a kick or room:removeBot has taken
\* his mapping (he was away, or his socket had been given to another seat, or is no
\* bot): he is dealt in all the same.
AbsenceIsTimed ==
    \A c \in rooms : room[c].gamePhase = "PLAYING" =>
      \A p \in (Away(room[c]) \cap Active(room[c])) \ unmapped :
         p \in room[c].timers /\ playerToRoom[p] = c

\* A game is dealt to two players or more, though the countdown's callback does
\* not count them again, unless somebody left or was removed while it ran; a
\* player who only lost the connection in those seconds is dealt in.
StartsWithTwo ==
    [][\A c \in rooms \cap rooms' :
         room[c].gamePhase = "LOBBY" /\ room'[c].gamePhase = "PLAYING" =>
           Cardinality(room'[c].dealt) >= 2 \/ room[c].leftInCountdown]_vars
=============================================================================
