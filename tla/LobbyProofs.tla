----------------------------- MODULE LobbyProofs -----------------------------
(* Rooms around a match, for any number of sockets, rooms, players and waiting *)
(* requests: what a room's sets and maps keep, who hosts it, who is timed, and *)
(* how far the indexes of RoomManager agree with it.                          *)
EXTENDS RoomLobby, FiniteSetTheorems, TLAPS

-----------------------------------------------------------------------------
(* Smallest and largest elements.                                          *)

\* A finite set of integers that is not empty has a smallest and a largest element.
LEMMA Extremes ==
    ASSUME NEW S \in SUBSET Int, IsFiniteSet(S), S # {}
    PROVE  /\ \E x \in S : \A y \in S : x <= y
           /\ \E x \in S : \A y \in S : y <= x
<1>1. IsWellFoundedOn(StrictSubsetOrdering(S), FiniteSubsetsOf(S))
  BY FS_StrictSubsetOrderingWellFounded
<1> DEFINE Below(x) == {y \in S : y < x}
           Above(x) == {y \in S : y > x}
<1>2. \A x \in S : Below(x) \in FiniteSubsetsOf(S) /\ Above(x) \in FiniteSubsetsOf(S)
  BY FS_Subset DEF FiniteSubsetsOf
<1>3. \E x \in S : \A y \in S : x <= y
  <2> DEFINE U == {Below(x) : x \in S}
  <2>1. U \subseteq FiniteSubsetsOf(S) /\ U # {}
    BY <1>2
  <2>2. PICK X \in U : \A Y \in U : ~(<<Y, X>> \in StrictSubsetOrdering(S))
    BY <1>1, <2>1, WFMin
  <2>3. PICK x \in S : X = Below(x)
    OBVIOUS
  <2>4. ASSUME NEW y \in S, ~(x <= y) PROVE FALSE
    <3>1. y < x /\ ~(y < y) /\ \A z \in S : z < y => z < x
      BY <2>4
    <3>2. y \in Below(x) /\ y \notin Below(y) /\ Below(y) \subseteq Below(x) /\ Below(x) \subseteq S
      BY <3>1, Zenon
    <3>3. <<Below(y), Below(x)>> \in StrictSubsetOrdering(S)
      <4> HIDE DEF Below
      <4> QED
        BY <3>2 DEF StrictSubsetOrdering
    <3> QED
      BY <2>2, <2>3, <3>3
  <2> QED
    BY <2>4
<1>4. \E x \in S : \A y \in S : y <= x
  <2> DEFINE U == {Above(x) : x \in S}
  <2>1. U \subseteq FiniteSubsetsOf(S) /\ U # {}
    BY <1>2
  <2>2. PICK X \in U : \A Y \in U : ~(<<Y, X>> \in StrictSubsetOrdering(S))
    BY <1>1, <2>1, WFMin
  <2>3. PICK x \in S : X = Above(x)
    OBVIOUS
  <2>4. ASSUME NEW y \in S, ~(y <= x) PROVE FALSE
    <3>1. y > x /\ ~(y > y) /\ \A z \in S : z > y => z > x
      BY <2>4
    <3>2. y \in Above(x) /\ y \notin Above(y) /\ Above(y) \subseteq Above(x) /\ Above(x) \subseteq S
      BY <3>1, Zenon
    <3>3. <<Above(y), Above(x)>> \in StrictSubsetOrdering(S)
      <4> HIDE DEF Above
      <4> QED
        BY <3>2 DEF StrictSubsetOrdering
    <3> QED
      BY <2>2, <2>3, <3>3
  <2> QED
    BY <2>4
<1> QED
  BY <1>3, <1>4

\* Players are numbers, and any set of them is finite.
LEMMA PlayersAreFew ==
    ASSUME NEW S \in SUBSET Players
    PROVE  /\ IsFiniteSet(S) /\ Cardinality(S) \in Nat /\ S \in SUBSET Int
           /\ NoPlayer \notin S /\ NoPlayer \notin Players
<1>1. MaxIds \in Nat \ {0}
  BY LobbyAssumption
<1>2. IsFiniteSet(Players)
  BY <1>1, FS_Interval DEF Players
<1>3. IsFiniteSet(S) /\ Cardinality(S) \in Nat
  BY <1>2, FS_Subset, FS_CardinalityType
<1>4. S \in SUBSET Int /\ NoPlayer \notin S /\ NoPlayer \notin Players
  BY <1>1 DEF Players, NoPlayer
<1> QED
  BY <1>3, <1>4

\* The host's role goes to the one longest in the room.
LEMMA OldestIsOne ==
    ASSUME NEW S \in SUBSET Players, S # {}
    PROVE  Oldest(S) \in S
BY PlayersAreFew, Extremes DEF Oldest

LEMMA MostSeatsIsAChoice == MostSeats \in SeatChoices
<1>1. SeatChoices \in SUBSET Int /\ SeatChoices # {} /\ IsFiniteSet(SeatChoices)
  BY LobbyAssumption
<1>2. \E n \in SeatChoices : \A k \in SeatChoices : k <= n
  BY <1>1, Extremes
<1> QED
  BY <1>2 DEF MostSeats

-----------------------------------------------------------------------------
(* One room.                                                               *)

\* A socket leads to the player who has it; nobody is out and nobody away in a
\* lobby, but for the seconds of the countdown.
SeatsGood(r) ==
    /\ RoomShape(r) /\ r.timers \subseteq r.tokens
    /\ \A s \in Sockets : r.socketToPlayer[s] # NoPlayer =>
         r.playerToSocket[r.socketToPlayer[s]] = s
    /\ r.players # {} => r.hostId \in r.players
    /\ r.gamePhase = "LOBBY" => r.eliminated = {} /\ (r.countdown \/ Away(r) = {})

\* Whoever is away and will be, or is, waited for has a timer, but for those whom a
\* kick in vain has left in the room.
AwayGood(r, lost) ==
    /\ r.gamePhase = "LOBBY" => Away(r) \subseteq r.timers \cup lost
    /\ r.gamePhase = "PLAYING" => Away(r) \cap Active(r) \subseteq r.timers \cup lost

\* The countdown runs for two players or more, unless one left since.
EnoughPlayers(r) == r.countdown /\ ~r.leftInCountdown => Cardinality(r.players) >= 2

RoomGood(r, lost) ==
    r \in RoomRecords /\ SeatsGood(r) /\ AwayGood(r, lost) /\ EnoughPlayers(r)

\* What a socket that leads to a player, and a player who is connected, say of the room.
LEMMA SeatFacts ==
    ASSUME NEW r \in RoomRecords, SeatsGood(r)
    PROVE  /\ \A s \in Sockets : r.socketToPlayer[s] # NoPlayer =>
                /\ r.socketToPlayer[s] \in Players
                /\ r.playerToSocket[r.socketToPlayer[s]] = s
                /\ r.socketToPlayer[s] \in r.connected
           /\ r.connected \subseteq Humans(r) /\ Humans(r) \subseteq r.players
           /\ r.players \subseteq Players /\ r.timers \subseteq r.players
           /\ r.timers \cap r.connected = {} /\ r.bots \subseteq r.players
           /\ r.bots \cap r.tokens = {}
           /\ \A p \in r.connected : r.playerToSocket[p] \in Sockets
BY LobbyAssumption DEF RoomRecords, SeatsGood, RoomShape, Humans, Away

LEMMA EmptyRoomGood ==
    ASSUME NEW lost
    PROVE  RoomGood(EmptyRoom, lost)
<1> DEFINE e == EmptyRoom
<1>1. e \in RoomRecords
  BY MostSeatsIsAChoice DEF EmptyRoom, RoomRecords, LobbyPhases
<1>2. RoomShape(e)
  BY DEF EmptyRoom, RoomShape, Humans, Away
<1> QED
  BY <1>1, <1>2 DEF EmptyRoom, RoomGood, SeatsGood, AwayGood, EnoughPlayers, Away, Humans

\* A player more, on the socket that asked.
LEMMA AddPlayerGood ==
    ASSUME NEW lost, NEW r, RoomGood(r, lost), NEW p \in Players, p \notin r.players,
           NEW s \in Sockets
    PROVE  /\ RoomGood(AddPlayer(r, p, s), lost)
           /\ AddPlayer(r, p, s).players = r.players \cup {p}
           /\ AddPlayer(r, p, s).tokens = r.tokens \cup {p}
           /\ AddPlayer(r, p, s).connected = r.connected \cup {p}
           /\ AddPlayer(r, p, s).spectators = r.spectators
           /\ AddPlayer(r, p, s).gamePhase = r.gamePhase
           /\ \A q \in Players : AddPlayer(r, p, s).playerToSocket[q] =
                IF q = p THEN s ELSE r.playerToSocket[q]
           /\ \A t \in Sockets : AddPlayer(r, p, s).socketToPlayer[t] =
                IF t = s THEN p ELSE r.socketToPlayer[t]
<1> DEFINE a == AddPlayer(r, p, s)
           pts == [r.playerToSocket EXCEPT ![p] = s]
           stp == [r.socketToPlayer EXCEPT ![s] = p]
           host == IF r.players = {} THEN p ELSE r.hostId
<1>1. r \in RoomRecords /\ SeatsGood(r)
  BY DEF RoomGood
<1>2. a = [r EXCEPT !.players = r.players \cup {p}, !.connected = r.connected \cup {p},
                    !.tokens = r.tokens \cup {p}, !.hostId = host,
                    !.playerToSocket = pts, !.socketToPlayer = stp]
  BY <1>1 DEF AddPlayer, RoomRecords
<1>3. /\ pts \in [Players -> Sockets \cup {NoSocket}] /\ stp \in [Sockets -> Players \cup {NoPlayer}]
      /\ host \in Players \cup {NoPlayer} /\ r.players \cup {p} \in SUBSET Players
      /\ r.connected \cup {p} \in SUBSET Players /\ r.tokens \cup {p} \in SUBSET Players
  BY <1>1 DEF RoomRecords
<1>4. /\ \A q \in Players : pts[q] = IF q = p THEN s ELSE r.playerToSocket[q]
      /\ \A t \in Sockets : stp[t] = IF t = s THEN p ELSE r.socketToPlayer[t]
  BY <1>1 DEF RoomRecords
<1>5. a \in RoomRecords
  <2> HIDE DEF a, pts, stp, host
  <2> QED
    BY <1>1, <1>2, <1>3 DEF RoomRecords
<1>6. /\ a.players = r.players \cup {p} /\ a.connected = r.connected \cup {p}
      /\ a.tokens = r.tokens \cup {p} /\ a.hostId = host
      /\ a.playerToSocket = pts /\ a.socketToPlayer = stp
      /\ \A f \in {"bots", "timers", "dealt", "eliminated", "spectators", "gamePhase",
                   "maxPlayers", "countdown", "leftInCountdown"} : a[f] = r[f]
  <2> HIDE DEF a, pts, stp, host
  <2> QED
    BY <1>1, <1>2 DEF RoomRecords
<1>7. Away(a) = Away(r) /\ Active(a) = Active(r)
  <2> HIDE DEF a
  <2> QED
    BY <1>1, <1>6, SeatFacts DEF Away, Humans, Active
<1>8. SeatsGood(a)
  <2> HIDE DEF a, pts, stp
  <2>1. a.bots \subseteq a.players /\ a.tokens \subseteq Humans(a) /\ a.connected \subseteq a.tokens
    BY <1>1, <1>6 DEF SeatsGood, RoomShape, Humans
  <2>2. \A q \in Players : a.playerToSocket[q] # NoSocket <=> q \in a.connected
    BY <1>1, <1>4, <1>6, LobbyAssumption DEF SeatsGood, RoomShape
  <2>3. RoomShape(a)
    BY <1>1, <1>6, <1>7, <2>1, <2>2 DEF SeatsGood, RoomShape
  <2>4. \A t \in Sockets : a.socketToPlayer[t] # NoPlayer =>
          a.playerToSocket[a.socketToPlayer[t]] = t
    BY <1>1, <1>4, <1>6, SeatFacts
  <2> QED
    BY <1>1, <1>6, <1>7, <2>3, <2>4 DEF SeatsGood, host
<1>9. AwayGood(a, lost)
  <2> HIDE DEF a
  <2> QED
    BY <1>6, <1>7 DEF RoomGood, AwayGood
<1>10. EnoughPlayers(a)
  <2> HIDE DEF a
  <2>1. Cardinality(a.players) = Cardinality(r.players) + 1 /\ Cardinality(r.players) \in Nat
    BY <1>1, <1>6, PlayersAreFew, FS_AddElement DEF RoomRecords
  <2> QED
    BY <1>6, <2>1 DEF RoomGood, EnoughPlayers
<1> QED
  BY <1>4, <1>5, <1>6, <1>8, <1>9, <1>10 DEF RoomGood

\* Socket s no longer leads to anybody in the room, and nothing else moves.
Leaves(r, a, s) ==
    /\ a.spectators = r.spectators
    /\ a.connected \subseteq r.connected \ {r.socketToPlayer[s]}
    /\ \A q \in a.connected : a.playerToSocket[q] = r.playerToSocket[q]
    /\ \A t \in Sockets \ {s} : a.socketToPlayer[t] = r.socketToPlayer[t]

LEMMA NobodyLeaves ==
    ASSUME NEW r \in RoomRecords, SeatsGood(r), NEW s \in Sockets, r.socketToPlayer[s] = NoPlayer
    PROVE  Leaves(r, r, s)
BY SeatFacts, PlayersAreFew DEF Leaves, RoomRecords

\* A player less.  Whoever hosted, one of those who remain hosts.
LEMMA RemovePlayerGood ==
    ASSUME NEW lost, NEW r, RoomGood(r, lost), NEW s \in Sockets
    PROVE  /\ RoomGood(RemovePlayer(r, s), lost)
           /\ Leaves(r, RemovePlayer(r, s), s)
           /\ RemovePlayer(r, s).players = r.players \ {r.socketToPlayer[s]}
           /\ RemovePlayer(r, s).tokens = r.tokens \ {r.socketToPlayer[s]}
           /\ RemovePlayer(r, s).gamePhase = r.gamePhase
<1> DEFINE a == RemovePlayer(r, s)
           p == r.socketToPlayer[s]
           rest == r.players \ {p}
           pts == [r.playerToSocket EXCEPT ![p] = NoSocket]
           stp == [r.socketToPlayer EXCEPT ![s] = NoPlayer]
           host == IF p = r.hostId /\ rest # {} THEN Oldest(rest) ELSE r.hostId
           left == r.leftInCountdown \/ r.countdown
<1>1. r \in RoomRecords /\ SeatsGood(r)
  BY DEF RoomGood
<1>2. CASE p = NoPlayer
  <2>1. a = r
    BY <1>2 DEF RemovePlayer
  <2>2. NoPlayer \notin r.players /\ NoPlayer \notin r.tokens
    BY <1>1, PlayersAreFew DEF RoomRecords
  <2> QED
    BY <1>1, <1>2, <2>1, <2>2, NobodyLeaves
<1>3. CASE p # NoPlayer
  <2>1. a = [r EXCEPT !.players = rest, !.connected = r.connected \ {p}, !.tokens = r.tokens \ {p},
                      !.playerToSocket = pts, !.socketToPlayer = stp,
                      !.hostId = host, !.leftInCountdown = left]
    BY <1>1, <1>3 DEF RemovePlayer, RoomRecords
  <2>2. /\ p \in Players /\ p \in r.connected /\ p \in r.tokens /\ p \in r.players /\ p \notin r.bots
        /\ p \notin r.timers /\ r.playerToSocket[p] = s
    BY <1>1, <1>3, SeatFacts DEF SeatsGood, RoomShape, RoomRecords
  <2>3. rest # {} => Oldest(rest) \in rest
    BY <1>1, OldestIsOne DEF RoomRecords
  <2>4. /\ pts \in [Players -> Sockets \cup {NoSocket}] /\ stp \in [Sockets -> Players \cup {NoPlayer}]
        /\ host \in Players \cup {NoPlayer} /\ rest \in SUBSET Players /\ left \in BOOLEAN
        /\ r.connected \ {p} \in SUBSET Players /\ r.tokens \ {p} \in SUBSET Players
    BY <1>1, <2>3 DEF RoomRecords
  <2>5. /\ \A q \in Players : pts[q] = IF q = p THEN NoSocket ELSE r.playerToSocket[q]
        /\ \A t \in Sockets : stp[t] = IF t = s THEN NoPlayer ELSE r.socketToPlayer[t]
    BY <1>1, <2>2 DEF RoomRecords
  <2> HIDE DEF pts, stp
  <2>6. a \in RoomRecords
    <3> HIDE DEF a, p, rest, host, left
    <3> QED
      BY <1>1, <2>1, <2>4 DEF RoomRecords
  <2>7. /\ a.players = rest /\ a.connected = r.connected \ {p} /\ a.tokens = r.tokens \ {p}
        /\ a.hostId = host /\ a.playerToSocket = pts /\ a.socketToPlayer = stp
        /\ a.leftInCountdown = left
        /\ \A f \in {"bots", "timers", "dealt", "eliminated", "spectators", "gamePhase",
                     "maxPlayers", "countdown"} : a[f] = r[f]
    <3> HIDE DEF a, p, rest, host, left
    <3> QED
      BY <1>1, <2>1 DEF RoomRecords
  <2> HIDE DEF a
  <2>8. Away(a) = Away(r) /\ Active(a) = Active(r)
    <3> HIDE DEF p
    <3> QED
      BY <2>2, <2>7 DEF Away, Humans, Active
  <2>9. SeatsGood(a)
    <3> HIDE DEF p
    <3>1. a.bots \subseteq a.players /\ a.tokens \subseteq Humans(a) /\ a.connected \subseteq a.tokens
      BY <1>1, <2>2, <2>7 DEF SeatsGood, RoomShape, Humans
    <3>2. \A q \in Players : a.playerToSocket[q] # NoSocket <=> q \in a.connected
      BY <1>1, <2>5, <2>7 DEF SeatsGood, RoomShape
    <3>3. RoomShape(a)
      BY <1>1, <2>7, <2>8, <3>1, <3>2 DEF SeatsGood, RoomShape
    <3>4. \A t \in Sockets : a.socketToPlayer[t] # NoPlayer =>
            a.playerToSocket[a.socketToPlayer[t]] = t
      BY <1>1, <2>2, <2>5, <2>7, SeatFacts
    <3>5. a.timers \subseteq a.tokens
      BY <1>1, <2>2, <2>7 DEF SeatsGood
    <3>6. a.players # {} => a.hostId \in a.players
      BY <1>1, <2>2, <2>3, <2>7 DEF SeatsGood
    <3> QED
      BY <1>1, <2>7, <2>8, <3>3, <3>4, <3>5, <3>6 DEF SeatsGood
  <2>10. AwayGood(a, lost)
    BY <2>7, <2>8 DEF RoomGood, AwayGood
  <2>11. EnoughPlayers(a)
    BY <2>7 DEF RoomGood, EnoughPlayers
  <2>12. Leaves(r, a, s)
    BY <1>1, <2>5, <2>7 DEF Leaves, RoomRecords
  <2> QED
    BY <2>6, <2>7, <2>9, <2>10, <2>11, <2>12 DEF RoomGood, a
<1> QED
  BY <1>2, <1>3

\* Going out of the game, when the player's timer, if it ran, has been dropped.
LEMMA EliminateGood ==
    ASSUME NEW lost, NEW p \in Players, NEW r, RoomGood(r, lost \cup {p}), r.gamePhase # "LOBBY"
    PROVE  /\ RoomGood(Eliminate(r, p), lost)
           /\ p \notin Active(Eliminate(r, p)) /\ Eliminate(r, p).gamePhase # "LOBBY"
           /\ \A f \in {"players", "connected", "tokens", "spectators", "playerToSocket",
                        "socketToPlayer"} : Eliminate(r, p)[f] = r[f]
<1> DEFINE a == Eliminate(r, p)
           out == r.eliminated \cup (r.dealt \cap {p})
           phase == IF r.gamePhase = "PLAYING" /\ Cardinality(r.dealt \ out) <= 1
                      THEN "GAME_OVER" ELSE r.gamePhase
<1>1. r \in RoomRecords /\ SeatsGood(r)
  BY DEF RoomGood
<1>2. a = [r EXCEPT !.eliminated = out, !.gamePhase = phase]
  BY <1>1 DEF Eliminate, RoomRecords
<1>3. out \in SUBSET Players /\ phase \in LobbyPhases /\ phase # "LOBBY"
  BY <1>1 DEF RoomRecords, LobbyPhases
<1>4. phase = "PLAYING" => r.gamePhase = "PLAYING"
  OBVIOUS
<1> HIDE DEF phase, a
<1>5. a \in RoomRecords
  BY <1>1, <1>2, <1>3 DEF RoomRecords
<1>6. /\ a.eliminated = out /\ a.gamePhase = phase
      /\ \A f \in {"players", "bots", "connected", "tokens", "timers", "dealt", "hostId",
                   "playerToSocket", "socketToPlayer", "spectators", "countdown",
                   "leftInCountdown"} : a[f] = r[f]
  BY <1>1, <1>2 DEF RoomRecords
<1>7. Away(a) = Away(r) /\ Active(a) = Active(r) \ {p} /\ Humans(a) = Humans(r)
  BY <1>6 DEF Away, Humans, Active
<1>8. SeatsGood(a)
  BY <1>1, <1>3, <1>6, <1>7 DEF SeatsGood, RoomShape
<1>9. AwayGood(a, lost)
  BY <1>3, <1>4, <1>6, <1>7 DEF RoomGood, AwayGood
<1>10. EnoughPlayers(a)
  BY <1>6 DEF RoomGood, EnoughPlayers
<1> QED
  BY <1>3, <1>5, <1>6, <1>7, <1>8, <1>9, <1>10 DEF RoomGood, a

\* Leaving a game: listed, without socket, token and timer.
LEMMA DetachPlayerGood ==
    ASSUME NEW lost, NEW r, RoomGood(r, lost), r.gamePhase # "LOBBY",
           NEW s \in Sockets, r.socketToPlayer[s] # NoPlayer,
           r.socketToPlayer[s] \notin Active(r)
    PROVE  /\ RoomGood(DetachPlayer(r, s), lost)
           /\ Leaves(r, DetachPlayer(r, s), s)
           /\ DetachPlayer(r, s).players = r.players
           /\ DetachPlayer(r, s).tokens = r.tokens \ {r.socketToPlayer[s]}
           /\ DetachPlayer(r, s).gamePhase = r.gamePhase
<1> DEFINE a == DetachPlayer(r, s)
           p == r.socketToPlayer[s]
           heirs == ((Humans(r) \cap r.connected) \ r.eliminated) \ {p}
           pts == [r.playerToSocket EXCEPT ![p] = NoSocket]
           stp == [r.socketToPlayer EXCEPT ![s] = NoPlayer]
           host == IF p = r.hostId /\ heirs # {} THEN Oldest(heirs) ELSE r.hostId
<1>1. r \in RoomRecords /\ SeatsGood(r)
  BY DEF RoomGood
<1>2. a = [r EXCEPT !.connected = r.connected \ {p}, !.tokens = r.tokens \ {p},
                    !.timers = r.timers \ {p},
                    !.playerToSocket = pts, !.socketToPlayer = stp, !.hostId = host]
  BY <1>1 DEF DetachPlayer, RoomRecords
<1>3. /\ p \in Players /\ p \in r.connected /\ p \in r.tokens /\ p \in r.players /\ p \notin r.bots
      /\ p \notin r.timers /\ r.playerToSocket[p] = s
  BY <1>1, SeatFacts DEF SeatsGood, RoomShape, RoomRecords
<1>4. /\ heirs \subseteq r.players /\ heirs \in SUBSET Players
      /\ heirs # {} => Oldest(heirs) \in heirs
  BY <1>1, OldestIsOne DEF RoomRecords, Humans
<1>5. /\ pts \in [Players -> Sockets \cup {NoSocket}] /\ stp \in [Sockets -> Players \cup {NoPlayer}]
      /\ host \in Players \cup {NoPlayer} /\ r.timers \ {p} \in SUBSET Players
      /\ r.connected \ {p} \in SUBSET Players /\ r.tokens \ {p} \in SUBSET Players
  BY <1>1, <1>4 DEF RoomRecords
<1>6. /\ \A q \in Players : pts[q] = IF q = p THEN NoSocket ELSE r.playerToSocket[q]
      /\ \A t \in Sockets : stp[t] = IF t = s THEN NoPlayer ELSE r.socketToPlayer[t]
  BY <1>1, <1>3 DEF RoomRecords
<1>7. host \in r.players
  BY <1>1, <1>3, <1>4 DEF SeatsGood
<1> HIDE DEF pts, stp, host, heirs
<1>8. a \in RoomRecords
  <2> HIDE DEF a, p
  <2> QED
    BY <1>1, <1>2, <1>5 DEF RoomRecords
<1>9. /\ a.connected = r.connected \ {p} /\ a.tokens = r.tokens \ {p} /\ a.timers = r.timers \ {p}
      /\ a.hostId = host /\ a.playerToSocket = pts /\ a.socketToPlayer = stp
      /\ \A f \in {"players", "bots", "dealt", "eliminated", "spectators", "gamePhase",
                   "maxPlayers", "countdown", "leftInCountdown"} : a[f] = r[f]
  <2> HIDE DEF a, p
  <2> QED
    BY <1>1, <1>2 DEF RoomRecords
<1> HIDE DEF a
<1>10. Away(a) = Away(r) \cup {p} /\ Active(a) = Active(r) /\ Humans(a) = Humans(r)
  <2> HIDE DEF p
  <2> QED
    BY <1>3, <1>9 DEF Away, Humans, Active
<1>11. SeatsGood(a)
  <2> HIDE DEF p
  <2>1. \A q \in Players : a.playerToSocket[q] # NoSocket <=> q \in a.connected
    BY <1>1, <1>6, <1>9 DEF SeatsGood, RoomShape
  <2>2. RoomShape(a)
    BY <1>1, <1>3, <1>9, <1>10, <2>1 DEF SeatsGood, RoomShape
  <2>3. \A t \in Sockets : a.socketToPlayer[t] # NoPlayer =>
          a.playerToSocket[a.socketToPlayer[t]] = t
    BY <1>1, <1>3, <1>6, <1>9, SeatFacts
  <2> QED
    BY <1>1, <1>3, <1>7, <1>9, <2>2, <2>3 DEF SeatsGood
<1>12. AwayGood(a, lost) /\ EnoughPlayers(a)
  BY <1>3, <1>9, <1>10 DEF RoomGood, AwayGood, EnoughPlayers
<1>13. Leaves(r, a, s)
  BY <1>1, <1>6, <1>9 DEF Leaves, RoomRecords
<1> QED
  BY <1>8, <1>9, <1>11, <1>12, <1>13 DEF RoomGood, a

\* leaveRoom, in a game that is played and otherwise.
LEMMA LeavingGood ==
    ASSUME NEW lost, NEW r, RoomGood(r, lost), NEW s \in Sockets,
           NEW a, a = IF r.socketToPlayer[s] # NoPlayer /\ r.gamePhase = "PLAYING"
                      THEN DetachPlayer(Eliminate(r, r.socketToPlayer[s]), s)
                      ELSE RemovePlayer(r, s)
    PROVE  /\ RoomGood(a, lost) /\ Leaves(r, a, s)
           /\ a.players \subseteq r.players
           /\ a.tokens \subseteq r.tokens \ {r.socketToPlayer[s]}
           /\ r.gamePhase = "LOBBY" => a.gamePhase = "LOBBY"
<1> DEFINE p == r.socketToPlayer[s]
<1>1. CASE p # NoPlayer /\ r.gamePhase = "PLAYING"
  <2> DEFINE e == Eliminate(r, p)
  <2>1. r \in RoomRecords /\ SeatsGood(r) /\ p \in Players
    BY <1>1 DEF RoomGood, RoomRecords
  <2>2. RoomGood(r, lost \cup {p})
    BY DEF RoomGood, AwayGood
  <2>3. /\ RoomGood(e, lost) /\ p \notin Active(e) /\ e.gamePhase # "LOBBY"
        /\ \A f \in {"players", "connected", "tokens", "spectators", "playerToSocket",
                     "socketToPlayer"} : e[f] = r[f]
    <3>1. r.gamePhase # "LOBBY"
      BY <1>1
    <3> HIDE DEF p
    <3>2. /\ RoomGood(Eliminate(r, p), lost)
          /\ p \notin Active(Eliminate(r, p)) /\ Eliminate(r, p).gamePhase # "LOBBY"
          /\ \A f \in {"players", "connected", "tokens", "spectators", "playerToSocket",
                       "socketToPlayer"} : Eliminate(r, p)[f] = r[f]
      BY <2>1, <2>2, <3>1, EliminateGood
    <3> QED
      BY <3>2, Zenon
  <2>4. a = DetachPlayer(e, s)
    BY <1>1
  <2> HIDE DEF e
  <2>5. /\ RoomGood(a, lost) /\ Leaves(e, a, s)
        /\ a.players = e.players /\ a.tokens = e.tokens \ {e.socketToPlayer[s]}
    BY <1>1, <2>3, <2>4, DetachPlayerGood
  <2> QED
    BY <1>1, <2>3, <2>5 DEF Leaves
<1>2. CASE ~(p # NoPlayer /\ r.gamePhase = "PLAYING")
  BY <1>2, RemovePlayerGood
<1> QED
  BY <1>1, <1>2

\* Losing the connection: in the lobby the player goes, else the seat is kept for a while.
LEMMA HandleDisconnectGood ==
    ASSUME NEW lost, NEW r, RoomGood(r, lost), NEW s \in Sockets
    PROVE  /\ RoomGood(HandleDisconnect(r, s), lost)
           /\ Leaves(r, HandleDisconnect(r, s), s)
           /\ HandleDisconnect(r, s).players \subseteq r.players
           /\ HandleDisconnect(r, s).tokens \subseteq r.tokens
           /\ HandleDisconnect(r, s).tokens \subseteq HandleDisconnect(r, s).players
           /\ HandleDisconnect(r, s).gamePhase = r.gamePhase
<1> DEFINE a == HandleDisconnect(r, s)
           p == r.socketToPlayer[s]
           pts == [r.playerToSocket EXCEPT ![p] = NoSocket]
           stp == [r.socketToPlayer EXCEPT ![s] = NoPlayer]
<1>1. r \in RoomRecords /\ SeatsGood(r) /\ r.tokens \subseteq r.players
  BY DEF RoomGood, SeatsGood, RoomShape, Humans
<1>2. p = NoPlayer \/ p \in r.players
  BY <1>1, SeatFacts
<1>3. CASE p \notin r.players
  BY <1>1, <1>2, <1>3, NobodyLeaves DEF HandleDisconnect
<1>4. CASE p \in r.players /\ r.gamePhase = "LOBBY" /\ ~r.countdown
  <2>1. a = RemovePlayer(r, s)
    BY <1>4 DEF HandleDisconnect
  <2>2. /\ RoomGood(a, lost) /\ Leaves(r, a, s) /\ a.gamePhase = r.gamePhase
        /\ a.players = r.players \ {p} /\ a.tokens = r.tokens \ {p}
    BY <2>1, RemovePlayerGood
  <2> QED
    BY <1>1, <2>2
<1>5. CASE p \in r.players /\ ~(r.gamePhase = "LOBBY" /\ ~r.countdown)
  <2>1. a = [r EXCEPT !.connected = r.connected \ {p}, !.timers = r.timers \cup {p},
                      !.playerToSocket = pts, !.socketToPlayer = stp]
    BY <1>1, <1>5 DEF HandleDisconnect, RoomRecords
  <2>2. p # NoPlayer
    BY <1>1, <1>5, PlayersAreFew DEF RoomRecords
  <2>3. /\ p \in Players /\ p \in r.connected /\ p \in r.tokens /\ p \notin r.bots
        /\ r.playerToSocket[p] = s
    BY <1>1, <2>2, SeatFacts DEF SeatsGood, RoomShape, RoomRecords
  <2>4. /\ pts \in [Players -> Sockets \cup {NoSocket}] /\ stp \in [Sockets -> Players \cup {NoPlayer}]
        /\ r.connected \ {p} \in SUBSET Players /\ r.timers \cup {p} \in SUBSET Players
    BY <1>1, <2>3 DEF RoomRecords
  <2>5. /\ \A q \in Players : pts[q] = IF q = p THEN NoSocket ELSE r.playerToSocket[q]
        /\ \A t \in Sockets : stp[t] = IF t = s THEN NoPlayer ELSE r.socketToPlayer[t]
    BY <1>1, <2>3 DEF RoomRecords
  <2> HIDE DEF pts, stp
  <2>6. a \in RoomRecords
    <3> HIDE DEF a, p
    <3> QED
      BY <1>1, <2>1, <2>4 DEF RoomRecords
  <2>7. /\ a.connected = r.connected \ {p} /\ a.timers = r.timers \cup {p}
        /\ a.playerToSocket = pts /\ a.socketToPlayer = stp
        /\ \A f \in {"players", "bots", "tokens", "dealt", "eliminated", "hostId", "spectators",
                     "gamePhase", "maxPlayers", "countdown", "leftInCountdown"} : a[f] = r[f]
    <3> HIDE DEF a, p
    <3> QED
      BY <1>1, <2>1 DEF RoomRecords
  <2> HIDE DEF a
  <2>8. Away(a) = Away(r) \cup {p} /\ Active(a) = Active(r) /\ Humans(a) = Humans(r)
    <3> HIDE DEF p
    <3> QED
      BY <1>5, <2>3, <2>7 DEF Away, Humans, Active
  <2>9. SeatsGood(a)
    <3> HIDE DEF p
    <3>1. \A q \in Players : a.playerToSocket[q] # NoSocket <=> q \in a.connected
      BY <1>1, <2>5, <2>7 DEF SeatsGood, RoomShape
    <3>2. RoomShape(a)
      BY <1>1, <2>3, <2>7, <2>8, <3>1 DEF SeatsGood, RoomShape
    <3>3. \A t \in Sockets : a.socketToPlayer[t] # NoPlayer =>
            a.playerToSocket[a.socketToPlayer[t]] = t
      BY <1>1, <2>3, <2>5, <2>7, SeatFacts
    <3> QED
      BY <1>1, <1>5, <2>3, <2>7, <2>8, <3>2, <3>3 DEF SeatsGood
  <2>10. AwayGood(a, lost) /\ EnoughPlayers(a)
    BY <2>7, <2>8 DEF RoomGood, AwayGood, EnoughPlayers
  <2>11. Leaves(r, a, s)
    BY <1>1, <2>5, <2>7 DEF Leaves, RoomRecords
  <2> QED
    BY <1>1, <2>6, <2>7, <2>9, <2>10, <2>11 DEF RoomGood, a
<1> QED
  BY <1>3, <1>4, <1>5

\* Coming back on another socket, which takes the player from the one he had.
LEMMA ReseatGood ==
    ASSUME NEW lost, NEW r, RoomGood(r, lost), NEW p \in r.tokens, NEW s \in Sockets
    PROVE  /\ RoomGood(Reseat(r, p, s), lost)
           /\ Reseat(r, p, s).connected = r.connected \cup {p}
           /\ \A q \in Players : Reseat(r, p, s).playerToSocket[q] =
                IF q = p THEN s ELSE r.playerToSocket[q]
           /\ \A t \in Sockets : Reseat(r, p, s).socketToPlayer[t] =
                IF t = s THEN p ELSE IF t = r.playerToSocket[p] THEN NoPlayer
                ELSE r.socketToPlayer[t]
           /\ \A f \in {"players", "tokens", "spectators", "gamePhase"} : Reseat(r, p, s)[f] = r[f]
<1> DEFINE a == Reseat(r, p, s)
           old == r.playerToSocket[p]
           pts == [r.playerToSocket EXCEPT ![p] = s]
           vacated == [t \in Sockets |-> IF t = old THEN NoPlayer ELSE r.socketToPlayer[t]]
           stp == [vacated EXCEPT ![s] = p]
<1>1. r \in RoomRecords /\ SeatsGood(r)
  BY DEF RoomGood
<1>2. p \in Players /\ p \in Humans(r)
  BY <1>1 DEF RoomRecords, SeatsGood, RoomShape
<1>3. a = [r EXCEPT !.connected = r.connected \cup {p}, !.timers = r.timers \ {p},
                    !.playerToSocket = pts, !.socketToPlayer = stp]
  BY <1>1 DEF Reseat, RoomRecords
<1>4. /\ \A q \in Players : pts[q] = IF q = p THEN s ELSE r.playerToSocket[q]
      /\ \A t \in Sockets : stp[t] = IF t = s THEN p ELSE IF t = old THEN NoPlayer
                                     ELSE r.socketToPlayer[t]
  BY <1>1, <1>2 DEF RoomRecords
<1>5. /\ pts \in [Players -> Sockets \cup {NoSocket}] /\ stp \in [Sockets -> Players \cup {NoPlayer}]
      /\ r.connected \cup {p} \in SUBSET Players /\ r.timers \ {p} \in SUBSET Players
  BY <1>1, <1>2 DEF RoomRecords
<1> HIDE DEF pts, vacated, stp
<1>6. a \in RoomRecords
  <2> HIDE DEF a
  <2> QED
    BY <1>1, <1>3, <1>5 DEF RoomRecords
<1>7. /\ a.connected = r.connected \cup {p} /\ a.timers = r.timers \ {p}
      /\ a.playerToSocket = pts /\ a.socketToPlayer = stp
      /\ \A f \in {"players", "bots", "tokens", "dealt", "eliminated", "hostId", "spectators",
                   "gamePhase", "maxPlayers", "countdown", "leftInCountdown"} : a[f] = r[f]
  <2> HIDE DEF a
  <2> QED
    BY <1>1, <1>3 DEF RoomRecords
<1> HIDE DEF a
<1>8. Away(a) = Away(r) \ {p} /\ Active(a) = Active(r) /\ Humans(a) = Humans(r)
  BY <1>7 DEF Away, Humans, Active
<1>9. SeatsGood(a)
  <2>1. \A q \in Players : a.playerToSocket[q] # NoSocket <=> q \in a.connected
    BY <1>1, <1>4, <1>7, LobbyAssumption DEF SeatsGood, RoomShape
  <2>2. RoomShape(a)
    BY <1>1, <1>2, <1>7, <1>8, <2>1 DEF SeatsGood, RoomShape
  <2>3. \A t \in Sockets : a.socketToPlayer[t] # NoPlayer =>
          a.playerToSocket[a.socketToPlayer[t]] = t
    <3> SUFFICES ASSUME NEW t \in Sockets, stp[t] # NoPlayer PROVE pts[stp[t]] = t
      BY <1>7
    <3>1. CASE t = s
      BY <1>2, <1>4, <3>1
    <3>2. CASE t # s
      <4>1. t # old /\ stp[t] = r.socketToPlayer[t] /\ r.socketToPlayer[t] # NoPlayer
        BY <1>4, <3>2
      <4>2. r.socketToPlayer[t] \in Players /\ r.playerToSocket[r.socketToPlayer[t]] = t
        BY <1>1, <4>1, SeatFacts
      <4> QED
        BY <1>4, <4>1, <4>2
    <3> QED
      BY <3>1, <3>2
  <2> QED
    BY <1>1, <1>7, <1>8, <2>2, <2>3 DEF SeatsGood
<1>10. AwayGood(a, lost) /\ EnoughPlayers(a)
  BY <1>7, <1>8 DEF RoomGood, AwayGood, EnoughPlayers
<1> QED
  BY <1>4, <1>6, <1>7, <1>9, <1>10 DEF RoomGood, a

\* A change that concerns no connection: the sockets and their players stay.
Quietly(r, a) ==
    \A f \in {"connected", "spectators", "playerToSocket", "socketToPlayer"} : a[f] = r[f]

LEMMA StartGameGood ==
    ASSUME NEW lost, NEW r \in RoomRecords, SeatsGood(r), Away(r) \subseteq r.timers \cup lost
    PROVE  /\ RoomGood(StartGame(r), lost) /\ Quietly(r, StartGame(r))
           /\ StartGame(r).players = r.players /\ StartGame(r).tokens = r.tokens
           /\ StartGame(r).dealt = r.players \ r.eliminated
<1> DEFINE a == StartGame(r)
<1>1. a = [r EXCEPT !.gamePhase = "PLAYING", !.dealt = r.players \ r.eliminated,
                    !.countdown = FALSE, !.leftInCountdown = FALSE, !.maxPlayers = MostSeats]
  BY DEF StartGame
<1>2. MostSeats \in SeatChoices /\ r.players \ r.eliminated \in SUBSET Players
      /\ "PLAYING" \in LobbyPhases
  BY MostSeatsIsAChoice DEF RoomRecords, LobbyPhases
<1> HIDE DEF a
<1>3. a \in RoomRecords
  BY <1>1, <1>2 DEF RoomRecords
<1>4. /\ a.gamePhase = "PLAYING" /\ a.dealt = r.players \ r.eliminated
      /\ a.countdown = FALSE /\ a.leftInCountdown = FALSE
      /\ \A f \in {"players", "bots", "connected", "tokens", "timers", "eliminated", "hostId",
                   "playerToSocket", "socketToPlayer", "spectators"} : a[f] = r[f]
  BY <1>1 DEF RoomRecords
<1>5. Away(a) = Away(r) /\ Humans(a) = Humans(r)
  BY <1>4 DEF Away, Humans
<1>6. SeatsGood(a) /\ AwayGood(a, lost) /\ EnoughPlayers(a)
  BY <1>4, <1>5 DEF SeatsGood, RoomShape, AwayGood, EnoughPlayers
<1> QED
  BY <1>3, <1>4, <1>6 DEF RoomGood, Quietly, a

\* A rematch leaves out who is away, so it starts with nobody away.
LEMMA RematchGood ==
    ASSUME NEW lost, NEW r, RoomGood(r, lost), r.gamePhase = "GAME_OVER"
    PROVE  /\ RoomGood(ResetForRematch(r), lost) /\ Quietly(r, ResetForRematch(r))
           /\ ResetForRematch(r).players \subseteq r.players
           /\ ResetForRematch(r).tokens \subseteq r.tokens
<1> DEFINE stay == r.players \ Away(r)
           heirs == IF stay \subseteq r.bots THEN stay ELSE stay \ r.bots
           host == IF r.hostId \notin stay /\ stay # {} THEN Oldest(heirs) ELSE r.hostId
           a == [r EXCEPT !.eliminated = {}, !.players = stay, !.tokens = r.tokens \cap stay,
                          !.timers = r.timers \cap stay, !.hostId = host]
<1>1. r \in RoomRecords /\ SeatsGood(r)
  BY DEF RoomGood
<1>2. ResetForRematch(r) = StartGame(a)
  BY <1>1 DEF ResetForRematch, RoomRecords
<1>3. stay \subseteq r.players /\ stay \subseteq Players /\ r.bots \subseteq stay /\ r.connected \subseteq stay
  BY <1>1, SeatFacts DEF Away, Humans, RoomRecords
<1>4. stay # {} => Oldest(heirs) \in stay
  <2>1. stay # {} => heirs # {} /\ heirs \subseteq stay
    OBVIOUS
  <2> HIDE DEF heirs, stay
  <2> QED
    BY <1>3, <2>1, OldestIsOne
<1>5. /\ host \in Players \cup {NoPlayer} /\ stay \in SUBSET Players
      /\ r.tokens \cap stay \in SUBSET Players /\ r.timers \cap stay \in SUBSET Players
      /\ stay # {} => host \in stay
  BY <1>1, <1>3, <1>4 DEF RoomRecords
<1> HIDE DEF stay, heirs, host
<1>6. a \in RoomRecords
  BY <1>1, <1>5 DEF RoomRecords
<1>7. /\ a.eliminated = {} /\ a.players = stay /\ a.tokens = r.tokens \cap stay
      /\ a.timers = r.timers \cap stay /\ a.hostId = host
      /\ \A f \in {"bots", "connected", "dealt", "playerToSocket", "socketToPlayer",
                   "spectators", "gamePhase", "countdown"} : a[f] = r[f]
  BY <1>1 DEF RoomRecords
<1> HIDE DEF a
<1>8. Away(a) = {} /\ Humans(a) = stay \ r.bots /\ Away(r) \cap stay = {}
  BY <1>1, <1>7 DEF Away, Humans, stay
<1>9. r.timers \cap stay = {}
  BY <1>1, <1>8 DEF SeatsGood, RoomShape
<1>10. SeatsGood(a)
  <2>1. RoomShape(a)
    BY <1>1, <1>3, <1>7, <1>8, <1>9 DEF SeatsGood, RoomShape, Humans
  <2> QED
    BY <1>1, <1>5, <1>7, <1>9, <2>1 DEF SeatsGood
<1>11. RoomGood(StartGame(a), lost) /\ Quietly(a, StartGame(a))
       /\ StartGame(a).players = a.players /\ StartGame(a).tokens = a.tokens
  BY <1>6, <1>8, <1>10, StartGameGood
<1> QED
  BY <1>2, <1>3, <1>7, <1>11 DEF Quietly

\* The disconnect timer's callback: it puts the player out unless it looks for the room in
\* vain, which happens only to those whose mapping a kick has removed.
LEMMA TimerFires ==
    ASSUME NEW lost, NEW r, RoomGood(r, lost), NEW p \in r.timers, ~r.countdown,
           NEW found \in BOOLEAN, found \/ p \in lost,
           NEW a, a = LET q == [r EXCEPT !.timers = @ \ {p}]
                      IN  IF found /\ q.gamePhase # "LOBBY" THEN Eliminate(q, p) ELSE q
    PROVE  /\ RoomGood(a, lost) /\ Quietly(r, a) /\ r.gamePhase # "LOBBY"
           /\ a.players = r.players /\ a.tokens = r.tokens
<1> DEFINE q == [r EXCEPT !.timers = r.timers \ {p}]
<1>1. r \in RoomRecords /\ SeatsGood(r) /\ p \in Players
  BY DEF RoomGood, RoomRecords
<1>2. r.gamePhase # "LOBBY"
  BY <1>1 DEF SeatsGood, RoomShape
<1>3. r.timers \ {p} \in SUBSET Players
  BY <1>1 DEF RoomRecords
<1>4. /\ q \in RoomRecords /\ q.timers = r.timers \ {p}
      /\ \A f \in {"players", "bots", "connected", "tokens", "dealt", "eliminated", "hostId",
                   "playerToSocket", "socketToPlayer", "spectators", "gamePhase", "countdown",
                   "leftInCountdown"} : q[f] = r[f]
  BY <1>1, <1>3 DEF RoomRecords
<1>5. a = IF found THEN Eliminate(q, p) ELSE q
  BY <1>1, <1>2, <1>4 DEF RoomRecords
<1> HIDE DEF q
<1>6. Away(q) = Away(r) /\ Active(q) = Active(r) /\ Humans(q) = Humans(r)
  BY <1>4 DEF Away, Active, Humans
<1>7. SeatsGood(q) /\ EnoughPlayers(q)
  BY <1>1, <1>4, <1>6 DEF RoomGood, SeatsGood, RoomShape, EnoughPlayers
<1>8. AwayGood(q, lost \cup {p})
  BY <1>4, <1>6 DEF RoomGood, AwayGood
<1>9. CASE found
  <2>1. RoomGood(q, lost \cup {p}) /\ q.gamePhase # "LOBBY"
    BY <1>2, <1>4, <1>7, <1>8 DEF RoomGood
  <2>2. /\ RoomGood(Eliminate(q, p), lost)
        /\ \A f \in {"players", "connected", "tokens", "spectators", "playerToSocket",
                     "socketToPlayer"} : Eliminate(q, p)[f] = q[f]
    BY <1>1, <2>1, EliminateGood
  <2>3. a = Eliminate(q, p)
    BY <1>5, <1>9
  <2> QED
    BY <1>2, <1>4, <2>2, <2>3 DEF Quietly
<1>10. CASE ~found
  <2>1. lost \cup {p} = lost
    BY <1>10
  <2>2. RoomGood(q, lost)
    BY <1>4, <1>7, <1>8, <2>1 DEF RoomGood
  <2> QED
    BY <1>2, <1>4, <1>5, <1>10, <2>2 DEF Quietly
<1> QED
  BY <1>9, <1>10

\* What the host does to a lobby: the limit on players, a bot more or less, the start.
LEMMA SettingsGood ==
    ASSUME NEW lost, NEW r, RoomGood(r, lost), NEW n \in SeatChoices,
           NEW a, a = [r EXCEPT !.maxPlayers = n]
    PROVE  /\ RoomGood(a, lost) /\ Quietly(r, a)
           /\ \A f \in {"players", "tokens", "gamePhase"} : a[f] = r[f]
<1>1. r \in RoomRecords /\ SeatsGood(r)
  BY DEF RoomGood
<1>2. /\ a \in RoomRecords
      /\ \A f \in {"players", "bots", "connected", "tokens", "timers", "dealt", "eliminated",
                   "hostId", "playerToSocket", "socketToPlayer", "spectators", "gamePhase",
                   "countdown", "leftInCountdown"} : a[f] = r[f]
  BY <1>1 DEF RoomRecords
<1>3. Away(a) = Away(r) /\ Active(a) = Active(r) /\ Humans(a) = Humans(r)
  BY <1>2 DEF Away, Active, Humans
<1>4. SeatsGood(a) /\ EnoughPlayers(a) /\ AwayGood(a, lost)
  BY <1>1, <1>2, <1>3 DEF RoomGood, SeatsGood, RoomShape, EnoughPlayers, AwayGood
<1> QED
  BY <1>2, <1>4 DEF RoomGood, Quietly

WithBot(r, b) == [r EXCEPT !.players = @ \cup {b}, !.bots = @ \cup {b}]

LEMMA BotAddedGood ==
    ASSUME NEW lost, NEW r, RoomGood(r, lost), NEW b \in Players, b \notin r.players,
           r.hostId \in r.players
    PROVE  /\ RoomGood(WithBot(r, b), lost) /\ Quietly(r, WithBot(r, b))
           /\ WithBot(r, b).players = r.players \cup {b} /\ WithBot(r, b).tokens = r.tokens
           /\ WithBot(r, b).gamePhase = r.gamePhase
<1> DEFINE a == WithBot(r, b)
<1>1. r \in RoomRecords /\ SeatsGood(r)
  BY DEF RoomGood
<1>2. r.players \cup {b} \in SUBSET Players /\ r.bots \cup {b} \in SUBSET Players
  BY <1>1 DEF RoomRecords
<1>3. a = [r EXCEPT !.players = r.players \cup {b}, !.bots = r.bots \cup {b}]
  BY <1>1 DEF RoomRecords, WithBot
<1> HIDE DEF a
<1>4. /\ a \in RoomRecords /\ a.players = r.players \cup {b} /\ a.bots = r.bots \cup {b}
      /\ \A f \in {"connected", "tokens", "timers", "dealt", "eliminated",
                   "hostId", "playerToSocket", "socketToPlayer", "spectators", "gamePhase",
                   "countdown", "leftInCountdown"} : a[f] = r[f]
  BY <1>1, <1>2, <1>3 DEF RoomRecords
<1>5. Away(a) = Away(r) /\ Active(a) = Active(r) /\ Humans(a) = Humans(r)
  BY <1>1, <1>4, SeatFacts DEF Away, Active, Humans
<1>6. SeatsGood(a) /\ AwayGood(a, lost)
  <2>1. RoomShape(a) /\ a.timers \subseteq a.tokens
    BY <1>1, <1>4, <1>5 DEF SeatsGood, RoomShape
  <2>2. SeatsGood(a)
    BY <1>1, <1>4, <1>5, <2>1 DEF SeatsGood
  <2>3. AwayGood(a, lost)
    BY <1>4, <1>5 DEF RoomGood, AwayGood
  <2> QED
    BY <2>2, <2>3
<1>7. Cardinality(a.players) = Cardinality(r.players) + 1 /\ Cardinality(r.players) \in Nat
  <2>1. r.players \in SUBSET Players /\ b \notin r.players
    BY <1>1 DEF RoomRecords
  <2>2. IsFiniteSet(r.players) /\ Cardinality(r.players) \in Nat
    BY <2>1, PlayersAreFew
  <2>3. Cardinality(r.players \cup {b}) = Cardinality(r.players) + 1
    <3>1. Cardinality(r.players \cup {b})
            = IF b \in r.players THEN Cardinality(r.players) ELSE Cardinality(r.players) + 1
      BY <2>2, FS_AddElement, Zenon
    <3> QED
      BY <2>1, <3>1
  <2> QED
    BY <1>4, <2>2, <2>3
<1>8. EnoughPlayers(a)
  BY <1>4, <1>7 DEF RoomGood, EnoughPlayers
<1> QED
  BY <1>4, <1>6, <1>8 DEF RoomGood, Quietly, a

LEMMA BotRemovedGood ==
    ASSUME NEW lost, NEW r, RoomGood(r, lost), NEW b \in r.bots, b # r.hostId
    PROVE  /\ RoomGood(WithoutBot(r, b), lost) /\ Quietly(r, WithoutBot(r, b))
           /\ WithoutBot(r, b).players = r.players \ {b} /\ WithoutBot(r, b).tokens = r.tokens
           /\ WithoutBot(r, b).gamePhase = r.gamePhase
<1> DEFINE a == WithoutBot(r, b)
           left == r.leftInCountdown \/ r.countdown
<1>1. r \in RoomRecords /\ SeatsGood(r)
  BY DEF RoomGood
<1>2. r.players \ {b} \in SUBSET Players /\ r.bots \ {b} \in SUBSET Players /\ left \in BOOLEAN
  BY <1>1 DEF RoomRecords
<1>3. a = [r EXCEPT !.players = r.players \ {b}, !.bots = r.bots \ {b}, !.leftInCountdown = left]
  BY <1>1 DEF RoomRecords, WithoutBot
<1> HIDE DEF left, a
<1>4. /\ a \in RoomRecords /\ a.players = r.players \ {b} /\ a.bots = r.bots \ {b}
      /\ a.leftInCountdown = left
      /\ \A f \in {"connected", "tokens", "timers", "dealt", "eliminated",
                   "hostId", "playerToSocket", "socketToPlayer", "spectators", "gamePhase",
                   "countdown"} : a[f] = r[f]
  BY <1>1, <1>2, <1>3 DEF RoomRecords
<1>5. Away(a) = Away(r) /\ Active(a) = Active(r) /\ Humans(a) = Humans(r)
  BY <1>4 DEF Away, Active, Humans
<1>6. SeatsGood(a) /\ AwayGood(a, lost)
  BY <1>1, <1>4, <1>5 DEF RoomGood, SeatsGood, RoomShape, AwayGood
<1>7. EnoughPlayers(a)
  BY <1>4 DEF EnoughPlayers, left
<1> QED
  BY <1>4, <1>6, <1>7 DEF RoomGood, Quietly, a

LEMMA CountdownGood ==
    ASSUME NEW lost, NEW r, RoomGood(r, lost), r.gamePhase = "LOBBY", Cardinality(r.players) >= 2,
           NEW a, a = [r EXCEPT !.countdown = TRUE]
    PROVE  /\ RoomGood(a, lost) /\ Quietly(r, a)
           /\ \A f \in {"players", "tokens", "gamePhase"} : a[f] = r[f]
<1>1. r \in RoomRecords /\ SeatsGood(r)
  BY DEF RoomGood
<1>2. /\ a \in RoomRecords /\ a.countdown = TRUE
      /\ \A f \in {"players", "bots", "connected", "tokens", "timers", "dealt", "eliminated",
                   "hostId", "playerToSocket", "socketToPlayer", "spectators", "gamePhase",
                   "leftInCountdown"} : a[f] = r[f]
  BY <1>1 DEF RoomRecords
<1>3. Away(a) = Away(r) /\ Active(a) = Active(r) /\ Humans(a) = Humans(r)
  BY <1>2 DEF Away, Active, Humans
<1>4. SeatsGood(a)
  <2>1. RoomShape(a) /\ a.timers \subseteq a.tokens
    BY <1>1, <1>2, <1>3 DEF SeatsGood, RoomShape
  <2> QED
    BY <1>1, <1>2, <1>3, <2>1 DEF SeatsGood
<1>5. EnoughPlayers(a) /\ AwayGood(a, lost)
  BY <1>2, <1>3 DEF RoomGood, EnoughPlayers, AwayGood
<1> QED
  BY <1>2, <1>4, <1>5 DEF RoomGood, Quietly

\* Spectators come and go; there are none in a lobby.
LEMMA SpectatorsGood ==
    ASSUME NEW lost, NEW r, RoomGood(r, lost), NEW S \in SUBSET Sockets,
           S \subseteq r.spectators \/ r.gamePhase # "LOBBY",
           NEW a, a = [r EXCEPT !.spectators = S]
    PROVE  /\ RoomGood(a, lost) /\ a.spectators = S
           /\ \A f \in {"players", "tokens", "connected", "playerToSocket", "socketToPlayer",
                        "gamePhase"} : a[f] = r[f]
<1>1. r \in RoomRecords /\ SeatsGood(r)
  BY DEF RoomGood
<1>2. /\ a \in RoomRecords /\ a.spectators = S
      /\ \A f \in {"players", "bots", "connected", "tokens", "timers", "dealt", "eliminated",
                   "hostId", "playerToSocket", "socketToPlayer", "gamePhase",
                   "countdown", "leftInCountdown"} : a[f] = r[f]
  BY <1>1 DEF RoomRecords
<1>3. Away(a) = Away(r) /\ Active(a) = Active(r) /\ Humans(a) = Humans(r)
  BY <1>2 DEF Away, Active, Humans
<1>4. SeatsGood(a) /\ EnoughPlayers(a) /\ AwayGood(a, lost)
  BY <1>1, <1>2, <1>3 DEF RoomGood, SeatsGood, RoomShape, EnoughPlayers, AwayGood
<1> QED
  BY <1>2, <1>4 DEF RoomGood

-----------------------------------------------------------------------------
(* The invariant: all rooms, and the registry.                             *)

\* Shapes.  Codes that were not drawn yet are in no index and no request.
Shapes ==
    /\ created \in 0 .. MaxRooms /\ rooms \subseteq 1 .. created
    /\ socketToRoom \in [Sockets -> 1 .. created \cup {NoRoom}]
    /\ roomToSockets \in [RoomCodes -> SUBSET Sockets]
    /\ \A c \in RoomCodes : c > created => roomToSockets[c] = {}
    /\ playerToRoom \in [Players -> RoomCodes \cup {NoRoom}]
    /\ sockets \subseteq Sockets /\ doubled \subseteq Sockets
    /\ requests \subseteq [socket : Accounts, room : 1 .. created \cup {NoRoom}]
    /\ ids \in 0 .. MaxIds
    /\ ghosts \subseteq Players /\ unmapped \subseteq Players

\* The rooms: each is good, a player is in one of them only, and whoever may come back
\* is found by his room's code.
Lists ==
    /\ room \in [RoomCodes -> RoomRecords]
    /\ \A c \in RoomCodes : RoomGood(room[c], unmapped) /\ room[c].players \subseteq 1 .. ids
    /\ \A c, d \in RoomCodes : c # d => room[c].players \cap room[d].players = {}
    /\ \A c \in RoomCodes \ rooms : room[c] = EmptyRoom
    /\ \A c \in rooms : \A p \in room[c].tokens \ unmapped : playerToRoom[p] = c

\* Whom nobody can reach was seated twice, or sits on a socket that is gone.
Seated ==
    \A c \in rooms : \A p \in room[c].connected :
       \/ Reachable(c, p)
       \/ room[c].playerToSocket[p] \in doubled
       \/ p \in ghosts /\ room[c].playerToSocket[p] \notin sockets

KnownThere ==
    \A s \in Sockets \ doubled : InRoom(s) =>
       /\ s \in roomToSockets[socketToRoom[s]]
       /\ s \in RoomFor(s).spectators \/ RoomFor(s).socketToPlayer[s] # NoPlayer

MappedBack == \A c \in rooms : \A s \in roomToSockets[c] \ doubled : socketToRoom[s] = c

\* Whoever watches a room has no seat in it.
Watching ==
    \A c \in rooms : \A s \in room[c].spectators \ doubled :
       s \in sockets /\ socketToRoom[s] = c /\ room[c].socketToPlayer[s] = NoPlayer

Indexes == Seated /\ KnownThere /\ MappedBack /\ Watching

LobbyInv == Shapes /\ Lists /\ Indexes

\* What StartsWithTwo says of a step.
StartsFull ==
    \A c \in rooms \cap rooms' :
       room[c].gamePhase = "LOBBY" /\ room'[c].gamePhase = "PLAYING" =>
         Cardinality(room'[c].dealt) >= 2 \/ room[c].leftInCountdown

-----------------------------------------------------------------------------
(* The lists, whatever is done to one room.                                *)

LEMMA CodesAreNumbers ==
    ASSUME Shapes
    PROVE  /\ created \in Nat /\ rooms \subseteq RoomCodes /\ 1 .. created \subseteq RoomCodes
           /\ NoRoom \notin RoomCodes /\ NoRoom \notin rooms
           /\ created < MaxRooms => created + 1 \in RoomCodes \ rooms
           /\ ids \in Nat /\ 1 .. ids \subseteq Players
           /\ ids < MaxIds => ids + 1 \in Players /\ ids + 1 \notin 1 .. ids
<1>1. /\ created \in Nat /\ created <= MaxRooms /\ MaxRooms \in Nat /\ rooms \subseteq 1 .. created
      /\ ids \in Nat /\ ids <= MaxIds /\ MaxIds \in Nat /\ NoRoom \notin 1 .. MaxRooms
  BY LobbyAssumption DEF Shapes
<1>2. 1 .. created \subseteq RoomCodes /\ rooms \subseteq RoomCodes
  BY <1>1 DEF RoomCodes
<1>3. NoRoom \notin RoomCodes /\ NoRoom \notin rooms
  BY <1>1, <1>2 DEF RoomCodes
<1>4. created < MaxRooms => created + 1 \in RoomCodes \ rooms
  BY <1>1 DEF RoomCodes
<1>5. 1 .. ids \subseteq Players /\ (ids < MaxIds => ids + 1 \in Players /\ ids + 1 \notin 1 .. ids)
  BY <1>1 DEF Players
<1> QED
  BY <1>1, <1>2, <1>3, <1>4, <1>5

\* The more have lost their mapping, the less is promised.
LEMMA LostGrow ==
    ASSUME NEW r, NEW lost, NEW more, lost \subseteq more, RoomGood(r, lost)
    PROVE  RoomGood(r, more)
BY DEF RoomGood, AwayGood

\* One room changes, or is new; whoever is in it and was not is fresh.
LEMMA ListsFollow ==
    ASSUME Shapes, Lists, NEW c \in RoomCodes, NEW r, RoomGood(r, unmapped'),
           room' = [room EXCEPT ![c] = r], rooms' = rooms \cup {c},
           unmapped \subseteq unmapped', ids' \in Nat, ids <= ids',
           r.players \subseteq room[c].players \cup ((ids + 1) .. ids'),
           \A p \in r.tokens \ unmapped' : playerToRoom'[p] = c,
           \A p \in 1 .. ids : p \notin room[c].players => playerToRoom'[p] = playerToRoom[p]
    PROVE  Lists'
<1>1. ids \in Nat
  BY CodesAreNumbers
<1>2. r \in RoomRecords
  BY DEF RoomGood
<1>3. room'[c] = r /\ \A d \in RoomCodes : d # c => room'[d] = room[d]
  BY DEF Lists
<1>4. room' \in [RoomCodes -> RoomRecords]
  BY <1>2 DEF Lists
<1>5. \A d \in RoomCodes : RoomGood(room'[d], unmapped')
  BY <1>3, LostGrow DEF Lists
<1>6. \A d \in RoomCodes : room'[d].players \subseteq 1 .. ids'
  BY <1>1, <1>3 DEF Lists
<1>7. \A d \in RoomCodes : d # c => room'[d].players \cap r.players = {}
  BY <1>1, <1>3 DEF Lists
<1>8. \A d, e \in RoomCodes : d # e => room'[d].players \cap room'[e].players = {}
  BY <1>3, <1>7 DEF Lists
<1>9. \A d \in RoomCodes \ rooms' : room'[d] = EmptyRoom
  BY <1>3 DEF Lists
<1>10. \A d \in rooms' : \A p \in room'[d].tokens \ unmapped' : playerToRoom'[p] = d
  <2> SUFFICES ASSUME NEW d \in rooms, d # c, NEW p \in room[d].tokens \ unmapped
               PROVE  playerToRoom'[p] = d
    BY <1>3, CodesAreNumbers
  <2>1. d \in RoomCodes
    BY CodesAreNumbers
  <2>2. p \in room[d].players
    BY <2>1 DEF Lists, RoomGood, SeatsGood, RoomShape, Humans
  <2>3. p \in 1 .. ids /\ p \notin room[c].players
    BY <2>1, <2>2 DEF Lists
  <2> QED
    BY <2>3 DEF Lists
<1> QED
  BY <1>4, <1>5, <1>6, <1>8, <1>9, <1>10 DEF Lists

\* One room is closed.
LEMMA ListsClose ==
    ASSUME Shapes, Lists, NEW c \in rooms,
           room' = [room EXCEPT ![c] = EmptyRoom], rooms' = rooms \ {c},
           UNCHANGED <<unmapped, ids>>,
           \A p \in 1 .. ids : p \notin room[c].players => playerToRoom'[p] = playerToRoom[p]
    PROVE  Lists'
<1>1. c \in RoomCodes /\ rooms \subseteq RoomCodes
  BY CodesAreNumbers
<1>2. RoomGood(EmptyRoom, unmapped) /\ EmptyRoom \in RoomRecords
  BY EmptyRoomGood DEF RoomGood
<1>3. EmptyRoom.players = {} /\ EmptyRoom.tokens = {}
  BY DEF EmptyRoom
<1>4. room'[c] = EmptyRoom /\ \A d \in RoomCodes : d # c => room'[d] = room[d]
  BY <1>1 DEF Lists
<1>5. room' \in [RoomCodes -> RoomRecords]
  BY <1>2 DEF Lists
<1>6. \A d \in RoomCodes : RoomGood(room'[d], unmapped) /\ room'[d].players \subseteq 1 .. ids
  BY <1>2, <1>3, <1>4 DEF Lists
<1>7. \A d, e \in RoomCodes : d # e => room'[d].players \cap room'[e].players = {}
  BY <1>3, <1>4 DEF Lists
<1>8. \A d \in RoomCodes \ rooms' : room'[d] = EmptyRoom
  BY <1>4 DEF Lists
<1>9. \A d \in rooms' : \A p \in room'[d].tokens \ unmapped : playerToRoom'[p] = d
  <2> SUFFICES ASSUME NEW d \in rooms, d # c, NEW p \in room[d].tokens \ unmapped
               PROVE  playerToRoom'[p] = d
    BY <1>1, <1>4
  <2>1. p \in room[d].players
    BY <1>1 DEF Lists, RoomGood, SeatsGood, RoomShape, Humans
  <2>2. p \in 1 .. ids /\ p \notin room[c].players
    BY <1>1, <2>1 DEF Lists
  <2> QED
    BY <2>2 DEF Lists
<1> QED
  BY <1>5, <1>6, <1>7, <1>8, <1>9 DEF Lists

-----------------------------------------------------------------------------
(* The indexes, whatever is done to one room and its sockets.              *)

\* A change that concerns no connection.
LEMMA IndexesRest ==
    ASSUME Shapes, Lists, Indexes, NEW c \in rooms, NEW r, Quietly(room[c], r),
           room' = [room EXCEPT ![c] = r],
           UNCHANGED <<rooms, socketToRoom, roomToSockets, sockets, doubled, ghosts>>
    PROVE  Indexes'
<1>1. c \in RoomCodes /\ rooms \subseteq RoomCodes
  BY CodesAreNumbers
<1>2. \A d \in rooms : \A f \in {"connected", "spectators", "playerToSocket", "socketToPlayer"} :
        room'[d][f] = room[d][f]
  BY <1>1 DEF Lists, Quietly
<1>3. /\ \A d \in rooms : room'[d].connected = room[d].connected
      /\ \A d \in rooms : room'[d].spectators = room[d].spectators
      /\ \A d \in rooms : room'[d].playerToSocket = room[d].playerToSocket
      /\ \A d \in rooms : room'[d].socketToPlayer = room[d].socketToPlayer
  BY <1>2
<1>4. Seated'
  BY <1>3 DEF Indexes, Seated, Reachable
<1>5. KnownThere' /\ MappedBack' /\ Watching'
  BY <1>3 DEF Indexes, KnownThere, MappedBack, Watching, InRoom, RoomFor
<1> QED
  BY <1>4, <1>5 DEF Indexes

\* The connections of a are those of r without socket s.  Whom s leads to goes with it,
\* unless s was seated twice.
Frees(r, a, s) ==
    /\ a.spectators = r.spectators \ {s}
    /\ \A q \in a.connected : /\ q \in r.connected
                              /\ a.playerToSocket[q] = r.playerToSocket[q]
                              /\ r.socketToPlayer[s] = q => s \in doubled
    /\ \A t \in Sockets \ {s} : a.socketToPlayer[t] = r.socketToPlayer[t]

\* Socket s leaves room c, whether it led to a player or watched.  In another room it
\* counts as seated twice, or it is gone.
LEMMA IndexesWithout ==
    ASSUME Shapes, Lists, Indexes, NEW c \in rooms, NEW s \in Sockets,
           socketToRoom[s] = c \/ s \in doubled \/ s \notin sockets,
           NEW r, room' = [room EXCEPT ![c] = r], Frees(room[c], r, s),
           socketToRoom' = Unmapped({s}), roomToSockets' = SocketsWithout({s}),
           sockets' = sockets \/ (sockets' = sockets \ {s} /\ socketToRoom[s] = c),
           UNCHANGED <<rooms, doubled, ghosts>>
    PROVE  Indexes'
<1>1. c \in RoomCodes /\ rooms \subseteq RoomCodes /\ NoRoom \notin rooms
  BY CodesAreNumbers
<1>2. room'[c] = r /\ \A d \in rooms : d # c => room'[d] = room[d]
  BY <1>1 DEF Lists
<1>3. \A t \in Sockets : socketToRoom'[t] = IF t = s THEN NoRoom ELSE socketToRoom[t]
  BY DEF Unmapped
<1>4. \A d \in rooms : roomToSockets'[d] =
        roomToSockets[d] \ (IF socketToRoom[s] = d THEN {s} ELSE {})
  BY <1>1 DEF SocketsWithout
<1>5. \A d \in rooms : \A q \in room[d].connected : room[d].playerToSocket[q] \in Sockets
  BY <1>1, SeatFacts DEF Lists, RoomGood
<1>6. sockets \ {s} \subseteq sockets' /\ sockets' \subseteq sockets
  OBVIOUS
<1> USE DEF Frees
<1>7. Seated'
  <2> SUFFICES ASSUME NEW d \in rooms, NEW q \in room'[d].connected
               PROVE  \/ Reachable(d, q)'
                      \/ room'[d].playerToSocket[q] \in doubled
                      \/ q \in ghosts /\ room'[d].playerToSocket[q] \notin sockets'
    BY DEF Seated
  <2> DEFINE t == room[d].playerToSocket[q]
  <2>1. q \in room[d].connected /\ room'[d].playerToSocket[q] = t /\ t \in Sockets
    BY <1>2, <1>5
  <2>2. CASE t \in doubled
    BY <2>1, <2>2
  <2>3. CASE q \in ghosts /\ t \notin sockets
    BY <1>6, <2>1, <2>3
  <2>4. CASE Reachable(d, q) /\ t \notin doubled
    <3>1. t \in sockets /\ socketToRoom[t] = d /\ t \in roomToSockets[d] /\ room[d].socketToPlayer[t] = q
      BY <2>4 DEF Reachable
    <3>2. t # s
      BY <1>2, <2>4, <3>1
    <3>3. t \in sockets' /\ socketToRoom'[t] = d /\ t \in roomToSockets'[d]
      <4> HIDE DEF t
      <4>1. socketToRoom'[t] = d
        BY <1>3, <2>1, <3>1, <3>2
      <4>2. t \in roomToSockets'[d]
        BY <1>4, <3>1, <3>2
      <4>3. t \in sockets'
        BY <1>6, <3>1, <3>2
      <4> QED
        BY <4>1, <4>2, <4>3
    <3>4. room'[d].socketToPlayer[t] = q
      <4> HIDE DEF t
      <4> QED
        BY <1>2, <2>1, <3>1, <3>2
    <3> QED
      BY <2>1, <3>3, <3>4 DEF Reachable
  <2> QED
    BY <2>1, <2>2, <2>3, <2>4 DEF Indexes, Seated
<1>8. KnownThere'
  <2> SUFFICES ASSUME NEW t \in Sockets \ doubled, socketToRoom'[t] \in rooms
               PROVE  /\ t \in roomToSockets'[socketToRoom'[t]]
                      /\ \/ t \in room'[socketToRoom'[t]].spectators
                         \/ room'[socketToRoom'[t]].socketToPlayer[t] # NoPlayer
    BY DEF KnownThere, InRoom, RoomFor
  <2>1. t # s /\ socketToRoom'[t] = socketToRoom[t]
    BY <1>1, <1>3
  <2>2. /\ t \in roomToSockets[socketToRoom[t]]
        /\ \/ t \in room[socketToRoom[t]].spectators
           \/ room[socketToRoom[t]].socketToPlayer[t] # NoPlayer
    BY <2>1 DEF Indexes, KnownThere, InRoom, RoomFor
  <2>3. t \in roomToSockets'[socketToRoom[t]]
    BY <1>4, <2>1, <2>2
  <2> QED
    BY <1>2, <2>1, <2>2, <2>3
<1>9. MappedBack'
  <2> SUFFICES ASSUME NEW d \in rooms, NEW t \in roomToSockets'[d] \ doubled
               PROVE  socketToRoom'[t] = d
    BY DEF MappedBack
  <2>0. roomToSockets'[d] = roomToSockets[d] \ (IF socketToRoom[s] = d THEN {s} ELSE {})
    BY <1>4
  <2>1. t \in roomToSockets[d] /\ ~(t = s /\ socketToRoom[s] = d)
    BY <2>0, Zenon
  <2>2. socketToRoom[t] = d /\ t \in Sockets
    BY <1>1, <2>1 DEF Indexes, MappedBack, Shapes
  <2> QED
    BY <1>3, <2>1, <2>2
<1>10. Watching'
  <2> SUFFICES ASSUME NEW d \in rooms', NEW t \in room'[d].spectators \ doubled'
               PROVE  t \in sockets' /\ socketToRoom'[t] = d /\ room'[d].socketToPlayer[t] = NoPlayer
    BY Zenon DEF Watching
  <2>0. d \in rooms /\ t \notin doubled
    OBVIOUS
  <2>1. t \in room[d].spectators \ doubled
    BY <1>2, <2>0
  <2>2. t \in Sockets
    BY <1>1, <2>0, <2>1 DEF Lists, RoomRecords
  <2>3. t \in sockets /\ socketToRoom[t] = d /\ room[d].socketToPlayer[t] = NoPlayer
    BY <2>0, <2>1 DEF Indexes, Watching
  <2>4. t # s
    <3>1. CASE d = c
      BY <1>2, <3>1
    <3>2. CASE d # c
      BY <2>1, <2>3, <3>2
    <3> QED
      BY <3>1, <3>2
  <2>5. room'[d].socketToPlayer[t] = room[d].socketToPlayer[t]
    BY <1>2, <2>0, <2>2, <2>4
  <2> QED
    BY <1>3, <1>6, <2>2, <2>3, <2>4, <2>5
<1> QED
  BY <1>7, <1>8, <1>9, <1>10 DEF Indexes

\* Room c is closed, and with it, for whoever is in one room only, its sockets' entries.
LEMMA IndexesClose ==
    ASSUME Shapes, Lists, Indexes, NEW c \in rooms,
           room' = [room EXCEPT ![c] = EmptyRoom], rooms' = rooms \ {c},
           \A t \in Sockets \ doubled :
             socketToRoom'[t] = IF socketToRoom[t] = c THEN NoRoom ELSE socketToRoom[t],
           \A d \in rooms : d # c => roomToSockets'[d] = roomToSockets[d],
           sockets' \subseteq sockets,
           \A t \in sockets : socketToRoom[t] \in rooms \ {c} => t \in sockets',
           UNCHANGED <<doubled, ghosts>>
    PROVE  Indexes'
<1>1. c \in RoomCodes /\ rooms \subseteq RoomCodes /\ NoRoom \notin rooms
  BY CodesAreNumbers
<1>2. \A d \in rooms' : d \in rooms /\ d # c /\ room'[d] = room[d] /\ roomToSockets'[d] = roomToSockets[d]
  BY <1>1 DEF Lists
<1>3. \A d \in rooms : \A q \in room[d].connected : room[d].playerToSocket[q] \in Sockets
  BY <1>1, SeatFacts DEF Lists, RoomGood
<1>4. Seated'
  <2> SUFFICES ASSUME NEW d \in rooms', NEW q \in room[d].connected
               PROVE  \/ Reachable(d, q)'
                      \/ room'[d].playerToSocket[q] \in doubled
                      \/ q \in ghosts /\ room'[d].playerToSocket[q] \notin sockets'
    BY <1>2 DEF Seated
  <2> DEFINE t == room[d].playerToSocket[q]
  <2>1. room'[d] = room[d] /\ t \in Sockets /\ d \in rooms /\ d # c
    BY <1>2, <1>3
  <2>2. CASE t \in doubled \/ (q \in ghosts /\ t \notin sockets)
    BY <2>1, <2>2
  <2>3. CASE Reachable(d, q) /\ t \notin doubled
    <3>1. t \in sockets /\ socketToRoom[t] = d /\ t \in roomToSockets[d] /\ room[d].socketToPlayer[t] = q
      BY <2>3 DEF Reachable
    <3>2. t \in sockets' /\ socketToRoom'[t] = d /\ t \in roomToSockets'[d]
      BY <1>2, <2>1, <2>3, <3>1
    <3> QED
      BY <2>1, <3>1, <3>2 DEF Reachable
  <2> QED
    BY <2>1, <2>2, <2>3 DEF Indexes, Seated
<1>5. KnownThere'
  <2> SUFFICES ASSUME NEW t \in Sockets \ doubled, socketToRoom'[t] \in rooms'
               PROVE  /\ t \in roomToSockets'[socketToRoom'[t]]
                      /\ \/ t \in room'[socketToRoom'[t]].spectators
                         \/ room'[socketToRoom'[t]].socketToPlayer[t] # NoPlayer
    BY DEF KnownThere, InRoom, RoomFor
  <2>1. socketToRoom'[t] = socketToRoom[t] /\ socketToRoom[t] \in rooms
    BY <1>1, <1>2
  <2>2. /\ t \in roomToSockets[socketToRoom[t]]
        /\ \/ t \in room[socketToRoom[t]].spectators
           \/ room[socketToRoom[t]].socketToPlayer[t] # NoPlayer
    BY <2>1 DEF Indexes, KnownThere, InRoom, RoomFor
  <2> QED
    BY <1>2, <2>1, <2>2
<1>6. MappedBack'
  BY <1>1, <1>2 DEF Indexes, MappedBack, Shapes
<1>7. Watching'
  <2> SUFFICES ASSUME NEW d \in rooms', NEW t \in room[d].spectators \ doubled
               PROVE  t \in sockets' /\ socketToRoom'[t] = d /\ room'[d].socketToPlayer[t] = NoPlayer
    BY <1>2 DEF Watching
  <2>1. d \in rooms /\ d # c /\ room'[d] = room[d] /\ t \in Sockets
    BY <1>1, <1>2 DEF Lists, RoomRecords
  <2>2. t \in sockets /\ socketToRoom[t] = d /\ room[d].socketToPlayer[t] = NoPlayer
    BY <2>1 DEF Indexes, Watching
  <2> QED
    BY <2>1, <2>2
<1> QED
  BY <1>4, <1>5, <1>6, <1>7 DEF Indexes

\* A player p more in room c, which may be new, on socket s: if s is in a room already it
\* is seated twice, and if it is gone p is a ghost.
LEMMA IndexesSeat ==
    ASSUME Shapes, Lists, Indexes, NEW c \in RoomCodes, c \in rooms \/ c > created,
           NEW s \in Sockets, NEW p \in Players \ room[c].players,
           room' = [room EXCEPT ![c] = AddPlayer(room[c], p, s)], rooms' = rooms \cup {c},
           MapSocket(s, c), sockets' = sockets,
           doubled' = IF InRoom(s) THEN doubled \cup {s} ELSE doubled,
           ghosts' = IF s \in sockets THEN ghosts ELSE ghosts \cup {p}
    PROVE  Indexes'
<1> DEFINE r == AddPlayer(room[c], p, s)
<1>1. rooms \subseteq RoomCodes /\ RoomGood(room[c], unmapped)
  BY CodesAreNumbers DEF Lists
<1>2. /\ r.connected = room[c].connected \cup {p} /\ r.spectators = room[c].spectators
      /\ \A q \in Players : r.playerToSocket[q] = IF q = p THEN s ELSE room[c].playerToSocket[q]
      /\ \A t \in Sockets : r.socketToPlayer[t] = IF t = s THEN p ELSE room[c].socketToPlayer[t]
  BY <1>1, AddPlayerGood
<1> HIDE DEF r
<1>3. room'[c] = r /\ \A d \in rooms : d # c => room'[d] = room[d]
  BY <1>1 DEF Lists, r
<1>4. /\ \A t \in Sockets : socketToRoom'[t] = IF t = s THEN c ELSE socketToRoom[t]
      /\ roomToSockets'[c] = roomToSockets[c] \cup {s}
      /\ \A d \in RoomCodes : d # c => roomToSockets'[d] = roomToSockets[d]
  BY DEF MapSocket, Shapes
<1>5. doubled \subseteq doubled' /\ ghosts \subseteq ghosts' /\ (InRoom(s) => s \in doubled')
  OBVIOUS
<1>6. c \notin rooms => /\ room[c].connected = {} /\ room[c].spectators = {}
                        /\ roomToSockets[c] = {} /\ \A t \in Sockets : socketToRoom[t] # c
  <2> SUFFICES ASSUME c \notin rooms, c > created
               PROVE  /\ room[c].connected = {} /\ room[c].spectators = {}
                      /\ roomToSockets[c] = {} /\ \A t \in Sockets : socketToRoom[t] # c
    OBVIOUS
  <2>1. room[c] = EmptyRoom
    BY DEF Lists
  <2>2. c \notin 1 .. created /\ c # NoRoom
    BY CodesAreNumbers DEF RoomCodes
  <2> QED
    BY <2>1, <2>2 DEF Shapes, EmptyRoom
<1>7. /\ \A d \in rooms : \A q \in room[d].connected : room[d].playerToSocket[q] \in Sockets
      /\ \A d \in RoomCodes : room[d].connected \subseteq Players /\ room[d].spectators \subseteq Sockets
      /\ p \notin room[c].connected
  BY <1>1, SeatFacts DEF Lists, RoomGood, RoomRecords
<1>8. Seated'
  <2> SUFFICES ASSUME NEW d \in rooms', NEW q \in room'[d].connected
               PROVE  \/ Reachable(d, q)'
                      \/ room'[d].playerToSocket[q] \in doubled'
                      \/ q \in ghosts' /\ room'[d].playerToSocket[q] \notin sockets'
    BY Zenon DEF Seated
  <2>1. CASE d = c /\ q = p
    <3>1. room'[d].playerToSocket[q] = s /\ room'[d].socketToPlayer[s] = q
      BY <1>2, <1>3, <2>1
    <3>2. CASE s \in sockets
      BY <1>4, <2>1, <3>1, <3>2 DEF Reachable
    <3>3. CASE s \notin sockets
      BY <2>1, <3>1, <3>3
    <3> QED
      BY <3>2, <3>3
  <2>2. CASE ~(d = c /\ q = p)
    <3> DEFINE t == room[d].playerToSocket[q]
    <3>1. d \in rooms /\ q \in room[d].connected
      BY <1>2, <1>3, <1>6, <2>2
    <3>2. room'[d].playerToSocket[q] = t /\ t \in Sockets
      BY <1>1, <1>2, <1>3, <1>7, <2>2, <3>1
    <3>3. CASE t \in doubled \/ (q \in ghosts /\ t \notin sockets)
      BY <1>5, <3>2, <3>3
    <3>4. CASE Reachable(d, q)
      <4>1. t \in sockets /\ socketToRoom[t] = d /\ t \in roomToSockets[d] /\ room[d].socketToPlayer[t] = q
        BY <3>4 DEF Reachable
      <4>2. CASE t = s
        BY <1>5, <3>1, <3>2, <4>1, <4>2 DEF InRoom
      <4>3. CASE t # s
        <5>1. socketToRoom'[t] = d /\ t \in roomToSockets'[d] /\ t \in sockets'
          BY <1>1, <1>4, <3>1, <3>2, <4>1, <4>3
        <5>2. room'[d].socketToPlayer[t] = q
          <6> HIDE DEF t
          <6> QED
            BY <1>2, <1>3, <3>1, <3>2, <4>1, <4>3
        <5> QED
          BY <3>2, <5>1, <5>2 DEF Reachable
      <4> QED
        BY <4>2, <4>3
    <3> QED
      BY <3>1, <3>3, <3>4 DEF Indexes, Seated
  <2> QED
    BY <2>1, <2>2
<1>9. KnownThere'
  <2> SUFFICES ASSUME NEW t \in Sockets \ doubled', socketToRoom'[t] \in rooms'
               PROVE  /\ t \in roomToSockets'[socketToRoom'[t]]
                      /\ \/ t \in room'[socketToRoom'[t]].spectators
                         \/ room'[socketToRoom'[t]].socketToPlayer[t] # NoPlayer
    BY Zenon DEF KnownThere, InRoom, RoomFor
  <2>1. CASE t = s
    BY <1>2, <1>3, <1>4, <2>1, PlayersAreFew
  <2>2. CASE t # s
    <3>1. socketToRoom'[t] = socketToRoom[t] /\ socketToRoom[t] \in rooms /\ t \in Sockets \ doubled
      BY <1>4, <1>5, <1>6, <2>2
    <3>2. /\ t \in roomToSockets[socketToRoom[t]]
          /\ \/ t \in room[socketToRoom[t]].spectators
             \/ room[socketToRoom[t]].socketToPlayer[t] # NoPlayer
      BY <3>1 DEF Indexes, KnownThere, InRoom, RoomFor
    <3>3. t \in roomToSockets'[socketToRoom[t]]
      BY <1>1, <1>4, <3>1, <3>2
    <3>4. /\ room'[socketToRoom[t]].spectators = room[socketToRoom[t]].spectators
          /\ room'[socketToRoom[t]].socketToPlayer[t] = room[socketToRoom[t]].socketToPlayer[t]
      BY <1>2, <1>3, <2>2, <3>1
    <3> QED
      BY <3>1, <3>2, <3>3, <3>4
  <2> QED
    BY <2>1, <2>2
<1>10. MappedBack'
  <2> SUFFICES ASSUME NEW d \in rooms', NEW t \in roomToSockets'[d] \ doubled'
               PROVE  socketToRoom'[t] = d
    BY Zenon DEF MappedBack
  <2>1. CASE d = c /\ t = s
    BY <1>4, <2>1
  <2>2. CASE ~(d = c /\ t = s)
    <3>1. d \in rooms /\ t \in roomToSockets[d] /\ t \notin doubled
      BY <1>1, <1>4, <1>5, <1>6, <2>2
    <3>2. socketToRoom[t] = d /\ t \in Sockets
      BY <1>1, <3>1 DEF Indexes, MappedBack, Shapes
    <3>3. t # s
      BY <1>5, <3>1, <3>2 DEF InRoom
    <3> QED
      BY <1>4, <3>2, <3>3
  <2> QED
    BY <2>1, <2>2
<1>11. Watching'
  <2> SUFFICES ASSUME NEW d \in rooms', NEW t \in room'[d].spectators \ doubled'
               PROVE  t \in sockets' /\ socketToRoom'[t] = d /\ room'[d].socketToPlayer[t] = NoPlayer
    BY Zenon DEF Watching
  <2>1. d \in rooms /\ t \in room[d].spectators /\ t \notin doubled /\ t \in Sockets
    BY <1>1, <1>2, <1>3, <1>5, <1>6, <1>7
  <2>2. t \in sockets /\ socketToRoom[t] = d /\ room[d].socketToPlayer[t] = NoPlayer
    BY <2>1 DEF Indexes, Watching
  <2>3. t # s
    BY <1>5, <2>1, <2>2 DEF InRoom
  <2>4. room'[d].socketToPlayer[t] = room[d].socketToPlayer[t]
    BY <1>2, <1>3, <2>1, <2>3
  <2> QED
    BY <1>4, <2>1, <2>2, <2>3, <2>4
<1> QED
  BY <1>8, <1>9, <1>10, <1>11 DEF Indexes

\* The answer to a join of a room that was closed: its code is mapped, to nowhere.
LEMMA IndexesSeatNowhere ==
    ASSUME Shapes, Lists, Indexes, NEW c \in RoomCodes \ rooms,
           NEW s \in Sockets, UNCHANGED <<room, rooms, sockets>>, MapSocket(s, c),
           doubled' = IF InRoom(s) THEN doubled \cup {s} ELSE doubled,
           ghosts \subseteq ghosts'
    PROVE  Indexes'
<1>1. rooms \subseteq RoomCodes
  BY CodesAreNumbers
<1>2. /\ \A t \in Sockets : socketToRoom'[t] = IF t = s THEN c ELSE socketToRoom[t]
      /\ \A d \in rooms : roomToSockets'[d] = roomToSockets[d]
  BY <1>1 DEF MapSocket, Shapes
<1>3. doubled \subseteq doubled' /\ (InRoom(s) => s \in doubled')
  OBVIOUS
<1>4. \A d \in rooms : /\ \A q \in room[d].connected : room[d].playerToSocket[q] \in Sockets
                       /\ room[d].spectators \subseteq Sockets
  BY <1>1, SeatFacts DEF Lists, RoomGood, RoomRecords
<1>5. Seated'
  <2> SUFFICES ASSUME NEW d \in rooms, NEW q \in room[d].connected
               PROVE  \/ Reachable(d, q)'
                      \/ room[d].playerToSocket[q] \in doubled'
                      \/ q \in ghosts' /\ room[d].playerToSocket[q] \notin sockets
    BY Zenon DEF Seated
  <2>1. CASE Reachable(d, q)
    BY <1>2, <1>3, <1>4, <2>1 DEF Reachable, InRoom
  <2> QED
    BY <1>3, <2>1 DEF Indexes, Seated
<1>6. KnownThere'
  BY <1>2, <1>3 DEF Indexes, KnownThere, InRoom, RoomFor
<1>7. MappedBack'
  BY <1>1, <1>2, <1>3 DEF Indexes, MappedBack, InRoom, Shapes
<1>8. Watching'
  BY <1>2, <1>3, <1>4 DEF Indexes, Watching, InRoom
<1> QED
  BY <1>5, <1>6, <1>7, <1>8 DEF Indexes

\* A player who is connected can be reached, if his socket is alive and was not seated twice.
LEMMA SeatOfOne ==
    ASSUME Shapes, Lists, Indexes, NEW c \in rooms, NEW p \in room[c].connected,
           room[c].playerToSocket[p] \in sockets \ doubled
    PROVE  Reachable(c, p)
BY DEF Indexes, Seated

\* Player p of room c is taken from the socket he had, if any, and seated on s.
LEMMA IndexesReturn ==
    ASSUME Shapes, Lists, Indexes, NEW c \in rooms, NEW p \in room[c].tokens,
           NEW s \in sockets, ~InRoom(s), room[c].playerToSocket[p] # s,
           room' = [room EXCEPT ![c] = Reseat(room[c], p, s)],
           socketToRoom' = [Unmapped({room[c].playerToSocket[p]}) EXCEPT ![s] = c],
           roomToSockets' = [SocketsWithout({room[c].playerToSocket[p]}) EXCEPT ![c] = @ \cup {s}],
           UNCHANGED <<rooms, sockets, doubled, ghosts>>
    PROVE  Indexes'
<1> DEFINE r == Reseat(room[c], p, s)
           old == room[c].playerToSocket[p]
<1>1. /\ rooms \subseteq RoomCodes /\ c \in RoomCodes /\ s \in Sockets /\ NoRoom \notin rooms
      /\ RoomGood(room[c], unmapped) /\ room[c] \in RoomRecords /\ SeatsGood(room[c])
      /\ p \in Players
  BY CodesAreNumbers DEF Lists, Shapes, RoomGood, RoomRecords
<1>2. /\ r.connected = room[c].connected \cup {p} /\ r.spectators = room[c].spectators
      /\ \A q \in Players : r.playerToSocket[q] = IF q = p THEN s ELSE room[c].playerToSocket[q]
      /\ \A t \in Sockets : r.socketToPlayer[t] =
           IF t = s THEN p ELSE IF t = old THEN NoPlayer ELSE room[c].socketToPlayer[t]
  BY <1>1, ReseatGood
<1> HIDE DEF r
<1>3. room'[c] = r /\ \A d \in rooms : d # c => room'[d] = room[d]
  BY <1>1 DEF Lists, r
<1>4. \A t \in Sockets : socketToRoom'[t] = IF t = s THEN c ELSE IF t = old THEN NoRoom
                                            ELSE socketToRoom[t]
  BY <1>1 DEF Unmapped
<1>5. /\ \A d \in rooms : d # c =>
           roomToSockets'[d] = roomToSockets[d] \ {t \in {old} \cap Sockets : socketToRoom[t] = d}
      /\ roomToSockets'[c] =
           (roomToSockets[c] \ {t \in {old} \cap Sockets : socketToRoom[t] = c}) \cup {s}
  BY <1>1 DEF SocketsWithout
<1>6. /\ \A d \in rooms : \A q \in room[d].connected : room[d].playerToSocket[q] \in Sockets
      /\ \A d \in rooms : room[d].connected \subseteq Players /\ room[d].spectators \subseteq Sockets
  BY <1>1, SeatFacts DEF Lists, RoomGood, RoomRecords
<1>7. old \in Sockets => p \in room[c].connected
  BY <1>1, LobbyAssumption DEF SeatsGood, RoomShape
<1>8. old \in sockets \ doubled => Reachable(c, p)
  BY <1>7, SeatOfOne DEF Shapes
<1>9. old \in sockets \ doubled => socketToRoom[old] = c /\ room[c].socketToPlayer[old] = p
  BY <1>8 DEF Reachable
<1> HIDE DEF old
<1>10. Seated'
  <2> SUFFICES ASSUME NEW d \in rooms, NEW q \in room'[d].connected
               PROVE  \/ Reachable(d, q)'
                      \/ room'[d].playerToSocket[q] \in doubled
                      \/ q \in ghosts /\ room'[d].playerToSocket[q] \notin sockets
    BY Zenon DEF Seated
  <2>1. CASE d = c /\ q = p
    <3>1. room'[d].playerToSocket[q] = s /\ room'[d].socketToPlayer[s] = q
      BY <1>1, <1>2, <1>3, <2>1
    <3>2. socketToRoom'[s] = d /\ s \in roomToSockets'[d]
      BY <1>1, <1>4, <1>5, <2>1
    <3> QED
      BY <3>1, <3>2 DEF Reachable
  <2>2. CASE ~(d = c /\ q = p)
    <3> DEFINE t == room[d].playerToSocket[q]
    <3>1. q \in room[d].connected
      BY <1>2, <1>3, <2>2
    <3>2. room'[d].playerToSocket[q] = t /\ t \in Sockets
      BY <1>2, <1>3, <1>6, <2>2, <3>1
    <3> HIDE DEF t
    <3>3. CASE t \in doubled \/ (q \in ghosts /\ t \notin sockets)
      BY <3>2, <3>3
    <3>4. CASE Reachable(d, q) /\ t \notin doubled
      <4>1. t \in sockets /\ socketToRoom[t] = d /\ t \in roomToSockets[d] /\ room[d].socketToPlayer[t] = q
        BY <3>4 DEF Reachable, t
      <4>2. t # s
        BY <4>1 DEF InRoom
      <4>3. t # old
        BY <1>9, <2>2, <3>4, <4>1
      <4>4. socketToRoom'[t] = d /\ t \in roomToSockets'[d]
        BY <1>4, <1>5, <3>2, <4>1, <4>2, <4>3
      <4>5. room'[d].socketToPlayer[t] = q
        BY <1>2, <1>3, <3>2, <4>1, <4>2, <4>3
      <4> QED
        BY <3>2, <4>1, <4>4, <4>5 DEF Reachable
    <3> QED
      BY <3>1, <3>3, <3>4 DEF Indexes, Seated, t
  <2> QED
    BY <2>1, <2>2
<1>11. KnownThere'
  <2> SUFFICES ASSUME NEW t \in Sockets \ doubled, socketToRoom'[t] \in rooms
               PROVE  /\ t \in roomToSockets'[socketToRoom'[t]]
                      /\ \/ t \in room'[socketToRoom'[t]].spectators
                         \/ room'[socketToRoom'[t]].socketToPlayer[t] # NoPlayer
    BY Zenon DEF KnownThere, InRoom, RoomFor
  <2>1. CASE t = s
    <3>1. socketToRoom'[t] = c /\ t \in roomToSockets'[c]
      BY <1>1, <1>4, <1>5, <2>1
    <3>2. room'[c].socketToPlayer[t] = p
      BY <1>1, <1>2, <1>3, <2>1
    <3>3. p # NoPlayer
      BY <1>1, PlayersAreFew
    <3> QED
      BY <3>1, <3>2, <3>3
  <2>2. CASE t # s
    <3>1. socketToRoom'[t] = socketToRoom[t] /\ socketToRoom[t] \in rooms /\ t # old
      BY <1>1, <1>4, <2>2
    <3>2. /\ t \in roomToSockets[socketToRoom[t]]
          /\ \/ t \in room[socketToRoom[t]].spectators
             \/ room[socketToRoom[t]].socketToPlayer[t] # NoPlayer
      BY <3>1 DEF Indexes, KnownThere, InRoom, RoomFor
    <3>3. t \in roomToSockets'[socketToRoom[t]]
      BY <1>5, <3>1, <3>2
    <3>4. /\ room'[socketToRoom[t]].spectators = room[socketToRoom[t]].spectators
          /\ room'[socketToRoom[t]].socketToPlayer[t] = room[socketToRoom[t]].socketToPlayer[t]
      BY <1>2, <1>3, <2>2, <3>1
    <3> QED
      BY <3>1, <3>2, <3>3, <3>4
  <2> QED
    BY <2>1, <2>2
<1>12. MappedBack'
  <2> SUFFICES ASSUME NEW d \in rooms, NEW t \in roomToSockets'[d] \ doubled
               PROVE  socketToRoom'[t] = d
    BY Zenon DEF MappedBack
  <2>1. CASE d = c /\ t = s
    BY <1>1, <1>4, <2>1
  <2>2. CASE ~(d = c /\ t = s)
    <3>1. t \in roomToSockets[d] /\ ~(t \in {old} \cap Sockets /\ socketToRoom[t] = d)
      <4>1. CASE d = c
        BY <1>5, <2>2, <4>1
      <4>2. CASE d # c
        <5> DEFINE left == {u \in {old} \cap Sockets : socketToRoom[u] = d}
        <5>1. roomToSockets'[d] = roomToSockets[d] \ left
          BY <1>5, <4>2
        <5>2. t \in roomToSockets[d] /\ t \notin left
          <6> HIDE DEF left
          <6> QED
            BY <5>1
        <5> QED
          BY <5>2
      <4> QED
        BY <4>1, <4>2
    <3>2. socketToRoom[t] = d /\ t \in Sockets
      BY <1>1, <3>1 DEF Indexes, MappedBack, Shapes
    <3>3. t # s /\ t # old
      BY <3>1, <3>2 DEF InRoom
    <3> QED
      BY <1>4, <3>2, <3>3
  <2> QED
    BY <2>1, <2>2
<1>13. Watching'
  <2> SUFFICES ASSUME NEW d \in rooms', NEW t \in room'[d].spectators \ doubled'
               PROVE  t \in sockets' /\ socketToRoom'[t] = d /\ room'[d].socketToPlayer[t] = NoPlayer
    BY Zenon DEF Watching
  <2>0. d \in rooms /\ t \notin doubled /\ sockets' = sockets
    OBVIOUS
  <2>1. t \in room[d].spectators /\ t \in Sockets
    BY <1>2, <1>3, <1>6, <2>0
  <2>2. t \in sockets /\ socketToRoom[t] = d /\ room[d].socketToPlayer[t] = NoPlayer
    BY <2>0, <2>1 DEF Indexes, Watching
  <2>3. t # s
    BY <2>0, <2>2 DEF InRoom
  <2>4. t # old
    BY <1>1, <1>9, <2>0, <2>2, PlayersAreFew
  <2>5. room'[d].socketToPlayer[t] = room[d].socketToPlayer[t]
    BY <1>2, <1>3, <2>0, <2>1, <2>3, <2>4
  <2> QED
    BY <1>4, <2>0, <2>1, <2>2, <2>3, <2>4, <2>5
<1> QED
  BY <1>10, <1>11, <1>12, <1>13 DEF Indexes

\* A spectator more, who is in no room and so has no seat in this one.
LEMMA IndexesWatch ==
    ASSUME Shapes, Lists, Indexes, NEW c \in rooms, NEW s \in sockets, ~InRoom(s),
           NEW r, room' = [room EXCEPT ![c] = r],
           r.spectators = room[c].spectators \cup {s},
           \A f \in {"connected", "playerToSocket", "socketToPlayer"} : r[f] = room[c][f],
           MapSocket(s, c), UNCHANGED <<rooms, sockets, doubled, ghosts>>
    PROVE  Indexes'
<1>1. rooms \subseteq RoomCodes /\ c \in RoomCodes /\ s \in Sockets
  BY CodesAreNumbers DEF Shapes
<1>2. /\ room'[c] = r /\ \A d \in rooms : d # c => room'[d] = room[d]
      /\ r.connected = room[c].connected /\ r.playerToSocket = room[c].playerToSocket
      /\ r.socketToPlayer = room[c].socketToPlayer
  BY <1>1 DEF Lists
<1>3. \A d \in rooms : /\ room'[d].connected = room[d].connected
                       /\ room'[d].playerToSocket = room[d].playerToSocket
                       /\ room'[d].socketToPlayer = room[d].socketToPlayer
                       /\ room'[d].spectators = room[d].spectators \cup (IF d = c THEN {s} ELSE {})
  BY <1>2
<1>4. /\ \A t \in Sockets : socketToRoom'[t] = IF t = s THEN c ELSE socketToRoom[t]
      /\ \A d \in rooms : roomToSockets'[d] = roomToSockets[d] \cup (IF d = c THEN {s} ELSE {})
  BY <1>1 DEF MapSocket, Shapes
<1>5. \A d \in rooms : /\ \A q \in room[d].connected : room[d].playerToSocket[q] \in Sockets
                       /\ room[d].spectators \subseteq Sockets
  BY <1>1, SeatFacts DEF Lists, RoomGood, RoomRecords
<1>6. s \notin doubled => room[c].socketToPlayer[s] = NoPlayer
  <2> SUFFICES ASSUME s \notin doubled, room[c].socketToPlayer[s] # NoPlayer PROVE FALSE
    OBVIOUS
  <2>1. /\ room[c].socketToPlayer[s] \in room[c].connected
        /\ room[c].playerToSocket[room[c].socketToPlayer[s]] = s
    BY <1>1, SeatFacts DEF Lists, RoomGood
  <2>2. Reachable(c, room[c].socketToPlayer[s])
    BY <2>1, SeatOfOne
  <2> QED
    BY <2>1, <2>2 DEF Reachable, InRoom
<1>7. Seated'
  <2> SUFFICES ASSUME NEW d \in rooms', NEW q \in room'[d].connected
               PROVE  \/ Reachable(d, q)'
                      \/ room'[d].playerToSocket[q] \in doubled'
                      \/ q \in ghosts' /\ room'[d].playerToSocket[q] \notin sockets'
    BY Zenon DEF Seated
  <2>0. d \in rooms /\ q \in room[d].connected
    BY <1>3
  <2>1. CASE Reachable(d, q)
    <3>1. room[d].playerToSocket[q] # s
      BY <2>0, <2>1 DEF Reachable, InRoom
    <3> QED
      BY <1>3, <1>4, <1>5, <2>0, <2>1, <3>1 DEF Reachable
  <2> QED
    BY <1>3, <2>0, <2>1 DEF Indexes, Seated
<1>8. KnownThere'
  <2> SUFFICES ASSUME NEW t \in Sockets \ doubled, socketToRoom'[t] \in rooms
               PROVE  /\ t \in roomToSockets'[socketToRoom'[t]]
                      /\ \/ t \in room'[socketToRoom'[t]].spectators
                         \/ room'[socketToRoom'[t]].socketToPlayer[t] # NoPlayer
    BY Zenon DEF KnownThere, InRoom, RoomFor
  <2>1. CASE t = s
    BY <1>1, <1>3, <1>4, <2>1
  <2>2. CASE t # s
    <3>1. socketToRoom'[t] = socketToRoom[t] /\ socketToRoom[t] \in rooms
      BY <1>4, <2>2
    <3>2. /\ t \in roomToSockets[socketToRoom[t]]
          /\ \/ t \in room[socketToRoom[t]].spectators
             \/ room[socketToRoom[t]].socketToPlayer[t] # NoPlayer
      BY <3>1 DEF Indexes, KnownThere, InRoom, RoomFor
    <3> QED
      BY <1>3, <1>4, <3>1, <3>2
  <2> QED
    BY <2>1, <2>2
<1>9. MappedBack'
  <2> SUFFICES ASSUME NEW d \in rooms, NEW t \in roomToSockets'[d] \ doubled
               PROVE  socketToRoom'[t] = d
    BY Zenon DEF MappedBack
  <2>1. CASE d = c /\ t = s
    BY <1>1, <1>4, <2>1
  <2>2. CASE ~(d = c /\ t = s)
    <3>1. t \in roomToSockets[d]
      BY <1>4, <2>2
    <3>2. socketToRoom[t] = d /\ t \in Sockets
      BY <1>1, <3>1 DEF Indexes, MappedBack, Shapes
    <3> QED
      BY <1>4, <3>2 DEF InRoom
  <2> QED
    BY <2>1, <2>2
<1>10. Watching'
  <2> SUFFICES ASSUME NEW d \in rooms', NEW t \in room'[d].spectators \ doubled'
               PROVE  t \in sockets' /\ socketToRoom'[t] = d /\ room'[d].socketToPlayer[t] = NoPlayer
    BY Zenon DEF Watching
  <2>0. d \in rooms /\ t \notin doubled /\ sockets' = sockets
    OBVIOUS
  <2>1. CASE d = c /\ t = s
    BY <1>1, <1>3, <1>4, <1>6, <2>0, <2>1
  <2>2. CASE ~(d = c /\ t = s)
    <3>1. t \in room[d].spectators /\ t \in Sockets
      BY <1>3, <1>5, <2>0, <2>2
    <3>2. t \in sockets /\ socketToRoom[t] = d /\ room[d].socketToPlayer[t] = NoPlayer
      BY <2>0, <3>1 DEF Indexes, Watching
    <3>3. t # s
      BY <2>0, <3>2 DEF InRoom
    <3> QED
      BY <1>3, <1>4, <2>0, <3>1, <3>2, <3>3
  <2> QED
    BY <2>1, <2>2
<1> QED
  BY <1>7, <1>8, <1>9, <1>10 DEF Indexes

-----------------------------------------------------------------------------
(* The registry, action by action.                                         *)

\* What the two helpers on the socket indexes return.
LEMMA WithoutShapes ==
    ASSUME Shapes, NEW S
    PROVE  /\ Unmapped(S) \in [Sockets -> 1 .. created \cup {NoRoom}]
           /\ SocketsWithout(S) \in [RoomCodes -> SUBSET Sockets]
           /\ \A c \in RoomCodes : c > created => SocketsWithout(S)[c] = {}
           /\ \A p : Forget(p) \in [Players -> RoomCodes \cup {NoRoom}]
BY DEF Shapes, Unmapped, SocketsWithout, Forget

\* A step that starts no game.
LEMMA NoneStarts ==
    ASSUME Shapes, Lists, NEW c \in RoomCodes, NEW r, room' = [room EXCEPT ![c] = r],
           c \in rooms /\ room[c].gamePhase = "LOBBY" => r.gamePhase # "PLAYING"
    PROVE  StartsFull
<1>1. rooms \subseteq RoomCodes
  BY CodesAreNumbers
<1>2. room'[c] = r /\ \A d \in RoomCodes : d # c => room'[d] = room[d]
  BY DEF Lists
<1> QED
  BY <1>1, <1>2 DEF StartsFull

\* A step in one room that moves no connection and seats nobody.
LEMMA QuietStep ==
    ASSUME LobbyInv, NEW c \in rooms, NEW r, RoomGood(r, unmapped), Quietly(room[c], r),
           r.players \subseteq room[c].players, r.tokens \subseteq room[c].tokens,
           room' = [room EXCEPT ![c] = r],
           UNCHANGED <<created, unmoved, sockets, requests, ids, history>>
    PROVE  LobbyInv'
<1>1. Shapes /\ Lists /\ Indexes /\ c \in RoomCodes /\ ids \in Nat
  BY CodesAreNumbers DEF LobbyInv
<1>2. UNCHANGED <<rooms, socketToRoom, roomToSockets, playerToRoom, doubled, ghosts, unmapped>>
  BY DEF unmoved, history
<1>3. Shapes'
  BY <1>1, <1>2 DEF Shapes
<1>4. \A p \in r.tokens \ unmapped' : playerToRoom'[p] = c
  BY <1>1, <1>2 DEF Lists
<1>5. rooms' = rooms \cup {c} /\ unmapped \subseteq unmapped' /\ ids <= ids' /\ ids' \in Nat
  BY <1>1, <1>2
<1>6. RoomGood(r, unmapped')
  BY <1>2
<1>7. Lists'
  BY <1>1, <1>2, <1>4, <1>5, <1>6, ListsFollow
<1>8. Indexes'
  BY <1>1, <1>2, IndexesRest
<1> QED
  BY <1>3, <1>7, <1>8 DEF LobbyInv

\* deleteRoom.  The socket that left before it, if one did, was in this room.
LEMMA CloseStep ==
    ASSUME LobbyInv, NEW c \in rooms, NEW r, r.players \subseteq room[c].players,
           NEW toRoom \in [Sockets -> 1 .. created \cup {NoRoom}],
           NEW toSockets \in [RoomCodes -> SUBSET Sockets],
           \A d \in RoomCodes : d # c => toSockets[d] = roomToSockets[d],
           NEW toRoomOfPlayer \in [Players -> RoomCodes \cup {NoRoom}],
           \A p \in Players : p \notin room[c].players => toRoomOfPlayer[p] = playerToRoom[p],
           \A t \in Sockets \ doubled :
             IF socketToRoom[t] = c THEN t \in toSockets[c] \/ toRoom[t] = NoRoom
                                    ELSE t \notin toSockets[c] /\ toRoom[t] = socketToRoom[t],
           DeleteRoom(c, r, toRoom, toSockets, toRoomOfPlayer),
           sockets' \subseteq sockets,
           \A t \in sockets : socketToRoom[t] \in rooms \ {c} => t \in sockets',
           UNCHANGED <<created, requests, ids, history>>
    PROVE  LobbyInv' /\ StartsFull
<1>1. Shapes /\ Lists /\ Indexes /\ c \in RoomCodes /\ 1 .. ids \subseteq Players /\ c <= created
      /\ created \in Nat
  BY CodesAreNumbers DEF LobbyInv, Shapes
<1>2. /\ rooms' = rooms \ {c} /\ room' = [room EXCEPT ![c] = EmptyRoom]
      /\ \A t \in Sockets : socketToRoom'[t] = IF t \in toSockets[c] THEN NoRoom ELSE toRoom[t]
      /\ roomToSockets' = [toSockets EXCEPT ![c] = {}]
      /\ \A p \in Players : playerToRoom'[p] = IF p \in r.players THEN NoRoom ELSE toRoomOfPlayer[p]
      /\ UNCHANGED <<doubled, ghosts, unmapped>>
  BY DEF DeleteRoom, history
<1>3. Shapes'
  <2>1. created' = created /\ rooms' \subseteq 1 .. created
    BY <1>1, <1>2 DEF Shapes
  <2>2. socketToRoom' \in [Sockets -> 1 .. created \cup {NoRoom}]
    BY DEF DeleteRoom
  <2>3. /\ roomToSockets' \in [RoomCodes -> SUBSET Sockets]
        /\ \A d \in RoomCodes : d > created => roomToSockets'[d] = {}
    BY <1>1, <1>2 DEF Shapes
  <2>4. playerToRoom' \in [Players -> RoomCodes \cup {NoRoom}]
    BY DEF DeleteRoom
  <2> QED
    BY <1>1, <1>2, <2>1, <2>2, <2>3, <2>4 DEF Shapes
<1>4. Lists'
  <2>1. \A p \in 1 .. ids : p \notin room[c].players => playerToRoom'[p] = playerToRoom[p]
    BY <1>1, <1>2
  <2> QED
    BY <1>1, <1>2, <2>1, ListsClose
<1>5. Indexes'
  <2>1. \A t \in Sockets \ doubled :
          socketToRoom'[t] = IF socketToRoom[t] = c THEN NoRoom ELSE socketToRoom[t]
    BY <1>2
  <2>2. \A d \in rooms : d # c => roomToSockets'[d] = roomToSockets[d]
    BY <1>1, <1>2, CodesAreNumbers
  <2> QED
    BY <1>1, <1>2, <2>1, <2>2, IndexesClose
<1>6. StartsFull
  <2>1. EmptyRoom.gamePhase = "LOBBY"
    BY DEF EmptyRoom
  <2> QED
    BY <1>1, <1>2, <2>1, NoneStarts
<1> QED
  BY <1>3, <1>4, <1>5, <1>6 DEF LobbyInv

\* A room closed by its host, or swept, with the indexes as they are.
LEMMA CloseAsIs ==
    ASSUME LobbyInv, NEW c \in rooms,
           DeleteRoom(c, room[c], socketToRoom, roomToSockets, playerToRoom),
           UNCHANGED <<created, sockets, requests, ids, history>>
    PROVE  LobbyInv' /\ StartsFull
<1>1. Shapes /\ Indexes
  BY DEF LobbyInv
<1>2. /\ socketToRoom \in [Sockets -> 1 .. created \cup {NoRoom}]
      /\ roomToSockets \in [RoomCodes -> SUBSET Sockets]
      /\ playerToRoom \in [Players -> RoomCodes \cup {NoRoom}]
  BY <1>1 DEF Shapes
<1>3. \A t \in Sockets \ doubled : IF socketToRoom[t] = c THEN t \in roomToSockets[c]
                                                         ELSE t \notin roomToSockets[c]
  BY <1>1 DEF Indexes, KnownThere, MappedBack, InRoom
<1> QED
  BY <1>2, <1>3, CloseStep

\* Somebody goes from the room of socket s, and the room with him if he was the last.
LEMMA GoingStep ==
    ASSUME LobbyInv, NEW s \in Sockets, NEW c \in rooms, socketToRoom[s] = c,
           s \notin room[c].spectators,
           NEW left, RoomGood(left, unmapped), Leaves(room[c], left, s),
           left.players \subseteq room[c].players, left.tokens \subseteq room[c].tokens,
           room[c].gamePhase = "LOBBY" => left.gamePhase # "PLAYING",
           NEW toRoomOfPlayer \in {playerToRoom, Forget(room[c].socketToPlayer[s])},
           \A q \in left.tokens : toRoomOfPlayer[q] = playerToRoom[q],
           KeepUnlessEmpty(c, left, Unmapped({s}), SocketsWithout({s}), toRoomOfPlayer),
           sockets' \in {sockets, sockets \ {s}},
           UNCHANGED <<created, requests, ids, history>>
    PROVE  LobbyInv' /\ StartsFull
<1> DEFINE p == room[c].socketToPlayer[s]
<1>1. Shapes /\ Lists /\ Indexes /\ c \in RoomCodes /\ 1 .. ids \subseteq Players /\ ids \in Nat
      /\ NoRoom \notin rooms
  BY CodesAreNumbers DEF LobbyInv
<1>2. /\ Unmapped({s}) \in [Sockets -> 1 .. created \cup {NoRoom}]
      /\ SocketsWithout({s}) \in [RoomCodes -> SUBSET Sockets]
      /\ \A d \in RoomCodes : d > created => SocketsWithout({s})[d] = {}
      /\ toRoomOfPlayer \in [Players -> RoomCodes \cup {NoRoom}]
  BY <1>1, WithoutShapes DEF Shapes
<1>3. p = NoPlayer \/ p \in room[c].players
  BY <1>1, SeatFacts DEF Lists, RoomGood
<1>4. \A q \in Players : q \notin room[c].players => toRoomOfPlayer[q] = playerToRoom[q]
  <2>1. NoPlayer \notin Players
    BY PlayersAreFew
  <2> QED
    BY <1>1, <1>3, <2>1 DEF Forget, Shapes
<1>5. CASE DeleteRoom(c, left, Unmapped({s}), SocketsWithout({s}), toRoomOfPlayer)
  <2>1. \A d \in RoomCodes : d # c => SocketsWithout({s})[d] = roomToSockets[d]
    BY <1>1 DEF SocketsWithout, Shapes
  <2>2. /\ \A t \in Sockets : Unmapped({s})[t] = IF t = s THEN NoRoom ELSE socketToRoom[t]
        /\ SocketsWithout({s})[c] = roomToSockets[c] \ {s}
    BY <1>1 DEF SocketsWithout, Unmapped
  <2>3. \A t \in Sockets \ doubled :
          IF socketToRoom[t] = c THEN t \in SocketsWithout({s})[c] \/ Unmapped({s})[t] = NoRoom
          ELSE t \notin SocketsWithout({s})[c] /\ Unmapped({s})[t] = socketToRoom[t]
    BY <1>1, <2>2 DEF Indexes, KnownThere, MappedBack, InRoom
  <2>4. sockets' \subseteq sockets
        /\ \A t \in sockets : socketToRoom[t] \in rooms \ {c} => t \in sockets'
    OBVIOUS
  <2> DEFINE toRoom == Unmapped({s})
             toSockets == SocketsWithout({s})
  <2>5. /\ toRoom \in [Sockets -> 1 .. created \cup {NoRoom}]
        /\ toSockets \in [RoomCodes -> SUBSET Sockets]
        /\ \A d \in RoomCodes : d # c => toSockets[d] = roomToSockets[d]
        /\ \A t \in Sockets \ doubled :
             IF socketToRoom[t] = c THEN t \in toSockets[c] \/ toRoom[t] = NoRoom
             ELSE t \notin toSockets[c] /\ toRoom[t] = socketToRoom[t]
        /\ DeleteRoom(c, left, toRoom, toSockets, toRoomOfPlayer)
    BY <1>2, <1>5, <2>1, <2>3
  <2> HIDE DEF toRoom, toSockets
  <2> QED
    BY <1>2, <1>4, <2>4, <2>5, CloseStep
<1>6. CASE /\ room' = [room EXCEPT ![c] = left]
           /\ socketToRoom' = Unmapped({s}) /\ roomToSockets' = SocketsWithout({s})
           /\ playerToRoom' = toRoomOfPlayer /\ UNCHANGED rooms
  <2>1. UNCHANGED <<doubled, ghosts, unmapped>>
    BY DEF history
  <2>2. Shapes'
    BY <1>1, <1>2, <1>6, <2>1 DEF Shapes
  <2>3. Lists'
    <3>1. /\ rooms' = rooms \cup {c} /\ RoomGood(left, unmapped')
          /\ unmapped \subseteq unmapped' /\ ids <= ids' /\ ids' \in Nat
      BY <1>1, <1>6, <2>1
    <3>2. \A q \in left.tokens \ unmapped' : playerToRoom'[q] = c
      BY <1>1, <1>6, <2>1 DEF Lists
    <3>3. \A q \in 1 .. ids : q \notin room[c].players => playerToRoom'[q] = playerToRoom[q]
      BY <1>1, <1>4, <1>6
    <3> QED
      BY <1>1, <1>6, <3>1, <3>2, <3>3, ListsFollow
  <2>4. Indexes'
    <3>1. Frees(room[c], left, s)
      BY DEF Leaves, Frees
    <3>2. /\ socketToRoom[s] = c \/ s \in doubled \/ s \notin sockets
          /\ sockets' = sockets \/ (sockets' = sockets \ {s} /\ socketToRoom[s] = c)
      OBVIOUS
    <3>3. /\ Shapes /\ Lists /\ Indexes
          /\ room' = [room EXCEPT ![c] = left]
          /\ socketToRoom' = Unmapped({s}) /\ roomToSockets' = SocketsWithout({s})
          /\ UNCHANGED <<rooms, doubled, ghosts>>
      BY <1>1, <1>6, <2>1
    <3> QED
      BY <3>1, <3>2, <3>3, IndexesWithout
  <2>5. StartsFull
    BY <1>1, <1>6, NoneStarts
  <2> QED
    BY <2>2, <2>3, <2>4, <2>5 DEF LobbyInv
<1> QED
  BY <1>5, <1>6 DEF KeepUnlessEmpty

\* A spectator goes.
LEMMA StopSpectatingStep ==
    ASSUME LobbyInv, NEW s \in Sockets, InRoom(s), s \in RoomFor(s).spectators, StopSpectating(s),
           sockets' \in {sockets, sockets \ {s}},
           UNCHANGED <<created, requests, ids, history>>
    PROVE  LobbyInv' /\ StartsFull
<1> DEFINE c == socketToRoom[s]
           r == [room[c] EXCEPT !.spectators = room[c].spectators \ {s}]
<1>1. Shapes /\ Lists /\ Indexes /\ c \in RoomCodes /\ c \in rooms /\ s \in room[c].spectators
      /\ RoomGood(room[c], unmapped) /\ ids \in Nat
  BY CodesAreNumbers DEF LobbyInv, InRoom, RoomFor, Lists
<1>2. /\ room' = [room EXCEPT ![c] = r]
      /\ socketToRoom' = Unmapped({s}) /\ roomToSockets' = SocketsWithout({s})
      /\ UNCHANGED <<rooms, playerToRoom, doubled, ghosts, unmapped>>
  BY <1>1 DEF StopSpectating, history, Lists
<1>3. room[c].spectators \ {s} \in SUBSET Sockets
  BY <1>1 DEF Lists, RoomRecords
<1>4. /\ RoomGood(r, unmapped) /\ r.spectators = room[c].spectators \ {s}
      /\ \A f \in {"players", "tokens", "connected", "playerToSocket", "socketToPlayer",
                   "gamePhase"} : r[f] = room[c][f]
  BY <1>1, <1>3, SpectatorsGood
<1>5. /\ r.players = room[c].players /\ r.tokens = room[c].tokens
      /\ r.connected = room[c].connected /\ r.playerToSocket = room[c].playerToSocket
      /\ r.socketToPlayer = room[c].socketToPlayer /\ r.gamePhase = room[c].gamePhase
  BY <1>4
<1> HIDE DEF r, c
<1>6. Shapes'
  BY <1>1, <1>2, WithoutShapes DEF Shapes
<1>7. Lists'
  <2>1. /\ rooms' = rooms \cup {c} /\ RoomGood(r, unmapped')
        /\ unmapped \subseteq unmapped' /\ ids <= ids' /\ ids' \in Nat
    BY <1>1, <1>2, <1>4
  <2>2. \A q \in r.tokens \ unmapped' : playerToRoom'[q] = c
    BY <1>1, <1>2, <1>5 DEF Lists
  <2> QED
    BY <1>1, <1>2, <1>5, <2>1, <2>2, ListsFollow
<1>8. Indexes'
  <2>1. s \notin doubled => room[c].socketToPlayer[s] = NoPlayer
    BY <1>1 DEF Indexes, Watching
  <2>2. NoPlayer \notin room[c].connected
    BY <1>1, PlayersAreFew DEF Lists, RoomRecords
  <2>3. Frees(room[c], r, s)
    BY <1>4, <1>5, <2>1, <2>2 DEF Frees
  <2>4. socketToRoom[s] = c
    BY DEF c
  <2>5. /\ socketToRoom[s] = c \/ s \in doubled \/ s \notin sockets
        /\ sockets' = sockets \/ (sockets' = sockets \ {s} /\ socketToRoom[s] = c)
    BY <2>4
  <2>6. UNCHANGED <<rooms, doubled, ghosts>>
    BY <1>2
  <2> QED
    BY <1>1, <1>2, <2>3, <2>5, <2>6, IndexesWithout
<1>9. StartsFull
  BY <1>1, <1>2, <1>5, NoneStarts
<1> QED
  BY <1>6, <1>7, <1>8, <1>9 DEF LobbyInv

\* addPlayer for a request that was let in: the room is registered, new, or closed since.
LEMMA SeatStep ==
    ASSUME LobbyInv, NEW s \in Sockets, NEW c \in 1 .. created', NEW r,
           c \in rooms => r = room[c], c > created => r = EmptyRoom,
           created' \in created .. MaxRooms, c > created => c = created',
           c \in rooms' <=> c \in rooms \/ c > created, rooms \subseteq rooms',
           rooms' \subseteq rooms \cup {c}, c \notin rooms' => created' = created,
           c <= created => created' = created,
           requests' \subseteq requests, Seat(s, c, r)
    PROVE  LobbyInv' /\ StartsFull
<1> DEFINE p == ids + 1
<1>1. Shapes /\ Lists /\ Indexes /\ created \in Nat /\ ids \in Nat /\ c \in RoomCodes /\ p \in Players
      /\ p \notin 1 .. ids /\ rooms \subseteq RoomCodes /\ 1 .. ids \subseteq Players
  <2>1. Shapes /\ Lists /\ Indexes /\ MaxRooms \in Nat
    BY LobbyAssumption DEF LobbyInv
  <2>2. created' \in Nat /\ c \in Nat /\ 1 <= c /\ c <= MaxRooms
    BY <2>1 DEF Shapes
  <2> QED
    BY <2>1, <2>2, CodesAreNumbers DEF Seat, RoomCodes
<1>2. /\ ids' = p /\ ids < MaxIds /\ MapSocket(s, c)
      /\ room' = [room EXCEPT ![c] = IF c \in rooms' THEN AddPlayer(r, p, s) ELSE @]
      /\ playerToRoom' = [playerToRoom EXCEPT ![p] = c]
      /\ doubled' = IF InRoom(s) THEN doubled \cup {s} ELSE doubled
      /\ ghosts' = IF s \in sockets THEN ghosts ELSE ghosts \cup {p}
      /\ UNCHANGED <<sockets, unmapped>>
  BY DEF Seat
<1>3. \A q \in Players : playerToRoom'[q] = IF q = p THEN c ELSE playerToRoom[q]
  BY <1>1, <1>2 DEF Shapes
<1> HIDE DEF p
<1>4. Shapes'
  <2>1. /\ created' \in 0 .. MaxRooms /\ rooms' \subseteq 1 .. created'
        /\ 1 .. created \subseteq 1 .. created'
    BY <1>1 DEF Shapes
  <2>2. socketToRoom' \in [Sockets -> 1 .. created' \cup {NoRoom}]
    <3> DEFINE Codes == 1 .. created' \cup {NoRoom}
    <3>1. socketToRoom \in [Sockets -> Codes] /\ c \in Codes
      BY <1>1, <2>1 DEF Shapes
    <3> HIDE DEF Codes
    <3>2. socketToRoom' \in [Sockets -> Codes]
      BY <1>2, <3>1 DEF MapSocket
    <3> QED
      BY <3>2 DEF Codes
  <2>3. /\ roomToSockets' \in [RoomCodes -> SUBSET Sockets]
        /\ \A d \in RoomCodes : d > created' => roomToSockets'[d] = {}
    BY <1>1, <1>2 DEF MapSocket, Shapes, RoomCodes
  <2>4. playerToRoom' \in [Players -> RoomCodes \cup {NoRoom}]
    BY <1>1, <1>2 DEF Shapes
  <2>5. requests' \subseteq [socket : Accounts, room : 1 .. created' \cup {NoRoom}]
    BY <2>1 DEF Shapes, LobbyInv
  <2>6. /\ sockets' \subseteq Sockets /\ doubled' \subseteq Sockets /\ ghosts' \subseteq Players
        /\ unmapped' \subseteq Players
    BY <1>1, <1>2 DEF Shapes
  <2>7. ids' \in 0 .. MaxIds
    BY <1>1, <1>2, LobbyAssumption DEF p
  <2> QED
    BY <2>1, <2>2, <2>3, <2>4, <2>5, <2>6, <2>7 DEF Shapes
<1>5. CASE c \in rooms'
  <2> DEFINE a == AddPlayer(room[c], p, s)
  <2>1. r = room[c] /\ (c \notin rooms => r = EmptyRoom)
    BY <1>1, <1>5 DEF Lists
  <2>2. RoomGood(room[c], unmapped) /\ p \in Players \ room[c].players
    BY <1>1 DEF Lists
  <2>3. /\ RoomGood(a, unmapped) /\ a.players = room[c].players \cup {p}
        /\ a.tokens = room[c].tokens \cup {p} /\ a.gamePhase = room[c].gamePhase
    BY <1>1, <2>2, AddPlayerGood
  <2>4. room' = [room EXCEPT ![c] = a] /\ rooms' = rooms \cup {c}
    BY <1>2, <1>5, <2>1
  <2>5. c \in rooms \/ c > created
    BY <1>5
  <2>6. Indexes'
    BY <1>1, <1>2, <2>2, <2>4, <2>5, IndexesSeat
  <2> HIDE DEF a
  <2>7. Lists'
    <3>1. a.players \subseteq room[c].players \cup ((ids + 1) .. ids') /\ ids <= ids' /\ ids' \in Nat
      BY <1>1, <1>2, <2>3 DEF p
    <3>2. \A q \in a.tokens \ unmapped' : playerToRoom'[q] = c
      <4>1. room[c].tokens \subseteq Players
        BY <2>2 DEF RoomGood, RoomRecords
      <4>2. \A q \in room[c].tokens \ unmapped : playerToRoom[q] = c
        <5>1. CASE c \in rooms
          BY <1>1, <5>1 DEF Lists
        <5>2. CASE c \notin rooms
          BY <2>1, <5>2 DEF EmptyRoom
        <5> QED
          BY <5>1, <5>2
      <4> QED
        BY <1>1, <1>2, <1>3, <2>3, <4>1, <4>2
    <3>3. \A q \in 1 .. ids : q \notin room[c].players => playerToRoom'[q] = playerToRoom[q]
      BY <1>1, <1>3
    <3>4. RoomGood(a, unmapped') /\ unmapped \subseteq unmapped'
      BY <1>2, <2>3
    <3> QED
      BY <1>1, <2>4, <3>1, <3>2, <3>3, <3>4, ListsFollow
  <2>8. StartsFull
    <3>1. room[c].gamePhase = "LOBBY" => a.gamePhase # "PLAYING"
      BY <2>3
    <3> QED
      BY <1>1, <2>4, <3>1, NoneStarts
  <2> QED
    BY <1>4, <2>6, <2>7, <2>8 DEF LobbyInv
<1>6. CASE c \notin rooms'
  <2>1. room' = room /\ rooms' = rooms /\ c \in RoomCodes \ rooms
    <3>1. room' = [room EXCEPT ![c] = room[c]]
      BY <1>2, <1>6
    <3>2. room' = room
      BY <1>1, <3>1 DEF Lists
    <3> QED
      BY <1>1, <1>6, <3>2
  <2>2. ghosts \subseteq ghosts'
    BY <1>2
  <2>3. Indexes'
    BY <1>1, <1>2, <2>1, <2>2, IndexesSeatNowhere
  <2>4. Lists'
    <3>1. \A d \in RoomCodes : room[d].players \subseteq 1 .. ids'
      BY <1>1, <1>2 DEF Lists, p
    <3>2. \A d \in rooms : \A q \in room[d].tokens \ unmapped : playerToRoom'[q] = d
      <4> SUFFICES ASSUME NEW d \in rooms, NEW q \in room[d].tokens \ unmapped
                   PROVE  playerToRoom'[q] = d
        OBVIOUS
      <4>1. q \in room[d].players /\ d \in RoomCodes
        BY <1>1 DEF Lists, RoomGood, SeatsGood, RoomShape, Humans
      <4>2. q \in Players /\ q # p
        BY <1>1, <4>1 DEF Lists
      <4> QED
        BY <1>1, <1>3, <4>2 DEF Lists
    <3> QED
      BY <1>1, <1>2, <2>1, <3>1, <3>2 DEF Lists
  <2>5. StartsFull
    BY <2>1 DEF StartsFull
  <2> QED
    BY <1>4, <2>3, <2>4, <2>5 DEF LobbyInv
<1> QED
  BY <1>5, <1>6

LEMMA NewRoomStep ==
    ASSUME LobbyInv, NEW s \in Sockets, SeatInNewRoom(s), requests' \subseteq requests
    PROVE  LobbyInv' /\ StartsFull
<1> DEFINE c == created + 1
<1>1. /\ created \in Nat /\ created < MaxRooms /\ created' = c /\ rooms' = rooms \cup {c}
      /\ c \notin rooms /\ Seat(s, c, EmptyRoom) /\ MaxRooms \in Nat
  BY LobbyAssumption, CodesAreNumbers DEF LobbyInv, SeatInNewRoom
<1>2. c \in 1 .. created' /\ created' \in created .. MaxRooms /\ c > created
  BY <1>1
<1> HIDE DEF c
<1>3. c \in rooms' /\ rooms \subseteq rooms' /\ ~(c <= created)
  BY <1>1, <1>2 DEF c
<1> QED
  BY <1>1, <1>2, <1>3, SeatStep

LEMMA CreateRoomStep ==
    ASSUME LobbyInv, NEW s \in Sockets, CreateRoom(s)
    PROVE  LobbyInv' /\ StartsFull
BY NewRoomStep DEF CreateRoom

LEMMA JoinRoomStep ==
    ASSUME LobbyInv, NEW s \in Sockets, NEW c \in rooms, JoinRoom(s, c)
    PROVE  LobbyInv' /\ StartsFull
<1>1. /\ c \in 1 .. created /\ created \in Nat /\ created \in 0 .. MaxRooms /\ MaxRooms \in Nat
      /\ UNCHANGED <<created, rooms, requests>> /\ Seat(s, c, room[c])
  BY LobbyAssumption, CodesAreNumbers DEF LobbyInv, Shapes, JoinRoom
<1>2. c \in 1 .. created' /\ created' \in created .. MaxRooms /\ ~(c > created)
  BY <1>1
<1> QED
  BY <1>1, <1>2, SeatStep

LEMMA AnsweredStep ==
    ASSUME LobbyInv, NEW q \in requests, Answered(q)
    PROVE  LobbyInv' /\ StartsFull
<1>1. q.socket \in Sockets /\ q.room \in 1 .. created \cup {NoRoom} /\ requests' \subseteq requests
  BY LobbyAssumption DEF LobbyInv, Shapes, Answered
<1>2. CASE q.room = NoRoom
  BY <1>1, <1>2, NewRoomStep DEF Answered
<1>3. CASE q.room # NoRoom
  <2> DEFINE c == q.room
  <2>1. /\ c \in 1 .. created /\ created \in Nat /\ created \in 0 .. MaxRooms /\ MaxRooms \in Nat
        /\ UNCHANGED <<created, rooms>> /\ Seat(q.socket, c, room[c])
    BY <1>1, <1>3, LobbyAssumption, CodesAreNumbers DEF LobbyInv, Shapes, Answered
  <2> HIDE DEF c
  <2>2. c \in 1 .. created' /\ created' \in created .. MaxRooms /\ ~(c > created)
    BY <2>1
  <2> QED
    BY <1>1, <2>1, <2>2, SeatStep
<1> QED
  BY <1>2, <1>3

LEMMA AskStep ==
    ASSUME LobbyInv, NEW s \in Sockets, NEW c \in rooms \cup {NoRoom}, Ask(s, c)
    PROVE  LobbyInv' /\ StartsFull
<1>1. Shapes /\ Lists /\ Indexes /\ rooms \subseteq 1 .. created
  BY DEF LobbyInv, Shapes
<1>2. /\ UNCHANGED <<room, created, ids, sockets, rooms, socketToRoom, roomToSockets, playerToRoom,
                     doubled, ghosts, unmapped>>
      /\ requests' = requests \cup {[socket |-> s, room |-> c]} /\ s \in Accounts
  BY DEF Ask, unmoved, history
<1>3. Shapes'
  BY <1>1, <1>2 DEF Shapes
<1>4. Lists' /\ StartsFull
  BY <1>1, <1>2 DEF Lists, StartsFull
<1>5. Seated' /\ KnownThere'
  BY <1>1, <1>2 DEF Indexes, Seated, KnownThere, Reachable, InRoom, RoomFor
<1>6. MappedBack'
  BY <1>1, <1>2 DEF Indexes, MappedBack
<1>7. Watching'
  BY <1>1, <1>2 DEF Indexes, Watching
<1> QED
  BY <1>1, <1>3, <1>4, <1>5, <1>6, <1>7 DEF LobbyInv, Indexes

LEMMA ReturnStep ==
    ASSUME LobbyInv, NEW s \in Sockets, NEW c \in rooms, NEW p \in Players, Return(s, c, p)
    PROVE  LobbyInv' /\ StartsFull
<1> DEFINE r == room[c]
           a == Reseat(room[c], p, s)
<1>1. Shapes /\ Lists /\ Indexes /\ c \in RoomCodes /\ c \in 1 .. created /\ created \in Nat
      /\ ids \in Nat /\ RoomGood(r, unmapped)
  BY CodesAreNumbers DEF LobbyInv, Shapes, Lists
<1>2. /\ s \in sockets /\ ~InRoom(s) /\ p \in r.tokens /\ r.playerToSocket[p] # s
      /\ room' = [room EXCEPT ![c] = a]
      /\ socketToRoom' = [Unmapped({r.playerToSocket[p]}) EXCEPT ![s] = c]
      /\ roomToSockets' = [SocketsWithout({r.playerToSocket[p]}) EXCEPT ![c] = @ \cup {s}]
      /\ UNCHANGED <<created, rooms, playerToRoom, sockets, requests, ids, doubled, ghosts,
                     unmapped>>
  BY <1>1 DEF Return, history, Lists
<1>3. Indexes'
  BY <1>1, <1>2, IndexesReturn
<1>4. /\ RoomGood(a, unmapped)
      /\ \A f \in {"players", "tokens", "spectators", "gamePhase"} : a[f] = r[f]
  BY <1>1, <1>2, ReseatGood
<1>5. a.players = r.players /\ a.tokens = r.tokens /\ a.gamePhase = r.gamePhase
  BY <1>4
<1>6. Shapes'
  <2> DEFINE old == r.playerToSocket[p]
             Codes == 1 .. created \cup {NoRoom}
  <2>1. /\ Unmapped({old}) \in [Sockets -> Codes]
        /\ SocketsWithout({old}) \in [RoomCodes -> SUBSET Sockets]
        /\ \A d \in RoomCodes : d > created => SocketsWithout({old})[d] = {}
    BY <1>1, WithoutShapes
  <2>2. c \in Codes /\ ~(c > created)
    BY <1>1
  <2> HIDE DEF old
  <2>3. socketToRoom' \in [Sockets -> Codes]
    <3> HIDE DEF Codes
    <3> QED
      BY <1>2, <2>1, <2>2 DEF old
  <2>4. roomToSockets' = [SocketsWithout({old}) EXCEPT ![c] = SocketsWithout({old})[c] \cup {s}]
    BY <1>1, <1>2, <2>1 DEF old
  <2>5. /\ roomToSockets' \in [RoomCodes -> SUBSET Sockets]
        /\ \A d \in RoomCodes : d > created => roomToSockets'[d] = {}
    BY <1>1, <2>1, <2>2, <2>4
  <2> QED
    BY <1>1, <1>2, <2>3, <2>5 DEF Shapes
<1>7. Lists'
  <2>1. /\ rooms' = rooms \cup {c} /\ RoomGood(a, unmapped')
        /\ unmapped \subseteq unmapped' /\ ids <= ids' /\ ids' \in Nat
    BY <1>1, <1>2, <1>4
  <2>2. \A q \in a.tokens \ unmapped' : playerToRoom'[q] = c
    BY <1>1, <1>2, <1>5 DEF Lists
  <2> HIDE DEF a
  <2> QED
    BY <1>1, <1>2, <1>5, <2>1, <2>2, ListsFollow
<1>8. StartsFull
  <2> HIDE DEF a
  <2> QED
    BY <1>1, <1>2, <1>5, NoneStarts
<1> QED
  BY <1>3, <1>6, <1>7, <1>8 DEF LobbyInv

LEMMA SpectateStep ==
    ASSUME LobbyInv, NEW s \in Sockets, NEW c \in rooms, Spectate(s, c)
    PROVE  LobbyInv' /\ StartsFull
<1> DEFINE r == room[c]
           S == r.spectators \cup {s}
           a == [r EXCEPT !.spectators = S]
<1>1. Shapes /\ Lists /\ Indexes /\ c \in RoomCodes /\ c \in 1 .. created /\ created \in Nat
      /\ ids \in Nat /\ RoomGood(r, unmapped) /\ r \in RoomRecords
  BY CodesAreNumbers DEF LobbyInv, Shapes, Lists
<1>2. /\ s \in sockets /\ ~InRoom(s) /\ r.gamePhase # "LOBBY" /\ MapSocket(s, c)
      /\ room' = [room EXCEPT ![c] = a]
      /\ UNCHANGED <<created, rooms, playerToRoom, sockets, requests, ids, doubled, ghosts,
                     unmapped>>
  BY <1>1 DEF Spectate, history, Lists
<1>3. S \in SUBSET Sockets
  BY <1>1 DEF RoomRecords
<1>4. /\ RoomGood(a, unmapped) /\ a.spectators = S
      /\ \A f \in {"players", "tokens", "connected", "playerToSocket", "socketToPlayer",
                   "gamePhase"} : a[f] = r[f]
  BY <1>1, <1>2, <1>3, SpectatorsGood
<1>5. a.players = r.players /\ a.tokens = r.tokens /\ a.gamePhase = r.gamePhase
  BY <1>4
<1> HIDE DEF a
<1>6. Indexes'
  <2>1. \A f \in {"connected", "playerToSocket", "socketToPlayer"} : a[f] = r[f]
    BY <1>4
  <2> QED
    BY <1>1, <1>2, <1>4, <2>1, IndexesWatch
<1>7. Shapes'
  <2> DEFINE Codes == 1 .. created \cup {NoRoom}
  <2>1. c \in Codes /\ ~(c > created) /\ socketToRoom \in [Sockets -> Codes]
    BY <1>1 DEF Shapes
  <2>2. socketToRoom' \in [Sockets -> Codes]
    <3> HIDE DEF Codes
    <3> QED
      BY <1>2, <2>1 DEF MapSocket
  <2>3. /\ roomToSockets' \in [RoomCodes -> SUBSET Sockets]
        /\ \A d \in RoomCodes : d > created => roomToSockets'[d] = {}
    BY <1>1, <1>2, <2>1 DEF MapSocket, Shapes
  <2> QED
    BY <1>1, <1>2, <2>2, <2>3 DEF Shapes
<1>8. Lists'
  <2>1. /\ rooms' = rooms \cup {c} /\ RoomGood(a, unmapped')
        /\ unmapped \subseteq unmapped' /\ ids <= ids' /\ ids' \in Nat
    BY <1>1, <1>2, <1>4
  <2>2. \A q \in a.tokens \ unmapped' : playerToRoom'[q] = c
    BY <1>1, <1>2, <1>5 DEF Lists
  <2> QED
    BY <1>1, <1>2, <1>5, <2>1, <2>2, ListsFollow
<1>9. StartsFull
  BY <1>1, <1>2, <1>5, NoneStarts
<1> QED
  BY <1>6, <1>7, <1>8, <1>9 DEF LobbyInv

LEMMA LeaveRoomStep ==
    ASSUME LobbyInv, NEW s \in Sockets, LeaveRoom(s)
    PROVE  LobbyInv' /\ StartsFull
<1> DEFINE c == socketToRoom[s]
           r == room[c]
           p == r.socketToPlayer[s]
           left == IF p # NoPlayer /\ r.gamePhase = "PLAYING"
                     THEN DetachPlayer(Eliminate(r, p), s) ELSE RemovePlayer(r, s)
           forgotten == IF p = NoPlayer THEN playerToRoom ELSE Forget(p)
<1>1. Shapes /\ Lists /\ c \in rooms /\ c \in RoomCodes /\ RoomGood(r, unmapped) /\ InRoom(s)
  BY CodesAreNumbers DEF LobbyInv, Lists, LeaveRoom, InRoom
<1>2. UNCHANGED <<created, sockets, requests, ids, history>>
  BY DEF LeaveRoom
<1>3. CASE s \in r.spectators
  BY <1>1, <1>2, <1>3, StopSpectatingStep DEF LeaveRoom, RoomFor
<1>4. CASE s \notin r.spectators
  <2>1. KeepUnlessEmpty(c, left, Unmapped({s}), SocketsWithout({s}), forgotten)
    BY <1>4 DEF LeaveRoom, RoomFor
  <2> HIDE DEF left
  <2>2. /\ RoomGood(left, unmapped) /\ Leaves(r, left, s)
        /\ left.players \subseteq r.players /\ left.tokens \subseteq r.tokens \ {p}
        /\ r.gamePhase = "LOBBY" => left.gamePhase = "LOBBY"
    <3>1. left = IF r.socketToPlayer[s] # NoPlayer /\ r.gamePhase = "PLAYING"
                   THEN DetachPlayer(Eliminate(r, r.socketToPlayer[s]), s) ELSE RemovePlayer(r, s)
      BY DEF left
    <3> HIDE DEF r
    <3> QED
      BY <1>1, <3>1, LeavingGood
  <2>3. r.tokens \subseteq Players
    BY <1>1 DEF RoomGood, RoomRecords
  <2>4. \A q \in left.tokens : forgotten[q] = playerToRoom[q]
    BY <1>1, <2>2, <2>3 DEF Forget, Shapes
  <2>5. forgotten \in {playerToRoom, Forget(r.socketToPlayer[s])}
    OBVIOUS
  <2>6. left.tokens \subseteq r.tokens /\ (r.gamePhase = "LOBBY" => left.gamePhase # "PLAYING")
    BY <2>2
  <2> HIDE DEF forgotten
  <2> QED
    BY <1>1, <1>2, <1>4, <2>1, <2>2, <2>4, <2>5, <2>6, GoingStep
<1> QED
  BY <1>3, <1>4

LEMMA DisconnectStep ==
    ASSUME LobbyInv, NEW s \in Sockets, Disconnect(s)
    PROVE  LobbyInv' /\ StartsFull
<1> DEFINE c == socketToRoom[s]
           r == room[c]
           p == r.socketToPlayer[s]
           left == HandleDisconnect(r, s)
           forgotten == IF p # NoPlayer /\ p \notin left.players THEN Forget(p) ELSE playerToRoom
<1>1. Shapes /\ Lists /\ Indexes /\ rooms \subseteq RoomCodes
  BY CodesAreNumbers DEF LobbyInv
<1>2. UNCHANGED <<created, requests, ids, history>> /\ sockets' = sockets \ {s} /\ s \in sockets
  BY DEF Disconnect
<1>3. CASE ~InRoom(s)
  <2>1. UNCHANGED <<room, rooms, socketToRoom, roomToSockets, playerToRoom, created, requests, ids,
                    doubled, ghosts, unmapped>>
    BY <1>2, <1>3 DEF Disconnect, unmoved, history
  <2>2. Shapes'
    BY <1>1, <1>2, <2>1 DEF Shapes
  <2>3. Lists' /\ StartsFull
    BY <1>1, <2>1 DEF Lists, StartsFull
  <2>4. \A t \in sockets : t \notin sockets' => socketToRoom[t] \notin rooms
    BY <1>2, <1>3 DEF InRoom
  <2>5. sockets' \subseteq sockets
    BY <1>2
  <2>6. Seated'
    BY <1>1, <2>1, <2>4, <2>5 DEF Indexes, Seated, Reachable
  <2>7. KnownThere'
    BY <1>1, <2>1 DEF Indexes, KnownThere, InRoom, RoomFor
  <2>8. MappedBack'
    BY <1>1, <2>1 DEF Indexes, MappedBack
  <2>9. Watching'
    BY <1>1, <2>1, <2>4 DEF Indexes, Watching
  <2> QED
    BY <2>2, <2>3, <2>6, <2>7, <2>8, <2>9 DEF LobbyInv, Indexes
<1>4. CASE InRoom(s) /\ s \in r.spectators
  BY <1>2, <1>4, StopSpectatingStep DEF Disconnect, RoomFor
<1>5. CASE InRoom(s) /\ s \notin r.spectators
  <2>1. c \in rooms /\ c \in RoomCodes /\ RoomGood(r, unmapped)
    BY <1>1, <1>5 DEF Lists, InRoom
  <2>2. KeepUnlessEmpty(c, left, Unmapped({s}), SocketsWithout({s}), forgotten)
    BY <1>5 DEF Disconnect, RoomFor
  <2>3. /\ RoomGood(left, unmapped) /\ Leaves(r, left, s)
        /\ left.players \subseteq r.players /\ left.tokens \subseteq r.tokens
        /\ left.tokens \subseteq left.players /\ left.gamePhase = r.gamePhase
    BY <2>1, HandleDisconnectGood
  <2>4. r.tokens \subseteq Players
    BY <2>1 DEF RoomGood, RoomRecords
  <2> HIDE DEF left
  <2>5. \A q \in left.tokens : forgotten[q] = playerToRoom[q]
    BY <1>1, <2>3, <2>4 DEF Forget, Shapes
  <2>6. forgotten \in {playerToRoom, Forget(r.socketToPlayer[s])}
    OBVIOUS
  <2>7. /\ r.gamePhase = "LOBBY" => left.gamePhase # "PLAYING"
        /\ sockets' \in {sockets, sockets \ {s}}
    BY <1>2, <2>3
  <2> HIDE DEF forgotten
  <2> QED
    BY <1>1, <1>2, <1>5, <2>1, <2>2, <2>3, <2>5, <2>6, <2>7, GoingStep
<1> QED
  BY <1>3, <1>4, <1>5

\* Such a step, when it starts no game either.
LEMMA QuietEnough ==
    ASSUME LobbyInv, NEW c \in rooms, NEW r, RoomGood(r, unmapped), Quietly(room[c], r),
           r.players \subseteq room[c].players, r.tokens \subseteq room[c].tokens,
           room[c].gamePhase = "LOBBY" => r.gamePhase # "PLAYING",
           room' = [room EXCEPT ![c] = r],
           UNCHANGED <<created, unmoved, sockets, requests, ids, history>>
    PROVE  LobbyInv' /\ StartsFull
<1>1. Shapes /\ Lists /\ c \in RoomCodes
  BY CodesAreNumbers DEF LobbyInv
<1>2. StartsFull
  BY <1>1, NoneStarts
<1> QED
  BY <1>2, QuietStep

LEMMA DisconnectTimeoutStep ==
    ASSUME LobbyInv, NEW c \in rooms, NEW p \in Players, DisconnectTimeout(c, p)
    PROVE  LobbyInv' /\ StartsFull
<1> DEFINE r == room[c]
           q == [r EXCEPT !.timers = @ \ {p}]
           found == playerToRoom[p] = c
           a == IF found /\ q.gamePhase # "LOBBY" THEN Eliminate(q, p) ELSE q
<1>1. Shapes /\ Lists /\ c \in RoomCodes /\ RoomGood(r, unmapped) /\ r \in RoomRecords
  BY CodesAreNumbers DEF LobbyInv, Lists
<1>2. /\ p \in r.timers /\ ~r.countdown /\ room' = [room EXCEPT ![c] = a]
      /\ UNCHANGED <<created, unmoved, sockets, requests, ids, history>>
  BY <1>1 DEF DisconnectTimeout, Lists
<1>3. found \in BOOLEAN /\ (found \/ p \in unmapped)
  <2>1. p \in r.tokens
    BY <1>1, <1>2 DEF RoomGood, SeatsGood
  <2> QED
    BY <1>1, <2>1 DEF Lists
<1>4. /\ RoomGood(a, unmapped) /\ Quietly(r, a) /\ r.gamePhase # "LOBBY"
      /\ a.players = r.players /\ a.tokens = r.tokens
  <2> HIDE DEF found
  <2> QED
    BY <1>1, <1>2, <1>3, TimerFires
<1> HIDE DEF a
<1> QED
  BY <1>2, <1>4, QuietEnough

LEMMA CloseRoomStep ==
    ASSUME LobbyInv, NEW s \in Sockets, CloseRoom(s)
    PROVE  LobbyInv' /\ StartsFull
BY CloseAsIs DEF CloseRoom, IsHost, InRoom, RoomFor

LEMMA SweepRoomStep ==
    ASSUME LobbyInv, NEW c \in rooms, SweepRoom(c)
    PROVE  LobbyInv' /\ StartsFull
BY CloseAsIs DEF SweepRoom

\* The host is a human who is connected.
LEMMA HostIsHere ==
    ASSUME LobbyInv, NEW s \in Sockets, IsHost(s)
    PROVE  /\ socketToRoom[s] \in rooms /\ RoomFor(s) = room[socketToRoom[s]]
           /\ RoomGood(RoomFor(s), unmapped) /\ RoomFor(s) \in RoomRecords
           /\ RoomFor(s).hostId \in RoomFor(s).connected
           /\ RoomFor(s).hostId \in Humans(RoomFor(s))
<1>1. /\ socketToRoom[s] \in rooms /\ RoomFor(s) = room[socketToRoom[s]]
      /\ RoomGood(RoomFor(s), unmapped) /\ RoomFor(s) \in RoomRecords /\ SeatsGood(RoomFor(s))
  BY CodesAreNumbers DEF LobbyInv, Lists, IsHost, InRoom, RoomFor, RoomGood
<1>2. RoomFor(s).socketToPlayer[s] = RoomFor(s).hostId /\ RoomFor(s).hostId # NoPlayer
  BY DEF IsHost
<1> HIDE DEF RoomFor
<1> QED
  BY <1>1, <1>2, SeatFacts

LEMMA UpdateSettingsStep ==
    ASSUME LobbyInv, NEW s \in Sockets, NEW n \in SeatChoices, UpdateSettings(s, n)
    PROVE  LobbyInv' /\ StartsFull
<1> DEFINE r == RoomFor(s)
           c == socketToRoom[s]
           a == [r EXCEPT !.maxPlayers = n]
<1>1. c \in rooms /\ r = room[c] /\ RoomGood(r, unmapped)
  BY HostIsHere DEF UpdateSettings
<1>2. /\ room' = [room EXCEPT ![c] = a] /\ r.gamePhase = "LOBBY"
      /\ UNCHANGED <<created, unmoved, sockets, requests, ids, history>>
  BY DEF UpdateSettings, HostSets
<1>3. /\ RoomGood(a, unmapped) /\ Quietly(r, a)
      /\ \A f \in {"players", "tokens", "gamePhase"} : a[f] = r[f]
  <2> HIDE DEF r
  <2> QED
    BY <1>1, SettingsGood
<1>4. a.players = r.players /\ a.tokens = r.tokens /\ a.gamePhase = "LOBBY"
  BY <1>2, <1>3
<1> HIDE DEF a, r, c
<1> QED
  BY <1>1, <1>2, <1>3, <1>4, QuietEnough

LEMMA GameStartStep ==
    ASSUME LobbyInv, NEW s \in Sockets, GameStart(s)
    PROVE  LobbyInv' /\ StartsFull
<1> DEFINE r == RoomFor(s)
           c == socketToRoom[s]
           a == [r EXCEPT !.countdown = TRUE]
<1>1. c \in rooms /\ r = room[c] /\ RoomGood(r, unmapped)
  BY HostIsHere DEF GameStart
<1>2. /\ room' = [room EXCEPT ![c] = a] /\ r.gamePhase = "LOBBY" /\ Cardinality(r.players) >= 2
      /\ UNCHANGED <<created, unmoved, sockets, requests, ids, history>>
  BY DEF GameStart, HostSets
<1>3. /\ RoomGood(a, unmapped) /\ Quietly(r, a)
      /\ \A f \in {"players", "tokens", "gamePhase"} : a[f] = r[f]
  <2> HIDE DEF r
  <2> QED
    BY <1>1, <1>2, CountdownGood
<1>4. a.players = r.players /\ a.tokens = r.tokens /\ a.gamePhase = "LOBBY"
  BY <1>2, <1>3
<1> HIDE DEF a, r, c
<1> QED
  BY <1>1, <1>2, <1>3, <1>4, QuietEnough

LEMMA GameRematchStep ==
    ASSUME LobbyInv, NEW s \in Sockets, GameRematch(s)
    PROVE  LobbyInv' /\ StartsFull
<1> DEFINE r == RoomFor(s)
           c == socketToRoom[s]
           a == ResetForRematch(r)
<1>1. c \in rooms /\ r = room[c] /\ RoomGood(r, unmapped)
  BY HostIsHere DEF GameRematch
<1>2. /\ room' = [room EXCEPT ![c] = a] /\ r.gamePhase = "GAME_OVER"
      /\ UNCHANGED <<created, unmoved, sockets, requests, ids, history>>
  BY DEF GameRematch, HostSets
<1>3. /\ RoomGood(a, unmapped) /\ Quietly(r, a)
      /\ a.players \subseteq r.players /\ a.tokens \subseteq r.tokens
  <2> HIDE DEF r
  <2> QED
    BY <1>1, <1>2, RematchGood
<1>4. r.gamePhase # "LOBBY"
  BY <1>2
<1> HIDE DEF a, r, c
<1> QED
  BY <1>1, <1>2, <1>3, <1>4, QuietEnough

\* The callback of the countdown counts nobody; whoever was there when it started is, unless
\* he left, and nobody is out.
LEMMA CountdownEndsStep ==
    ASSUME LobbyInv, NEW c \in rooms, CountdownEnds(c)
    PROVE  LobbyInv' /\ StartsFull
<1> DEFINE r == room[c]
           a == StartGame(r)
<1>1. Shapes /\ Lists /\ c \in RoomCodes /\ RoomGood(r, unmapped) /\ r \in RoomRecords
      /\ SeatsGood(r) /\ rooms \subseteq RoomCodes
  BY CodesAreNumbers DEF LobbyInv, Lists, RoomGood
<1>2. /\ r.countdown /\ room' = [room EXCEPT ![c] = a]
      /\ UNCHANGED <<created, unmoved, sockets, requests, ids, history>>
  BY <1>1 DEF CountdownEnds, Lists
<1>3. r.gamePhase = "LOBBY" /\ r.eliminated = {}
  BY <1>1, <1>2 DEF SeatsGood, RoomShape
<1>4. Away(r) \subseteq r.timers \cup unmapped
  BY <1>1, <1>3 DEF RoomGood, AwayGood
<1>5. /\ RoomGood(a, unmapped) /\ Quietly(r, a)
      /\ a.players = r.players /\ a.tokens = r.tokens /\ a.dealt = r.players \ r.eliminated
  BY <1>1, <1>4, StartGameGood
<1> HIDE DEF a
<1>6. LobbyInv'
  BY <1>2, <1>5, QuietStep
<1>7. a.dealt = r.players /\ (Cardinality(r.players) >= 2 \/ r.leftInCountdown)
  BY <1>1, <1>2, <1>3, <1>5 DEF RoomGood, EnoughPlayers
<1>8. room'[c] = a /\ \A d \in rooms : d # c => room'[d] = room[d]
  BY <1>1, <1>2 DEF Lists
<1>9. StartsFull
  BY <1>7, <1>8 DEF StartsFull
<1> QED
  BY <1>6, <1>9

LEMMA RevealRoundStep ==
    ASSUME LobbyInv, NEW c \in rooms, RevealRound(c)
    PROVE  LobbyInv' /\ StartsFull
<1> DEFINE r == room[c]
<1>1. Shapes /\ Lists /\ c \in RoomCodes /\ RoomGood(r, unmapped) /\ r \in RoomRecords
  BY CodesAreNumbers DEF LobbyInv, Lists
<1>2. PICK p \in Active(r) : room' = [room EXCEPT ![c] = Eliminate(r, p)]
  BY <1>1 DEF RevealRound, Lists
<1>3. /\ r.gamePhase = "PLAYING" /\ p \in Players
      /\ UNCHANGED <<created, unmoved, sockets, requests, ids, history>>
  BY <1>1 DEF RevealRound, Active, RoomRecords
<1> DEFINE a == Eliminate(r, p)
<1>4. RoomGood(r, unmapped \cup {p})
  BY <1>1, LostGrow
<1>5. /\ RoomGood(a, unmapped)
      /\ \A f \in {"players", "connected", "tokens", "spectators", "playerToSocket",
                   "socketToPlayer"} : a[f] = r[f]
  BY <1>3, <1>4, EliminateGood
<1> HIDE DEF a
<1>6. Quietly(r, a) /\ a.players = r.players /\ a.tokens = r.tokens /\ r.gamePhase # "LOBBY"
  BY <1>3, <1>5 DEF Quietly
<1> QED
  BY <1>2, <1>3, <1>5, <1>6, QuietEnough DEF a

LEMMA AddBotStep ==
    ASSUME LobbyInv, NEW s \in Sockets, AddBot(s)
    PROVE  LobbyInv' /\ StartsFull
<1> DEFINE r == RoomFor(s)
           c == socketToRoom[s]
           b == ids + 1
           a == WithBot(r, b)
<1>1. /\ c \in rooms /\ r = room[c] /\ RoomGood(r, unmapped) /\ r.hostId \in Humans(r)
      /\ r.gamePhase = "LOBBY"
  BY HostIsHere DEF AddBot
<1>2. /\ Shapes /\ Lists /\ Indexes /\ c \in RoomCodes /\ ids \in Nat /\ b \in Players
      /\ b \notin 1 .. ids /\ 1 .. ids \subseteq Players
  BY <1>1, CodesAreNumbers DEF LobbyInv, AddBot
<1>3. /\ room' = [room EXCEPT ![c] = a] /\ ids' = b /\ playerToRoom' = [playerToRoom EXCEPT ![b] = c]
      /\ UNCHANGED <<created, rooms, socketToRoom, roomToSockets, sockets, requests, doubled, ghosts,
                     unmapped>>
  BY DEF AddBot, HostSets, history, WithBot
<1>4. b \notin r.players /\ r.players \subseteq Players /\ r.tokens \subseteq r.players
      /\ r.hostId \in r.players
  BY <1>1, <1>2 DEF Lists, RoomGood, RoomRecords, SeatsGood, RoomShape, Humans
<1>5. /\ RoomGood(a, unmapped) /\ Quietly(r, a) /\ a.players = r.players \cup {b}
      /\ a.tokens = r.tokens /\ a.gamePhase = r.gamePhase
  <2> HIDE DEF r, b
  <2> QED
    BY <1>1, <1>2, <1>4, BotAddedGood
<1>6. a.tokens = r.tokens /\ a.gamePhase = "LOBBY"
  BY <1>1, <1>5
<1>7. ids' \in Nat /\ ids <= ids' /\ b \in (ids + 1) .. ids' /\ ids' <= MaxIds /\ MaxIds \in Nat
  BY <1>2, <1>3, LobbyAssumption DEF AddBot
<1> HIDE DEF a, r, c, b
<1>8. \A p \in Players : playerToRoom'[p] = IF p = b THEN c ELSE playerToRoom[p]
  BY <1>2, <1>3 DEF Shapes
<1>9. Shapes'
  <2>1. playerToRoom' \in [Players -> RoomCodes \cup {NoRoom}] /\ ids' \in 0 .. MaxIds
    BY <1>2, <1>3, <1>7 DEF Shapes
  <2> QED
    BY <1>2, <1>3, <2>1 DEF Shapes
<1>10. Lists'
  <2>1. \A p \in a.tokens \ unmapped' : playerToRoom'[p] = c
    BY <1>1, <1>2, <1>3, <1>4, <1>6, <1>8 DEF Lists
  <2>2. \A p \in 1 .. ids : p \notin room[c].players => playerToRoom'[p] = playerToRoom[p]
    BY <1>2, <1>8
  <2>3. a.players \subseteq room[c].players \cup ((ids + 1) .. ids')
    BY <1>1, <1>5, <1>7
  <2>4. rooms' = rooms \cup {c} /\ unmapped \subseteq unmapped' /\ RoomGood(a, unmapped')
    BY <1>1, <1>3, <1>5
  <2> QED
    BY <1>2, <1>3, <1>7, <2>1, <2>2, <2>3, <2>4, ListsFollow
<1>11. Indexes'
  BY <1>1, <1>2, <1>3, <1>5, IndexesRest
<1>12. StartsFull
  BY <1>2, <1>3, <1>6, NoneStarts
<1> QED
  BY <1>9, <1>10, <1>11, <1>12 DEF LobbyInv

\* What removeBot leaves, whoever's id it was given.
LEMMA BotOrNobodyGood ==
    ASSUME NEW lost, NEW r, RoomGood(r, lost), r.hostId \notin r.bots, NEW b
    PROVE  /\ RoomGood(WithoutBot(r, b), lost) /\ Quietly(r, WithoutBot(r, b))
           /\ WithoutBot(r, b).players \subseteq r.players
           /\ WithoutBot(r, b).tokens = r.tokens
           /\ WithoutBot(r, b).gamePhase = r.gamePhase
<1>1. CASE b \in r.bots
  BY <1>1, BotRemovedGood
<1>2. CASE b \notin r.bots
  BY <1>2 DEF WithoutBot, Quietly
<1> QED
  BY <1>1, <1>2

\* Who is no bot of the room keeps his seat, here or elsewhere, and is unmapped.
LEMMA RemoveBotStep ==
    ASSUME LobbyInv, NEW s \in Sockets, NEW b \in Players, RemoveBot(s, b)
    PROVE  LobbyInv' /\ StartsFull
<1> DEFINE r == RoomFor(s)
           c == socketToRoom[s]
           a == WithoutBot(r, b)
<1>1. /\ c \in rooms /\ r = room[c] /\ RoomGood(r, unmapped) /\ r.hostId \in Humans(r)
      /\ r.gamePhase = "LOBBY"
  BY HostIsHere DEF RemoveBot
<1>2. Shapes /\ Lists /\ Indexes /\ c \in RoomCodes /\ ids \in Nat /\ 1 .. ids \subseteq Players
      /\ rooms \subseteq RoomCodes
  BY <1>1, CodesAreNumbers DEF LobbyInv
<1>3. /\ room' = [room EXCEPT ![c] = a] /\ playerToRoom' = Forget(b)
      /\ unmapped' = unmapped \cup {p \in {b} : \E d \in rooms : p \in room'[d].players}
      /\ UNCHANGED <<created, rooms, socketToRoom, roomToSockets, sockets, requests, ids, doubled,
                     ghosts>>
  BY DEF RemoveBot, HostSets
<1>4. r.hostId \notin r.bots
  BY <1>1 DEF Humans
<1>5. /\ RoomGood(a, unmapped) /\ Quietly(r, a) /\ a.players \subseteq r.players
      /\ a.tokens = r.tokens /\ a.gamePhase = "LOBBY"
  <2> HIDE DEF r
  <2> QED
    BY <1>1, <1>4, BotOrNobodyGood
<1> HIDE DEF a, r, c
<1>6. \A p \in Players : p # b => playerToRoom'[p] = playerToRoom[p]
  BY <1>2, <1>3 DEF Shapes, Forget
<1>7. unmapped \subseteq unmapped' /\ unmapped' \subseteq Players
  BY <1>2, <1>3 DEF Shapes
<1>8. Shapes'
  BY <1>2, <1>3, <1>7, WithoutShapes DEF Shapes
<1>9. room'[c] = a /\ \A d \in RoomCodes : d # c => room'[d] = room[d]
  BY <1>2, <1>3 DEF Lists
<1>10. \A d \in RoomCodes : room'[d].tokens \subseteq room'[d].players
  <2>1. \A d \in RoomCodes : room[d].tokens \subseteq room[d].players
    BY <1>2 DEF Lists, RoomGood, SeatsGood, RoomShape, Humans
  <2>2. a.tokens \subseteq a.players
    BY <1>5 DEF RoomGood, SeatsGood, RoomShape, Humans
  <2> QED
    BY <1>9, <2>1, <2>2
<1>11. \A d \in rooms : b \in room'[d].tokens => b \in unmapped'
  BY <1>2, <1>3, <1>10
<1>12. Lists'
  <2>1. \A d \in RoomCodes : RoomGood(room'[d], unmapped') /\ room'[d].players \subseteq room[d].players
    BY <1>1, <1>2, <1>5, <1>7, <1>9, LostGrow DEF Lists
  <2>2. room' \in [RoomCodes -> RoomRecords]
    BY <1>2, <1>3, <1>5 DEF Lists, RoomGood
  <2>3. \A d \in RoomCodes : room'[d].players \subseteq 1 .. ids
    BY <1>2, <2>1 DEF Lists
  <2>4. \A d, e \in RoomCodes : d # e => room'[d].players \cap room'[e].players = {}
    BY <1>2, <2>1 DEF Lists
  <2>5. \A d \in RoomCodes \ rooms' : room'[d] = EmptyRoom
    BY <1>1, <1>2, <1>3, <1>9 DEF Lists
  <2>6. \A d \in RoomCodes : room'[d].tokens = room[d].tokens
    BY <1>1, <1>5, <1>9
  <2>7. ASSUME NEW d \in rooms, NEW p \in room'[d].tokens \ unmapped'
        PROVE  playerToRoom'[p] = d
    <3>1. p # b /\ d \in RoomCodes
      BY <1>2, <1>11, <2>7
    <3>2. p \in room[d].tokens \ unmapped
      BY <1>7, <2>6, <2>7, <3>1
    <3>3. p \in Players
      BY <1>2, <1>10, <2>3, <2>7, <3>1
    <3> QED
      BY <1>2, <1>6, <3>1, <3>2, <3>3 DEF Lists
  <2> QED
    BY <1>3, <2>1, <2>2, <2>3, <2>4, <2>5, <2>7 DEF Lists
<1>13. Indexes'
  BY <1>1, <1>2, <1>3, <1>5, IndexesRest
<1>14. StartsFull
  BY <1>2, <1>3, <1>5, NoneStarts
<1> QED
  BY <1>8, <1>12, <1>13, <1>14 DEF LobbyInv

\* A kick takes the player from the room by his socket; of one who is away only the mapping
\* goes, and so it does of one whose socket leads to another player.
LEMMA KickPlayerStep ==
    ASSUME LobbyInv, NEW s \in Sockets, NEW p \in Players, KickPlayer(s, p)
    PROVE  LobbyInv' /\ StartsFull
<1> DEFINE r == RoomFor(s)
           c == socketToRoom[s]
           target == r.playerToSocket[p]
           left == IF target = NoSocket THEN r ELSE RemovePlayer(r, target)
<1>1. /\ c \in rooms /\ r = room[c] /\ RoomGood(r, unmapped) /\ r \in RoomRecords
      /\ r.gamePhase = "LOBBY" /\ p \in Humans(r)
  BY HostIsHere DEF KickPlayer
<1>2. Shapes /\ Lists /\ Indexes /\ c \in RoomCodes /\ ids \in Nat /\ 1 .. ids \subseteq Players
  BY <1>1, CodesAreNumbers DEF LobbyInv
<1>3. /\ room' = [room EXCEPT ![c] = left] /\ playerToRoom' = Forget(p)
      /\ socketToRoom' = Unmapped({target}) /\ roomToSockets' = SocketsWithout({target})
      /\ unmapped' = unmapped \cup ({p} \cap left.players)
      /\ UNCHANGED <<created, rooms, sockets, requests, ids, doubled, ghosts>>
  BY DEF KickPlayer, HostSets
<1>4. /\ RoomGood(left, unmapped) /\ left.players \subseteq r.players
      /\ left.tokens \subseteq r.tokens /\ left.tokens \subseteq left.players
      /\ left.gamePhase = "LOBBY" /\ target \in Sockets \cup {NoSocket}
      /\ r.tokens \subseteq Players /\ r.players \subseteq Players
  <2>1. /\ target \in Sockets \cup {NoSocket} /\ r.tokens \subseteq Players /\ r.players \subseteq Players
        /\ r.tokens \subseteq r.players
    BY <1>1 DEF RoomRecords, RoomGood, SeatsGood, RoomShape, Humans
  <2>2. CASE target = NoSocket
    BY <1>1, <2>1, <2>2
  <2>3. CASE target # NoSocket
    <3>1. /\ RoomGood(left, unmapped) /\ left.players = r.players \ {r.socketToPlayer[target]}
          /\ left.tokens = r.tokens \ {r.socketToPlayer[target]} /\ left.gamePhase = "LOBBY"
      <4>1. left = RemovePlayer(r, target) /\ target \in Sockets
        BY <2>1, <2>3
      <4> HIDE DEF left, target, r
      <4> QED
        BY <1>1, <4>1, RemovePlayerGood
    <3> QED
      BY <2>1, <3>1
  <2> QED
    BY <2>2, <2>3
<1>5. Shapes'
  <2>1. unmapped' \subseteq Players /\ created' = created
    BY <1>2, <1>3 DEF Shapes
  <2> HIDE DEF target
  <2> QED
    BY <1>2, <1>3, <2>1, WithoutShapes DEF Shapes
<1>6. Lists'
  <2> HIDE DEF left, r, c
  <2>1. \A q \in Players : q # p => playerToRoom'[q] = playerToRoom[q]
    BY <1>2, <1>3 DEF Shapes, Forget
  <2>2. \A q \in left.tokens \ unmapped' : playerToRoom'[q] = c
    BY <1>1, <1>2, <1>3, <1>4, <2>1 DEF Lists
  <2>3. \A q \in 1 .. ids : q \notin room[c].players => playerToRoom'[q] = playerToRoom[q]
    BY <1>1, <1>2, <2>1 DEF Humans
  <2>4. unmapped \subseteq unmapped' /\ rooms' = rooms \cup {c} /\ ids' \in Nat /\ ids <= ids'
    BY <1>1, <1>2, <1>3
  <2>5. RoomGood(left, unmapped') /\ left.players \subseteq room[c].players
    BY <1>1, <1>4, <2>4, LostGrow
  <2> QED
    BY <1>2, <1>3, <2>2, <2>3, <2>4, <2>5, ListsFollow
<1>7. StartsFull
  <2> HIDE DEF left, c
  <2> QED
    BY <1>2, <1>3, <1>4, NoneStarts
<1>8. CASE target = NoSocket
  <2>1. target \notin Sockets
    BY <1>8, LobbyAssumption
  <2>2. socketToRoom' = socketToRoom /\ roomToSockets' = roomToSockets
    BY <1>2, <1>3, <2>1 DEF Unmapped, SocketsWithout, Shapes
  <2>3. left = r /\ Quietly(r, r)
    BY <1>8 DEF Quietly
  <2> HIDE DEF left, r, c
  <2>4. Indexes'
    BY <1>1, <1>2, <1>3, <2>2, <2>3, IndexesRest
  <2> QED
    BY <1>5, <1>6, <1>7, <2>4 DEF LobbyInv
<1>9. CASE target # NoSocket
  <2>1. target \in Sockets /\ p \in r.connected
    BY <1>1, <1>4, <1>9 DEF RoomGood, SeatsGood, RoomShape
  <2>2. socketToRoom[target] = c \/ target \in doubled \/ target \notin sockets
    <3> HIDE DEF c, r
    <3>1. target \in sockets \ doubled => Reachable(c, p)
      BY <1>1, <1>2, <2>1, SeatOfOne
    <3> QED
      BY <1>1, <3>1 DEF Reachable
  <2>3. r.spectators = {}
    BY <1>1 DEF RoomGood, SeatsGood, RoomShape
  <2>4. Frees(r, left, target)
    <3>1. Leaves(r, left, target)
      BY <1>1, <1>9, <2>1, RemovePlayerGood
    <3> HIDE DEF r, target, left
    <3> QED
      BY <2>3, <3>1 DEF Leaves, Frees
  <2> HIDE DEF left, target, r, c
  <2>5. UNCHANGED <<rooms, doubled, ghosts>> /\ sockets' = sockets
    BY <1>3
  <2>6. Indexes'
    BY <1>1, <1>2, <1>3, <2>1, <2>2, <2>4, <2>5, IndexesWithout
  <2> QED
    BY <1>5, <1>6, <1>7, <2>6 DEF LobbyInv
<1> QED
  BY <1>8, <1>9

-----------------------------------------------------------------------------
(* The theorems.                                                           *)

LEMMA LobbyStarts == Init => LobbyInv
<1> SUFFICES ASSUME Init PROVE LobbyInv
  OBVIOUS
<1>1. MaxRooms \in Nat /\ MaxIds \in Nat
  BY LobbyAssumption
<1>2. /\ created = 0 /\ rooms = {} /\ ids = 0 /\ requests = {} /\ sockets = Sockets
      /\ room = [c \in RoomCodes |-> EmptyRoom] /\ doubled = {} /\ ghosts = {} /\ unmapped = {}
      /\ socketToRoom = [s \in Sockets |-> NoRoom] /\ roomToSockets = [c \in RoomCodes |-> {}]
      /\ playerToRoom = [p \in Players |-> NoRoom]
  BY DEF Init
<1>3. Shapes
  BY <1>1, <1>2 DEF Shapes
<1>4. Lists
  <2>1. RoomGood(EmptyRoom, {}) /\ EmptyRoom \in RoomRecords /\ EmptyRoom.players = {}
    BY EmptyRoomGood DEF RoomGood, EmptyRoom
  <2> QED
    BY <1>2, <2>1 DEF Lists
<1>5. Indexes
  BY <1>2 DEF Indexes, Seated, KnownThere, MappedBack, Watching, InRoom
<1> QED
  BY <1>3, <1>4, <1>5 DEF LobbyInv

\* One action at a time.
LEMMA LobbyStep ==
    ASSUME LobbyInv, [Next]_vars
    PROVE  LobbyInv' /\ StartsFull
<1>1. CASE UNCHANGED vars
  <2>1. Shapes /\ Lists /\ Indexes
    BY DEF LobbyInv
  <2>2. /\ UNCHANGED <<room, created, rooms, socketToRoom, roomToSockets, playerToRoom>>
        /\ UNCHANGED <<sockets, requests, ids, doubled, ghosts, unmapped>>
    BY <1>1 DEF vars
  <2>3. Shapes'
    BY <2>1, <2>2 DEF Shapes
  <2>4. Lists' /\ StartsFull
    BY <2>1, <2>2 DEF Lists, StartsFull
  <2>5. Seated' /\ KnownThere'
    BY <2>1, <2>2 DEF Indexes, Seated, KnownThere, Reachable, InRoom, RoomFor
  <2>6. MappedBack'
    BY <2>1, <2>2 DEF Indexes, MappedBack
  <2>7. Watching'
    BY <2>1, <2>2 DEF Indexes, Watching
  <2> QED
    BY <2>3, <2>4, <2>5, <2>6, <2>7 DEF LobbyInv, Indexes
<1>2. CASE \E s \in Sockets : FromSocket(s)
  <2>1. PICK s \in Sockets : FromSocket(s)
    BY <1>2
  <2>2. CASE CreateRoom(s)
    BY <2>2, CreateRoomStep
  <2>3. CASE Ask(s, NoRoom) \/ \E c \in rooms : Ask(s, c)
    BY <2>3, AskStep
  <2>4. CASE \E c \in rooms : JoinRoom(s, c)
    BY <2>4, JoinRoomStep
  <2>5. CASE \E c \in rooms : Spectate(s, c)
    BY <2>5, SpectateStep
  <2>6. CASE \E c \in rooms : \E p \in Players : Return(s, c, p)
    BY <2>6, ReturnStep
  <2>7. CASE LeaveRoom(s)
    BY <2>7, LeaveRoomStep
  <2>8. CASE Disconnect(s)
    BY <2>8, DisconnectStep
  <2>9. CASE CloseRoom(s)
    BY <2>9, CloseRoomStep
  <2>10. CASE \E n \in SeatChoices : UpdateSettings(s, n)
    BY <2>10, UpdateSettingsStep
  <2>11. CASE AddBot(s)
    BY <2>11, AddBotStep
  <2>12. CASE \E p \in Players : RemoveBot(s, p)
    BY <2>12, RemoveBotStep
  <2>13. CASE \E p \in Players : KickPlayer(s, p)
    BY <2>13, KickPlayerStep
  <2>14. CASE GameStart(s)
    BY <2>14, GameStartStep
  <2>15. CASE GameRematch(s)
    BY <2>15, GameRematchStep
  <2> QED
    BY <2>1, <2>2, <2>3, <2>4, <2>5, <2>6, <2>7, <2>8, <2>9, <2>10, <2>11, <2>12, <2>13, <2>14,
       <2>15 DEF FromSocket
<1>3. CASE \E q \in requests : Answered(q)
  BY <1>3, AnsweredStep
<1>4. CASE \E c \in rooms : Timers(c) \/ RevealRound(c) \/ SweepRoom(c)
  <2>1. PICK c \in rooms : Timers(c) \/ RevealRound(c) \/ SweepRoom(c)
    BY <1>4
  <2>2. CASE CountdownEnds(c)
    BY <2>2, CountdownEndsStep
  <2>3. CASE \E p \in Players : DisconnectTimeout(c, p)
    BY <2>3, DisconnectTimeoutStep
  <2>4. CASE RevealRound(c)
    BY <2>4, RevealRoundStep
  <2>5. CASE SweepRoom(c)
    BY <2>5, SweepRoomStep
  <2> QED
    BY <2>1, <2>2, <2>3, <2>4, <2>5 DEF Timers
<1> QED
  BY <1>1, <1>2, <1>3, <1>4 DEF Next

\* The inductive invariant: the shapes, the rooms and the indexes.
THEOREM LobbyInvariant == LobbySpec => []LobbyInv
<1>1. LobbyInv /\ [Next]_vars => LobbyInv'
  BY LobbyStep
<1> QED
  BY <1>1, LobbyStarts, PTL DEF LobbySpec

\* Every index, request and room has the shape the code gives it: no timer runs for a player
\* who is there, a player who is connected has a socket and a lobby has no spectators.
THEOREM LobbyTypes == LobbySpec => []LobbyTypeOK
<1>1. LobbyInv => LobbyTypeOK
  <2> SUFFICES ASSUME LobbyInv PROVE LobbyTypeOK
    OBVIOUS
  <2>1. Shapes /\ Lists /\ 1 .. created \subseteq RoomCodes
    BY CodesAreNumbers DEF LobbyInv
  <2>2. \A c \in RoomCodes : RoomShape(room[c])
    BY <2>1 DEF Lists, RoomGood, SeatsGood
  <2>3. requests \subseteq [socket : Accounts, room : RoomCodes \cup {NoRoom}]
    BY <2>1 DEF Shapes
  <2>4. socketToRoom \in [Sockets -> RoomCodes \cup {NoRoom}]
    BY <2>1 DEF Shapes
  <2> QED
    BY <2>1, <2>2, <2>3, <2>4 DEF LobbyTypeOK, Shapes, Lists
<1> QED
  BY <1>1, LobbyInvariant, PTL

\* However many sockets come, go and come back while others join, kick or close rooms, the
\* indexes of RoomManager and the maps of its rooms agree but for the two effects of the
\* await in room:create and room:join.
THEOREM IndexesHold == LobbySpec => []IndexesAgree
<1>1. LobbyInv => IndexesAgree
  <2> SUFFICES ASSUME LobbyInv PROVE IndexesAgree
    OBVIOUS
  <2>1. Shapes /\ Lists /\ Indexes /\ rooms \subseteq RoomCodes
    BY CodesAreNumbers DEF LobbyInv
  <2>2. \A c \in rooms : \A p \in Humans(room[c]) \cap room[c].connected :
          Reachable(c, p) \/ room[c].playerToSocket[p] \in doubled \/ p \in ghosts
    BY <2>1 DEF Indexes, Seated
  <2>3. ASSUME NEW s \in Sockets \ doubled, InRoom(s) PROVE Known(s)
    <3> DEFINE r == RoomFor(s)
    <3>1. r \in RoomRecords /\ SeatsGood(r)
      BY <2>1, <2>3 DEF Lists, RoomGood, InRoom, RoomFor
    <3>2. s \in roomToSockets[socketToRoom[s]] /\ (s \in r.spectators \/ r.socketToPlayer[s] # NoPlayer)
      BY <2>1, <2>3 DEF Indexes, KnownThere
    <3>3. r.socketToPlayer[s] # NoPlayer => /\ r.socketToPlayer[s] \in r.players
                                            /\ r.playerToSocket[r.socketToPlayer[s]] = s
      <4> HIDE DEF r
      <4> QED
        BY <3>1, SeatFacts
    <3> QED
      BY <3>2, <3>3 DEF Known
  <2>4. \A c \in rooms : \A s \in roomToSockets[c] \ doubled : socketToRoom[s] = c
    BY <2>1 DEF Indexes, MappedBack
  <2> QED
    BY <2>2, <2>3, <2>4 DEF IndexesAgree
<1> QED
  BY <1>1, LobbyInvariant, PTL

\* Whatever makes a host go, the role falls to somebody on the list.
THEOREM HostHolds == LobbySpec => []HostIsListed
<1>1. LobbyInv => HostIsListed
  BY CodesAreNumbers DEF LobbyInv, Lists, RoomGood, SeatsGood, HostIsListed
<1> QED
  BY <1>1, LobbyInvariant, PTL

\* No game waits forever for a human who is away: his timer runs and will find the room,
\* unless a kick left him in the room without his mapping.
THEOREM AbsenceHolds == LobbySpec => []AbsenceIsTimed
<1>1. LobbyInv => AbsenceIsTimed
  <2> SUFFICES ASSUME LobbyInv, NEW c \in rooms, room[c].gamePhase = "PLAYING",
                      NEW p \in (Away(room[c]) \cap Active(room[c])) \ unmapped
               PROVE  p \in room[c].timers /\ playerToRoom[p] = c
    BY DEF AbsenceIsTimed
  <2>1. Lists /\ RoomGood(room[c], unmapped)
    BY CodesAreNumbers DEF LobbyInv, Lists
  <2>2. p \in room[c].timers
    BY <2>1 DEF RoomGood, AwayGood
  <2>3. p \in room[c].tokens
    BY <2>1, <2>2 DEF RoomGood, SeatsGood
  <2> QED
    BY <2>1, <2>2, <2>3 DEF Lists
<1> QED
  BY <1>1, LobbyInvariant, PTL

\* A game is dealt to two players or more, though nobody counts them when the countdown ends,
\* unless somebody left or was removed while it ran.
THEOREM StartsHold == LobbySpec => StartsWithTwo
<1>1. LobbyInv /\ [Next]_vars => [StartsFull]_vars
  BY LobbyStep
<1>2. LobbySpec => [][StartsFull]_vars
  BY <1>1, LobbyInvariant, PTL DEF LobbySpec
<1> QED
  BY <1>2 DEF StartsWithTwo, StartsFull

=============================================================================
