-------------------------- MODULE GameRoomProofs --------------------------
(***************************************************************************)
(* The room during a match, for every table, every choice of bots, every   *)
(* series, and whoever comes, goes, hesitates or sends what is rejected.   *)
(***************************************************************************)
EXTENDS GameRoom, TurnOrderProofs

-----------------------------------------------------------------------------
(* The order of finish.                                                    *)

\* Seats in order: a sequence that holds each of them once.
LEMMA InSeatOrderIsInjective ==
    ASSUME NEW S \in SUBSET Players
    PROVE  /\ InSeatOrder(S) \in Seq(S)
           /\ IsInjective(InSeatOrder(S))
<1> DEFINE n == Cardinality(S)
           order == InSeatOrder(S)
<1>1. n \in Nat
  BY PlayersFinite
<1>2. ASSUME NEW i \in 1 .. n
      PROVE  /\ i - 1 \in 0 .. n - 1 /\ PlayerAt(S, i - 1) \in S
             /\ IndexIn(S, PlayerAt(S, i - 1)) = i - 1
  <2>1. i - 1 \in 0 .. n - 1
    BY <1>1
  <2> QED
    BY <2>1, PlayerAtIndex
<1>3. DOMAIN order = 1 .. n /\ \A i \in 1 .. n : order[i] = PlayerAt(S, i - 1)
  BY DEF InSeatOrder
<1>4. order \in [1 .. n -> S]
  BY <1>2 DEF InSeatOrder
<1>5. order \in Seq(S)
  <2> HIDE DEF order, n
  <2> QED
    BY <1>1, <1>4
<1>6. ASSUME NEW i \in 1 .. n, NEW j \in 1 .. n, order[i] = order[j]
      PROVE  i = j
  <2>1. i - 1 = j - 1
    BY <1>2, <1>3, <1>6
  <2> QED
    BY <1>1, <2>1
<1> QED
  BY <1>3, <1>5, <1>6 DEF IsInjective

\* Whoever is recorded is recorded once, and only those who are named are added.
LEMMA RecordedOnce ==
    ASSUME NEW order \in Seq(Players), IsInjective(order), NEW gone \in SUBSET Players
    PROVE  LET new == RecordEliminations(order, gone)
           IN  /\ new \in Seq(Players)
               /\ IsInjective(new)
               /\ Range(new) \subseteq Range(order) \union gone
<1> DEFINE S == gone \ Range(order)
           tailing == InSeatOrder(S)
           new == RecordEliminations(order, gone)
<1>1. S \in SUBSET Players /\ tailing \in Seq(S) /\ IsInjective(tailing)
  BY InSeatOrderIsInjective
<1>2. tailing \in Seq(Players)
  <2> HIDE DEF tailing, S
  <2> QED
    BY <1>1
<1>3. new = order \o tailing
  BY DEF RecordEliminations
<1>4. /\ Len(order) \in Nat /\ Len(tailing) \in Nat
      /\ DOMAIN order = 1 .. Len(order) /\ DOMAIN tailing = 1 .. Len(tailing)
  <2> HIDE DEF tailing
  <2> QED
    BY <1>2
<1> HIDE DEF tailing, new
<1>5. /\ new \in Seq(Players)
      /\ Len(new) = Len(order) + Len(tailing)
      /\ DOMAIN new = 1 .. Len(order) + Len(tailing)
      /\ \A i \in 1 .. Len(order) + Len(tailing) :
            new[i] = IF i <= Len(order) THEN order[i] ELSE tailing[i - Len(order)]
  BY <1>2, <1>3, <1>4
<1>6. ASSUME NEW i \in DOMAIN new
      PROVE  \/ i \in DOMAIN order /\ new[i] = order[i] /\ new[i] \in Range(order)
             \/ /\ i - Len(order) \in DOMAIN tailing
                /\ new[i] = tailing[i - Len(order)] /\ new[i] \in S
  <2>1. CASE i <= Len(order)
    <3>1. i \in DOMAIN order /\ new[i] = order[i]
      BY <1>4, <1>5, <2>1
    <3> QED
      BY <3>1 DEF Range
  <2>2. CASE ~(i <= Len(order))
    <3>1. i - Len(order) \in DOMAIN tailing /\ new[i] = tailing[i - Len(order)]
      BY <1>4, <1>5, <2>2
    <3>2. tailing[i - Len(order)] \in S
      <4> HIDE DEF S
      <4> QED
        BY <1>1, <3>1
    <3> QED
      BY <3>1, <3>2
  <2> QED
    BY <2>1, <2>2
<1>7. ASSUME NEW i \in DOMAIN new, NEW j \in DOMAIN new, new[i] = new[j]
      PROVE  i = j
  <2>0. i \in Int /\ j \in Int
    BY <1>5
  <2>1. CASE i \in DOMAIN order /\ j \in DOMAIN order /\ new[i] = order[i] /\ new[j] = order[j]
    BY <1>7, <2>1 DEF IsInjective
  <2>2. CASE /\ i - Len(order) \in DOMAIN tailing /\ j - Len(order) \in DOMAIN tailing
             /\ new[i] = tailing[i - Len(order)] /\ new[j] = tailing[j - Len(order)]
    <3>1. i - Len(order) = j - Len(order)
      BY <1>1, <1>7, <2>2 DEF IsInjective
    <3> QED
      BY <1>4, <2>0, <3>1
  <2> QED
    BY <1>6, <1>7, <2>1, <2>2
<1>8. Range(new) \subseteq Range(order) \union gone
  BY <1>6 DEF Range
<1> QED
  BY <1>5, <1>7, <1>8 DEF IsInjective, new

-----------------------------------------------------------------------------
(* What the room has to know of the engine's operations.                   *)

\* The engine has moved, and those of `gone` have left: nobody comes back in, and whoever
\* else is put out is put out by a reveal; a result is returned for what it is.
Moved(gone) ==
    /\ TypeOK' /\ TurnInv'
    /\ \A q \in Players : isEliminated[q] \/ q \in gone => isEliminated'[q]
    /\ \A q \in Players : isEliminated'[q] =>
          \/ isEliminated[q] \/ q \in gone
          \/ roundPhase # "RESOLVING" /\ q \in lastRoundResult'.eliminated
    /\ turnResult' \in {"continue", "last_chance", "resolve", "game_over"}
    /\ turnResult' = "game_over" => GameOver'
    /\ turnResult' = "resolve" => roundPhase' = "RESOLVING"
    /\ turnResult' = "resolve" \/ (turnResult' = "game_over" /\ gone = {}) =>
          \A q \in lastRoundResult'.eliminated : isEliminated'[q]
    /\ turnResult' \in {"continue", "last_chance"} =>
          (roundPhase' = "RESOLVING" => roundPhase = "RESOLVING")
    /\ roundPhase = "RESOLVING" => roundPhase' = "RESOLVING"

\* The players in are players of the table.
LEMMA ActiveArePlayers ==
    /\ ActivePlayers \in SUBSET Players
    /\ \A q \in Players : q \in ActivePlayers <=> ~isEliminated[q]
BY DEF ActivePlayers, StillIn

\* Whoever is on turn is in.
LEMMA CurrentIsActive ==
    CurrentPlayerId \in ActivePlayers \union {NoPlayer}
BY ActiveArePlayers, PlayerAtIndex DEF CurrentPlayerId

\* A game that is over stays over when nobody comes back in.
LEMMA GameOverStays ==
    ASSUME \A q \in Players : isEliminated[q] => isEliminated'[q]
    PROVE  /\ ActivePlayers' \subseteq ActivePlayers
           /\ GameOver => GameOver'
<1>1. ActivePlayers' \subseteq ActivePlayers /\ ActivePlayers \in SUBSET Players
      /\ ActivePlayers' \in SUBSET Players
  BY DEF ActivePlayers, StillIn
<1>2. SUFFICES ASSUME NEW T, NEW S, S = ActivePlayers', T = ActivePlayers
               PROVE  Cardinality(T) <= 1 => Cardinality(S) <= 1
  BY <1>1 DEF GameOver
<1>3. S \subseteq T /\ IsFiniteSet(T) /\ Cardinality(T) \in Nat /\ Cardinality(S) \in Nat
  BY <1>1, <1>2, PlayersFinite
<1>4. Cardinality(S) <= Cardinality(T)
  BY <1>3, FS_Subset
<1> QED
  BY <1>3, <1>4

\* What a reveal leaves behind.
LEMMA RevealFacts ==
    ASSUME NEW elim, NEW hist, ResolveRound(elim, hist)
    PROVE  /\ roundPhase' = "RESOLVING"
           /\ turnResult' \in {"resolve", "game_over"}
           /\ \A q \in Players : isEliminated'[q] <=> elim[q] \/ q \in lastRoundResult'.eliminated
           /\ lastRoundResult'.eliminated \in SUBSET Players
           /\ turnResult' = "game_over" => GameOver'
<1> DEFINE in == StillIn(elim)
           atLimit == AtLimit(in)
<1>1. PICK handExists \in BOOLEAN, penalized \in SUBSET in :
        /\ roundPhase' = "RESOLVING"
        /\ isEliminated' = [p \in Players |-> elim[p] \/ p \in penalized \intersect atLimit]
        /\ lastRoundResult'.eliminated = penalized \intersect atLimit
        /\ turnResult' = IF Cardinality(in \ (penalized \intersect atLimit)) <= 1
                           THEN "game_over" ELSE "resolve"
  <2>1. PICK handExists \in BOOLEAN :
          LET penalized == Penalized(in, {p \in in : Incorrect(hist, handExists, p)})
          IN  /\ roundPhase' = "RESOLVING"
              /\ isEliminated' = [p \in Players |-> elim[p] \/ p \in penalized \intersect atLimit]
              /\ lastRoundResult' = [handExists |-> handExists,
                                     penalized |-> penalized,
                                     eliminated |-> penalized \intersect atLimit]
              /\ turnResult' = IF Cardinality(in \ (penalized \intersect atLimit)) <= 1
                                 THEN "game_over" ELSE "resolve"
    BY DEF ResolveRound
  <2>2. Penalized(in, {p \in in : Incorrect(hist, handExists, p)}) \in SUBSET in
    BY DEF Penalized
  <2> HIDE DEF in, atLimit
  <2> QED
    BY <2>1, <2>2
<1>2. ActivePlayers' = in \ (penalized \intersect atLimit)
  BY <1>1 DEF ActivePlayers, StillIn
<1>3. in \in SUBSET Players
  BY DEF StillIn
<1> HIDE DEF in, atLimit
<1> QED
  BY <1>1, <1>2, <1>3 DEF GameOver

\* Every turn of a player.
LEMMA TurnMoves ==
    ASSUME TypeOK, TurnInv, NEW p \in Players, TurnAction(p)
    PROVE  Moved({}) /\ roundPhase # "RESOLVING"
<1>0. isEliminated \in [Players -> BOOLEAN]
  BY DEF TypeOK
<1>1. TypeOK' /\ TurnInv'
  <2>1. TypeOK'
    <3>1. ASSUME NEW h \in Hands, HandleCall(p, h) PROVE TypeOK'
      BY <3>1, AcceptCallType DEF HandleCall, CallActions, RoundPhases
    <3>2. ASSUME NEW h \in Hands, HandleLastChanceRaise(p, h) PROVE TypeOK'
      BY <3>2, AcceptCallType DEF HandleLastChanceRaise, CallActions, RoundPhases
    <3> QED
      BY <3>1, <3>2, BullType, TrueType, LastChancePassType DEF TurnAction
  <2>2. TurnInv'
    BY TurnStep DEF Next
  <2> QED
    BY <2>1, <2>2
<1>2. roundPhase # "RESOLVING"
  BY DEF TurnAction, HandleCall, HandleBull, HandleTrue, HandleLastChanceRaise,
         HandleLastChancePass, MayTakeTurn
<1>3. CASE /\ isEliminated' = isEliminated
           /\ turnResult' \in {"continue", "last_chance"}
           /\ roundPhase' # "RESOLVING"
  BY <1>1, <1>2, <1>3 DEF Moved
<1>4. CASE \E hist : ResolveRound(isEliminated, hist)
  BY <1>1, <1>2, <1>4, RevealFacts DEF Moved
<1>5. \/ /\ isEliminated' = isEliminated
         /\ turnResult' \in {"continue", "last_chance"}
         /\ roundPhase' # "RESOLVING"
      \/ \E hist : ResolveRound(isEliminated, hist)
  <2>1. ASSUME NEW h \in Hands, HandleCall(p, h) \/ HandleLastChanceRaise(p, h)
        PROVE  <1>5
    BY <2>1 DEF HandleCall, HandleLastChanceRaise, AcceptCall, scoreVars
  <2>2. ASSUME HandleBull(p) PROVE <1>5
    BY <2>2 DEF HandleBull, OfferLastChance, scoreVars
  <2>3. ASSUME HandleTrue(p) PROVE <1>5
    BY <2>3, <1>2 DEF HandleTrue, scoreVars
  <2>4. ASSUME HandleLastChancePass(p) PROVE <1>5
    BY <2>4 DEF HandleLastChancePass
  <2> QED
    BY <2>1, <2>2, <2>3, <2>4 DEF TurnAction
<1> QED
  BY <1>2, <1>3, <1>4, <1>5

\* A player drops out: by itself or by the reveal that the departure sets off.
LEMMA LeaverMoves ==
    ASSUME TypeOK, TurnInv, NEW p \in Players, EliminatePlayer(p)
    PROVE  Moved({p}) /\ (GameOver => turnResult' = "game_over")
<1> DEFINE elim == [isEliminated EXCEPT ![p] = TRUE]
           left == StillIn(elim)
<1>0. /\ isEliminated \in [Players -> BOOLEAN] /\ ~isEliminated[p]
      /\ \A q \in Players : elim[q] <=> isEliminated[q] \/ q = p
  BY DEF TypeOK, EliminatePlayer
<1>1. TypeOK' /\ TurnInv'
  BY EliminateType, EliminateTurn
<1>2. GameOver => Cardinality(left) <= 1
  <2>1. left \in SUBSET ActivePlayers /\ ActivePlayers \in SUBSET Players
    BY <1>0 DEF ActivePlayers, StillIn
  <2> HIDE DEF left
  <2> SUFFICES ASSUME NEW S, S = ActivePlayers PROVE Cardinality(S) <= 1 => Cardinality(left) <= 1
    BY DEF GameOver
  <2>2. left \subseteq S /\ left \in SUBSET Players /\ S \in SUBSET Players
    BY <2>1
  <2>3. IsFiniteSet(S) /\ Cardinality(S) \in Nat /\ Cardinality(left) \in Nat
    BY <2>2, PlayersFinite
  <2>4. Cardinality(left) <= Cardinality(S)
    BY <2>2, <2>3, FS_Subset
  <2> QED
    BY <2>3, <2>4
<1>3. CASE /\ Cardinality(left) <= 1
           /\ isEliminated' = elim
           /\ turnResult' = "game_over"
           /\ UNCHANGED roundPhase
  <2>1. GameOver'
    BY <1>3 DEF GameOver, ActivePlayers
  <2> QED
    BY <1>0, <1>1, <1>3, <2>1 DEF Moved
<1>4. CASE Cardinality(left) > 1 /\ roundPhase # "RESOLVING" /\ ResolveRound(elim, turnHistory)
  <2>1. Cardinality(left) \in Nat /\ ~(Cardinality(left) <= 1)
    <3>1. left \in SUBSET Players
      BY DEF StillIn
    <3> HIDE DEF left
    <3> QED
      BY <1>4, <3>1, PlayersFinite
  <2> HIDE DEF elim, left
  <2> QED
    BY <1>0, <1>1, <1>2, <1>4, <2>1, RevealFacts DEF Moved
<1>5. CASE /\ Cardinality(left) > 1
           /\ isEliminated' = elim
           /\ \/ turnResult' = "continue" /\ UNCHANGED roundPhase
              \/ /\ turnResult' = "last_chance"
                 /\ roundPhase' = "LAST_CHANCE" /\ roundPhase # "RESOLVING"
  <2>1. Cardinality(left) \in Nat /\ ~(Cardinality(left) <= 1)
    <3>1. left \in SUBSET Players
      BY DEF StillIn
    <3> HIDE DEF left
    <3> QED
      BY <1>5, <3>1, PlayersFinite
  <2> HIDE DEF left
  <2> QED
    BY <1>0, <1>1, <1>2, <1>5, <2>1 DEF Moved
<1>6. \/ /\ Cardinality(left) <= 1
         /\ isEliminated' = elim
         /\ turnResult' = "game_over"
         /\ UNCHANGED roundPhase
      \/ Cardinality(left) > 1 /\ roundPhase # "RESOLVING" /\ ResolveRound(elim, turnHistory)
      \/ /\ Cardinality(left) > 1
         /\ isEliminated' = elim
         /\ turnResult' = "continue"
         /\ UNCHANGED roundPhase
      \/ /\ Cardinality(left) > 1
         /\ roundPhase # "RESOLVING"
         /\ OfferLastChance(elim)
  BY DEF EliminatePlayer
<1> HIDE DEF elim, left
<1> QED
  BY <1>3, <1>4, <1>5, <1>6 DEF OfferLastChance

-----------------------------------------------------------------------------
(* The inductive invariant.                                                *)

\* The room goes by the engine: a match that is over is over in the engine too, and a round
\* is played until it is revealed.
MatchFollowsEngine ==
    /\ gamePhase = "GAME_OVER" => GameOver
    /\ gamePhase = "PLAYING" /\ roundPhase = "RESOLVING" => GameOver

\* Nobody plays who is not in the room.
PlayersAreInRoom == ~GameOver => ActivePlayers \subseteq players

EngineSide ==
    /\ TypeOK /\ TurnInv
    /\ MatchFollowsEngine /\ ResultIsRevealed /\ PlayersAreInRoom /\ OnlyTheOutAreRanked

\* The next round is on its way only from a result screen, which has no other end but the
\* next set.
ResultScreen ==
    /\ roundContinueTimer \/ "startNextRound" \in tail => gamePhase = "ROUND_RESULT"
    /\ gamePhase = "ROUND_RESULT" =>
          roundContinueTimer \/ nextSetTimers > 0 \/ "startNextRound" \in tail

\* The timer is that of the turn also while a handler has something left to do.
TurnIsTimed ==
    gamePhase = "PLAYING" /\ ~GameOver /\ CurrentPlayerId # NoPlayer =>
        roomTurnTimer \in {CurrentPlayerId, Stopped}

SeriesStates == [bestOf : BestOfChoices \union {1}, currentSet : Nat \ {0},
                 wins : [Players \union {NoPlayer} -> Nat]]

MatchType ==
    /\ gamePhase \in GamePhases
    /\ roomTurnTimer \in players \union {NoPlayer, Stopped}
    /\ roundContinueTimer \in BOOLEAN
    /\ roundContinueReady \subseteq Players
    /\ eliminationOrder \in Seq(Players)
    /\ seriesState \in SeriesStates
    /\ nextSetTimers \in Nat /\ gamesStarted \in Nat /\ gamesRecorded \in Nat
    /\ tail \subseteq {"startNextRound", "closeIfEmpty"}

TimerSide == ResultScreen /\ TurnIsTimed /\ MatchType

PeopleSide ==
    /\ players \subseteq Players /\ bots \subseteq Players
    /\ isConnected \subseteq players
    /\ reconnectTokens \subseteq players \ bots
    /\ disconnectTimers \subseteq players \ bots
    /\ AbsenceIsTimed

RoomInv == EngineSide /\ TimerSide /\ PeopleSide

-----------------------------------------------------------------------------
(* The parts of a handler.                                                 *)

\* A turn timer that is set is set for the player on turn.
LEMMA ScheduledForTurn ==
    ASSUME ScheduleBotTurn, PlayersAreInRoom'
    PROVE  TurnIsTimed' /\ roomTurnTimer' \in players' \union {NoPlayer}
<1>1. CurrentPlayerId' \in ActivePlayers' \union {NoPlayer}
  <2>1. ActivePlayers' \in SUBSET Players
    BY DEF ActivePlayers, StillIn
  <2> SUFFICES ASSUME NEW S, S = ActivePlayers', NEW i, i = currentPlayerIndex'
               PROVE  PlayerAt(S, i) \in S \union {NoPlayer}
    BY DEF CurrentPlayerId
  <2> QED
    BY <2>1, PlayerAtIndex
<1>2. CASE GameOver'
  BY <1>2 DEF ScheduleBotTurn, TurnIsTimed
<1>3. CASE ~GameOver'
  BY <1>1, <1>3 DEF ScheduleBotTurn, TurnIsTimed, PlayersAreInRoom
<1> QED
  BY <1>2, <1>3

\* One win more keeps the wins natural numbers.
LEMMA OneMoreWin ==
    ASSUME NEW D, NEW f \in [D -> Nat], NEW w
    PROVE  [f EXCEPT ![w] = @ + 1] \in [D -> Nat]
<1> DEFINE g == [f EXCEPT ![w] = @ + 1]
<1>1. \A x \in D : g[x] = IF x = w THEN f[x] + 1 ELSE f[x]
  OBVIOUS
<1>2. \A x \in D : g[x] \in Nat
  BY <1>1
<1> QED
  BY <1>2

\* The end of a set stops the turns, and either the match is over or another set follows.
LEMMA SetOverFacts ==
    ASSUME MatchType, HandleSetOver
    PROVE  /\ roomTurnTimer' = NoPlayer
           /\ \/ gamePhase' = "GAME_OVER" /\ nextSetTimers' = nextSetTimers
              \/ gamePhase' = gamePhase /\ nextSetTimers' = nextSetTimers + 1
           /\ seriesState' \in SeriesStates
           /\ nextSetTimers' \in Nat /\ gamesRecorded' \in Nat
           /\ gamesStarted' = gamesStarted
<1> DEFINE winner == WinnerId(ActivePlayers')
           wins == [seriesState.wins EXCEPT ![winner] = @ + 1]
<1>1. wins \in [Players \union {NoPlayer} -> Nat]
  <2>1. seriesState.wins \in [Players \union {NoPlayer} -> Nat]
    BY DEF MatchType, SeriesStates
  <2> QED
    BY <2>1, OneMoreWin
<1>2. seriesState \in SeriesStates /\ nextSetTimers \in Nat /\ gamesRecorded \in Nat
  BY DEF MatchType
<1>3. \/ /\ gamePhase' = "GAME_OVER" /\ gamesRecorded' = gamesRecorded + 1
         /\ nextSetTimers' = nextSetTimers
         /\ \/ seriesState' = seriesState
            \/ seriesState' = [seriesState EXCEPT !.wins = wins]
      \/ /\ seriesState' = [seriesState EXCEPT !.wins = wins, !.currentSet = @ + 1]
         /\ nextSetTimers' = nextSetTimers + 1
         /\ UNCHANGED <<gamePhase, gamesRecorded>>
  BY DEF HandleSetOver, FinalizeGameOver
<1>4. roomTurnTimer' = NoPlayer /\ gamesStarted' = gamesStarted
  BY DEF HandleSetOver, ClearTurnTimer
<1> HIDE DEF wins, winner
<1>5. [seriesState EXCEPT !.wins = wins] \in SeriesStates
  BY <1>1, <1>2 DEF SeriesStates
<1>6. [seriesState EXCEPT !.wins = wins, !.currentSet = @ + 1] \in SeriesStates
  <2>1. seriesState.currentSet + 1 \in Nat \ {0}
    BY <1>2 DEF SeriesStates
  <2> DEFINE next == seriesState.currentSet + 1
  <2> HIDE DEF next
  <2>2. [seriesState EXCEPT !.wins = wins, !.currentSet = next] \in SeriesStates
    BY <1>1, <1>2, <2>1 DEF SeriesStates, next
  <2> QED
    BY <2>2 DEF next
<1> QED
  BY <1>2, <1>3, <1>4, <1>5, <1>6

\* The ranked stay out: recording those who are out, after a move of the engine.
LEMMA OnlyOutRanked ==
    ASSUME OnlyTheOutAreRanked, eliminationOrder \in Seq(Players),
           \A q \in Players : isEliminated[q] => isEliminated'[q],
           NEW gone \in SUBSET Players, \A q \in gone : isEliminated'[q],
           eliminationOrder' = RecordEliminations(eliminationOrder, gone)
    PROVE  OnlyTheOutAreRanked' /\ eliminationOrder' \in Seq(Players)
<1>1. /\ IsInjective(eliminationOrder)
      /\ \A q \in Range(eliminationOrder) : isEliminated[q] /\ q \in Players
  <2>1. \A i \in DOMAIN eliminationOrder : eliminationOrder[i] \in Players
    OBVIOUS
  <2> QED
    BY <2>1 DEF OnlyTheOutAreRanked, Range
<1>2. /\ eliminationOrder' \in Seq(Players) /\ IsInjective(eliminationOrder')
      /\ Range(eliminationOrder') \subseteq Range(eliminationOrder) \union gone
  BY <1>1, RecordedOnce
<1>3. \A i \in DOMAIN eliminationOrder' : eliminationOrder'[i] \in Range(eliminationOrder')
  BY DEF Range
<1> QED
  BY <1>1, <1>2, <1>3 DEF OnlyTheOutAreRanked

\* Nothing that the engine's side is about has changed.
LEMMA EngineSideStays ==
    ASSUME EngineSide, UNCHANGED <<vars, players>>, OnlyTheOutAreRanked',
           gamePhase' \in {gamePhase, "DELETED"}
    PROVE  EngineSide'
<1>1. /\ ActivePlayers' = ActivePlayers /\ CurrentPlayerId' = CurrentPlayerId
      /\ GameOver' = GameOver /\ UNCHANGED vars
  BY DEF vars, ActivePlayers, StillIn, CurrentPlayerId, GameOver
<1>2. TypeOK'
  BY <1>1 DEF EngineSide, TypeOK, vars
<1>3. TurnInv'
  BY <1>1, TurnStep DEF EngineSide
<1>4. roundPhase' = roundPhase /\ isEliminated' = isEliminated
  BY DEF vars
<1>5. MatchFollowsEngine' /\ ResultIsRevealed' /\ PlayersAreInRoom'
  BY <1>1, <1>4 DEF EngineSide, MatchFollowsEngine, ResultIsRevealed, PlayersAreInRoom
<1> QED
  BY <1>2, <1>3, <1>5 DEF EngineSide

\* What the engine's side needs after a move: who is ranked and what the room shows.
LEMMA EngineSideMoves ==
    ASSUME EngineSide, NEW gone, Moved(gone), players' = players,
           OnlyTheOutAreRanked',
           gamePhase' = "GAME_OVER" => GameOver',
           gamePhase' = "PLAYING" => gamePhase = "PLAYING",
           gamePhase' = "PLAYING" /\ turnResult' = "resolve" => FALSE,
           gamePhase' = "ROUND_RESULT" => gamePhase = "ROUND_RESULT" \/ turnResult' = "resolve"
    PROVE  EngineSide'
<1>1. \A q \in Players : isEliminated[q] => isEliminated'[q]
  BY DEF Moved
<1>2. ActivePlayers' \subseteq ActivePlayers /\ (GameOver => GameOver')
  BY <1>1, GameOverStays
<1>3. MatchFollowsEngine'
  BY <1>2 DEF MatchFollowsEngine, EngineSide, Moved
<1>4. ResultIsRevealed'
  BY DEF ResultIsRevealed, EngineSide, Moved
<1>5. PlayersAreInRoom'
  BY <1>2 DEF PlayersAreInRoom, EngineSide
<1> QED
  BY <1>3, <1>4, <1>5 DEF EngineSide, Moved

\* Those whom a reveal puts out are players.
LEMMA RevealedArePlayers ==
    ASSUME NEW gone, Moved(gone)
    PROVE  lastRoundResult'.eliminated \in SUBSET Players
BY DEF Moved, TypeOK, RoundResult

\* Showing a result.
LEMMA ResultShown ==
    ASSUME EngineSide, TimerSide, NEW gone \in SUBSET Players, Moved(gone), players' = players,
           turnResult' = "resolve", NEW order,
           order \in {eliminationOrder, RecordEliminations(eliminationOrder, gone)},
           BeginRoundResultPhase(order), tail' \subseteq {"startNextRound", "closeIfEmpty"}
    PROVE  EngineSide' /\ TimerSide'
<1>1. \A q \in Players : isEliminated[q] => isEliminated'[q]
  BY DEF Moved
<1>2. OnlyTheOutAreRanked' /\ eliminationOrder' \in Seq(Players)
  <2>1. /\ IsInjective(order) /\ order \in Seq(Players)
        /\ \A q \in Range(order) : q \in Players /\ isEliminated'[q]
    <3>0. /\ IsInjective(eliminationOrder) /\ eliminationOrder \in Seq(Players)
          /\ \A q \in Range(eliminationOrder) : q \in Players /\ isEliminated[q]
      <4>1. \A i \in DOMAIN eliminationOrder : eliminationOrder[i] \in Players
        BY DEF TimerSide, MatchType
      <4> QED
        BY <4>1 DEF EngineSide, OnlyTheOutAreRanked, Range, TimerSide, MatchType
    <3>1. CASE order = eliminationOrder
      BY <1>1, <3>0, <3>1
    <3>2. CASE order = RecordEliminations(eliminationOrder, gone)
      <4>1. \A q \in gone : isEliminated'[q]
        BY DEF Moved
      <4> QED
        BY <1>1, <3>0, <3>2, <4>1, RecordedOnce
    <3> QED
      BY <3>1, <3>2
  <2>2. \A q \in lastRoundResult'.eliminated : isEliminated'[q]
    BY DEF Moved
  <2>3. eliminationOrder' = RecordEliminations(order, lastRoundResult'.eliminated)
    BY DEF BeginRoundResultPhase
  <2>4. /\ eliminationOrder' \in Seq(Players) /\ IsInjective(eliminationOrder')
        /\ Range(eliminationOrder') \subseteq Range(order) \union lastRoundResult'.eliminated
    BY <2>1, <2>3, RecordedOnce, RevealedArePlayers
  <2>5. \A i \in DOMAIN eliminationOrder' : eliminationOrder'[i] \in Range(eliminationOrder')
    BY DEF Range
  <2> QED
    BY <2>1, <2>2, <2>4, <2>5 DEF OnlyTheOutAreRanked
<1>3. /\ gamePhase' = "ROUND_RESULT" /\ roomTurnTimer' = NoPlayer /\ roundContinueTimer'
      /\ roundContinueTimer' \in BOOLEAN
      /\ roundContinueReady' \subseteq Players /\ UNCHANGED matchVars
  <2>1. ActivePlayers' \subseteq Players
    BY DEF ActivePlayers, StillIn
  <2> QED
    BY <2>1 DEF BeginRoundResultPhase, ClearTurnTimer
<1>4. EngineSide'
  BY <1>2, <1>3, EngineSideMoves
<1>5. TimerSide'
  BY <1>2, <1>3 DEF TimerSide, ResultScreen, TurnIsTimed, MatchType, GamePhases, matchVars
<1> QED
  BY <1>4, <1>5

\* The end of a set, whoever brought it about.
LEMMA SetOver ==
    ASSUME EngineSide, TimerSide, NEW gone \in SUBSET Players, Moved(gone), players' = players,
           turnResult' = "game_over",
           OnlyTheOutAreRanked', eliminationOrder' \in Seq(Players),
           CancelRoundContinueWindow, HandleSetOver,
           tail' \subseteq {"closeIfEmpty"}
    PROVE  EngineSide' /\ TimerSide'
<1>1. /\ roomTurnTimer' = NoPlayer
      /\ \/ gamePhase' = "GAME_OVER" /\ nextSetTimers' = nextSetTimers
         \/ gamePhase' = gamePhase /\ nextSetTimers' = nextSetTimers + 1
      /\ seriesState' \in SeriesStates
      /\ nextSetTimers' \in Nat /\ gamesRecorded' \in Nat /\ gamesStarted' = gamesStarted
  BY SetOverFacts DEF TimerSide
<1>2. GameOver'
  BY DEF Moved
<1>3. EngineSide'
  BY <1>1, <1>2, EngineSideMoves
<1>4. ResultScreen' /\ TurnIsTimed'
  <2>1. nextSetTimers' = nextSetTimers + 1 => nextSetTimers' > 0
    BY DEF TimerSide, MatchType
  <2> QED
    BY <1>1, <1>2, <2>1 DEF CancelRoundContinueWindow, ResultScreen, TurnIsTimed
<1>5. MatchType'
  BY <1>1 DEF TimerSide, MatchType, CancelRoundContinueWindow, GamePhases
<1> QED
  BY <1>3, <1>4, <1>5 DEF TimerSide

\* The timers when the turn passes on, or a player drops out without consequences.
LEMMA TimersGoOn ==
    ASSUME TimerSide, EngineSide', players' = players, eliminationOrder' \in Seq(Players),
           UNCHANGED <<gamePhase, windowVars, matchVars>>, ScheduleBotTurn,
           tail \subseteq {"closeIfEmpty"},
           tail' \subseteq {"startNextRound", "closeIfEmpty"},
           "startNextRound" \in tail' => gamePhase = "ROUND_RESULT"
    PROVE  TimerSide'
<1>1. TurnIsTimed' /\ roomTurnTimer' \in players' \union {NoPlayer}
  BY ScheduledForTurn DEF EngineSide
<1>2. ResultScreen'
  BY DEF TimerSide, ResultScreen, windowVars, matchVars
<1>3. MatchType'
  BY <1>1 DEF TimerSide, MatchType, windowVars, matchVars
<1> QED
  BY <1>1, <1>2, <1>3 DEF TimerSide

\* The engine's side when the turn passes on.
LEMMA EngineGoesOn ==
    ASSUME EngineSide, NEW gone, Moved(gone), UNCHANGED <<players, gamePhase>>,
           turnResult' \in {"continue", "last_chance"}, OnlyTheOutAreRanked'
    PROVE  EngineSide'
<1>1. GameOver => GameOver'
  BY GameOverStays DEF Moved
<1> QED
  BY <1>1, EngineSideMoves DEF EngineSide, MatchFollowsEngine

\* handleResult and handleBotResult, after a turn.
LEMMA ResultHandled ==
    ASSUME EngineSide, TimerSide, Idle, Moved({}), roundPhase # "RESOLVING", players' = players,
           HandleResult
    PROVE  EngineSide' /\ TimerSide'
<1>0. \A q \in Players : isEliminated[q] => isEliminated'[q]
  BY DEF Moved
<1>1. CASE /\ turnResult' \in {"continue", "last_chance"}
           /\ UNCHANGED <<gamePhase, windowVars, eliminationOrder, matchVars, tail>>
           /\ ScheduleBotTurn
  <2>1. OnlyTheOutAreRanked' /\ eliminationOrder' \in Seq(Players)
    <3>1. \A i \in DOMAIN eliminationOrder : eliminationOrder[i] \in Players
      BY DEF TimerSide, MatchType
    <3> QED
      BY <1>0, <1>1, <3>1 DEF OnlyTheOutAreRanked, EngineSide, TimerSide, MatchType, IsInjective
  <2> QED
    BY <1>1, <2>1, TimersGoOn, EngineGoesOn DEF Idle
<1>2. CASE /\ turnResult' = "resolve"
           /\ BeginRoundResultPhase(eliminationOrder)
           /\ tail' = IF OnlyBotsLeft THEN {"startNextRound"} ELSE {}
  BY <1>2, ResultShown
<1>3. CASE /\ turnResult' = "game_over"
           /\ eliminationOrder' = RecordEliminations(eliminationOrder, lastRoundResult'.eliminated)
           /\ CancelRoundContinueWindow
           /\ HandleSetOver
           /\ UNCHANGED tail
  <2>1. OnlyTheOutAreRanked' /\ eliminationOrder' \in Seq(Players)
    BY <1>0, <1>3, OnlyOutRanked, RevealedArePlayers DEF EngineSide, TimerSide, MatchType, Moved
  <2> QED
    BY <1>3, <2>1, SetOver DEF Idle
<1> QED
  BY <1>1, <1>2, <1>3 DEF HandleResult

\* onDisconnectTimeout and the part of room:leave that it shares.
LEMMA DroppedOut ==
    ASSUME EngineSide, TimerSide, Idle, NEW p \in Players, players' = players,
           NEW then \in SUBSET {"closeIfEmpty"}, DropOut(p, then)
    PROVE  /\ EngineSide' /\ TimerSide'
           /\ \A q \in Players : isEliminated[q] \/ q = p => isEliminated'[q]
           /\ \A q \in Players : isEliminated'[q] =>
                 \/ isEliminated[q] \/ q = p
                 \/ roundPhase # "RESOLVING" /\ q \in lastRoundResult'.eliminated
<1> DEFINE order == RecordEliminations(eliminationOrder, {p})
           advance(go) == IF go THEN {"startNextRound"} ELSE {}
           goOn == /\ gamePhase = "ROUND_RESULT"
                   /\ RoundContinueComplete(ActivePlayers', roundContinueReady)
<1>1. \/ isEliminated[p] /\ UNCHANGED vars
      \/ EliminatePlayer(p) /\ Moved({p}) /\ (GameOver => turnResult' = "game_over")
  BY LeaverMoves DEF DropOut, EngineSide
<1>2. /\ \A q \in Players : isEliminated[q] \/ q = p => isEliminated'[q]
      /\ \A q \in Players : isEliminated'[q] =>
            \/ isEliminated[q] \/ q = p
            \/ roundPhase # "RESOLVING" /\ q \in lastRoundResult'.eliminated
  BY <1>1 DEF Moved, vars
<1>3. ASSUME eliminationOrder' = order
      PROVE  OnlyTheOutAreRanked' /\ eliminationOrder' \in Seq(Players)
  <2> DEFINE gone == {p}
  <2>1. gone \in SUBSET Players /\ \A q \in gone : isEliminated'[q]
    BY <1>2
  <2>2. eliminationOrder' = RecordEliminations(eliminationOrder, gone)
    BY <1>3
  <2> HIDE DEF gone, order
  <2> QED
    BY <1>2, <2>1, <2>2, OnlyOutRanked DEF EngineSide, TimerSide, MatchType
<1>4. ASSUME isEliminated[p] \/ turnResult' \in {"continue", "last_chance"},
             eliminationOrder' = order, UNCHANGED <<gamePhase, windowVars, matchVars>>,
             ScheduleBotTurn, tail' = then \union advance(goOn)
      PROVE  EngineSide' /\ TimerSide'
  <2>1. EngineSide'
    <3>1. CASE isEliminated[p] /\ UNCHANGED vars
      BY <1>3, <1>4, <3>1, EngineSideStays
    <3>2. CASE EliminatePlayer(p) /\ Moved({p})
      BY <1>3, <1>4, <3>2, EngineGoesOn DEF EliminatePlayer
    <3> QED
      BY <1>1, <3>1, <3>2
  <2>2. tail = {} /\ tail' \subseteq {"startNextRound", "closeIfEmpty"}
        /\ ("startNextRound" \in tail' => gamePhase = "ROUND_RESULT")
    BY <1>4 DEF Idle
  <2> QED
    BY <1>3, <1>4, <2>1, <2>2, TimersGoOn
<1>5. ASSUME ~isEliminated[p], turnResult' = "resolve", BeginRoundResultPhase(order),
             tail' = then \union advance(OnlyBotsLeft)
      PROVE  EngineSide' /\ TimerSide'
  <2>1. Moved({p})
    BY <1>1, <1>5
  <2>2. tail' \subseteq {"startNextRound", "closeIfEmpty"}
    BY <1>5
  <2> QED
    BY <1>5, <2>1, <2>2, ResultShown
<1>6. ASSUME ~isEliminated[p], turnResult' = "game_over", eliminationOrder' = order, tail' = then
      PROVE  /\ CancelRoundContinueWindow /\ HandleSetOver => EngineSide' /\ TimerSide'
             /\ /\ gamePhase = "GAME_OVER"
                /\ ClearTurnTimer /\ UNCHANGED <<gamePhase, windowVars, matchVars>>
                => EngineSide' /\ TimerSide'
  <2>1. Moved({p})
    BY <1>1, <1>6
  <2>2. ASSUME CancelRoundContinueWindow, HandleSetOver
        PROVE  EngineSide' /\ TimerSide'
    BY <1>3, <1>6, <2>1, <2>2, SetOver
  <2>3. ASSUME gamePhase = "GAME_OVER", ClearTurnTimer,
               UNCHANGED <<gamePhase, windowVars, matchVars>>
        PROVE  EngineSide' /\ TimerSide'
    <3>1. EngineSide'
      BY <1>3, <1>6, <2>1, <2>3, EngineSideMoves DEF Moved
    <3>2. ResultScreen' /\ TurnIsTimed' /\ MatchType'
      BY <1>3, <1>6, <2>3 DEF TimerSide, ResultScreen, TurnIsTimed, MatchType, ClearTurnTimer,
                              windowVars, matchVars
    <3> QED
      BY <3>1, <3>2 DEF TimerSide
  <2> QED
    BY <2>2, <2>3
<1>7. EngineSide' /\ TimerSide'
  <2> HIDE DEF order, advance, goOn
  <2> QED
    BY <1>4, <1>5, <1>6 DEF DropOut, order, advance, goOn
<1> QED
  BY <1>2, <1>7

\* startNextRound: the round goes on, or the set is over.
LEMMA RoundStarted ==
    ASSUME EngineSide, TimerSide, players \subseteq Players, StartRound
    PROVE  EngineSide' /\ TimerSide' /\ isEliminated' = isEliminated
<1>1. /\ gamePhase = "ROUND_RESULT" /\ roundPhase = "RESOLVING"
      /\ StartNextRound /\ CancelRoundContinueWindow
      /\ UNCHANGED <<peopleVars, eliminationOrder>>
      /\ tail' = tail \ {"startNextRound"}
  BY DEF StartRound, TimerSide, ResultScreen, EngineSide, ResultIsRevealed
<1>2. isEliminated' = isEliminated /\ ActivePlayers' = ActivePlayers
  BY <1>1 DEF StartNextRound, ActivePlayers, StillIn
<1>3. TypeOK' /\ TurnInv'
  BY <1>1, NextRoundType, NextRoundTurn DEF EngineSide
<1>4. /\ players' = players /\ PlayersAreInRoom'
      /\ OnlyTheOutAreRanked' /\ eliminationOrder' \in Seq(Players)
  <2>1. players' = players /\ GameOver' = GameOver /\ eliminationOrder' = eliminationOrder
    BY <1>1, <1>2 DEF peopleVars, GameOver
  <2> QED
    BY <1>2, <2>1 DEF EngineSide, PlayersAreInRoom, OnlyTheOutAreRanked, TimerSide, MatchType,
        IsInjective
<1>5. tail' \subseteq {"closeIfEmpty"}
  BY <1>1 DEF TimerSide, MatchType
<1>6. CASE turnResult' = "new_round" /\ BeginPlaying /\ UNCHANGED matchVars
  <2>1. roundPhase' = "CALLING" /\ gamePhase' = "PLAYING"
    BY <1>1, <1>6 DEF StartNextRound, BeginPlaying
  <2>2. EngineSide'
    BY <1>3, <1>4, <2>1 DEF EngineSide, MatchFollowsEngine, ResultIsRevealed
  <2>3. TurnIsTimed' /\ roomTurnTimer' \in players' \union {NoPlayer}
    BY <1>4, <1>6, ScheduledForTurn DEF BeginPlaying
  <2>4. ResultScreen' /\ MatchType'
    BY <1>1, <1>4, <1>5, <1>6, <2>1, <2>3 DEF ResultScreen, MatchType, TimerSide, matchVars,
        CancelRoundContinueWindow, GamePhases
  <2> QED
    BY <1>2, <2>2, <2>3, <2>4 DEF TimerSide
<1>7. CASE turnResult' = "game_over" /\ HandleSetOver
  <2>1. GameOver' /\ roundPhase' = "RESOLVING"
    BY <1>1, <1>2, <1>7 DEF StartNextRound, GameOver
  <2>2. /\ roomTurnTimer' = NoPlayer
        /\ \/ gamePhase' = "GAME_OVER" /\ nextSetTimers' = nextSetTimers
           \/ gamePhase' = gamePhase /\ nextSetTimers' = nextSetTimers + 1
        /\ seriesState' \in SeriesStates
        /\ nextSetTimers' \in Nat /\ gamesRecorded' \in Nat /\ gamesStarted' = gamesStarted
    BY <1>7, SetOverFacts DEF TimerSide
  <2>3. EngineSide'
    BY <1>1, <1>3, <1>4, <2>1, <2>2 DEF EngineSide, MatchFollowsEngine, ResultIsRevealed
  <2>4. nextSetTimers' = nextSetTimers + 1 => nextSetTimers' > 0
    BY DEF TimerSide, MatchType
  <2>5. ResultScreen' /\ TurnIsTimed'
    BY <1>1, <1>5, <2>1, <2>2, <2>4 DEF ResultScreen, TurnIsTimed, CancelRoundContinueWindow
  <2>6. MatchType'
    BY <1>1, <1>4, <1>5, <2>2 DEF TimerSide, MatchType, CancelRoundContinueWindow, GamePhases
  <2> QED
    BY <1>2, <2>3, <2>5, <2>6 DEF TimerSide
<1> QED
  BY <1>1, <1>6, <1>7 DEF StartRound

\* A new engine for the next set has the right type and gives the first turn to a player.
LEMMA NewGameFacts ==
    ASSUME TypeOK, NEW S \in SUBSET Players, NewGame(S)
    PROVE  /\ TypeOK' /\ TurnInv'
           /\ ActivePlayers' = S /\ roundPhase' = "CALLING"
<1>1. ActivePlayers' = S
  BY DEF NewGame, ActivePlayers, StillIn
<1>2. startingPlayerId' \in Players /\ (S # {} => startingPlayerId' \in S)
  BY DEF NewGame, TypeOK
<1>3. /\ currentPlayerIndex' = IndexIn(S, startingPlayerId')
      /\ startingPlayerIndex' = IndexIn(S, startingPlayerId')
  BY DEF NewGame
<1>4. {currentPlayerIndex', startingPlayerIndex'} \subseteq -1 .. NumPlayers - 1
  <2> SUFFICES ASSUME NEW q, q = startingPlayerId'
               PROVE  IndexIn(S, q) \in -1 .. NumPlayers - 1
    BY <1>3
  <2> QED
    BY IndexInRange
<1>5. /\ isEliminated' \in [Players -> BOOLEAN] /\ cardCount' \in [Players -> Nat]
      /\ lastRoundResult' \in RoundResult /\ turnHistory' \in Seq(TurnEntry)
  BY FreshRoundType DEF NewGame, STARTING_CARDS
<1>6. /\ roundPhase' = "CALLING" /\ currentHand' = NoHand /\ lastCallerId' = NoPlayer
      /\ respondedPlayers' = {} /\ lastChanceUsed' = FALSE /\ lastCallIndex' = 0
      /\ lastCallIndexLength' = -1 /\ turnResult' = "new_round" /\ settings' = settings
  BY DEF NewGame
<1>7. TypeOK'
  BY <1>2, <1>4, <1>5, <1>6 DEF TypeOK, RoundPhases, TurnResults
<1>8. CASE S = {}
  <2>1. GameOver'
    BY <1>1, <1>8, FS_EmptySet DEF GameOver
  <2> QED
    BY <1>1, <1>6, <1>7, <2>1 DEF TurnInv, HandHasCaller, AnswersNeedHand, TurnIsAskedUpTo,
        LastChanceIsLast
<1>9. CASE S # {}
  <2>1. CurrentPlayerId' = startingPlayerId'
    <3> SUFFICES ASSUME NEW q, q = startingPlayerId', q \in S
                 PROVE  PlayerAt(S, IndexIn(S, q)) = q
      BY <1>1, <1>2, <1>3, <1>9 DEF CurrentPlayerId
    <3> QED
      BY PlayerAtIndex
  <2> QED
    BY <1>1, <1>2, <1>6, <1>7, <1>9, <2>1 DEF TurnInv, HandHasCaller, AnswersNeedHand,
        TurnIsAskedUpTo, LastChanceIsLast
<1> QED
  BY <1>8, <1>9

\* The next set: whoever is away is out of the room, and the others play.
LEMMA NextSetStarted ==
    ASSUME RoomInv, StartNextSet
    PROVE  RoomInv'
<1> DEFINE stay == players \intersect isConnected
<1>0. /\ tail = {} /\ gamePhase # "DELETED" /\ nextSetTimers > 0
      /\ nextSetTimers' = nextSetTimers - 1 /\ nextSetTimers' \in Nat
      /\ UNCHANGED <<bots, isConnected, seriesState, gamesRecorded, tail>>
  BY DEF StartNextSet, Idle, RoomInv, TimerSide, MatchType
<1>1. CASE /\ gamePhase = "GAME_OVER"
           /\ UNCHANGED <<vars, gamePhase, players, reconnectTokens, disconnectTimers,
                          roomTurnTimer, windowVars, eliminationOrder, gamesStarted>>
  <2>1. OnlyTheOutAreRanked'
    BY <1>1 DEF RoomInv, EngineSide, OnlyTheOutAreRanked, IsInjective, vars
  <2>2. EngineSide'
    BY <1>1, <2>1, EngineSideStays DEF RoomInv
  <2>3. TimerSide'
    BY <1>0, <1>1 DEF RoomInv, TimerSide, ResultScreen, TurnIsTimed, MatchType, windowVars
  <2>4. PeopleSide'
    BY <1>0, <1>1 DEF RoomInv, PeopleSide, AbsenceIsTimed, vars
  <2> QED
    BY <2>2, <2>3, <2>4 DEF RoomInv
<1>2. CASE /\ NewGame(stay)
           /\ KeepInRoom(stay)
           /\ BeginPlaying
           /\ CancelRoundContinueWindow
           /\ eliminationOrder' = << >>
           /\ gamesStarted' = gamesStarted + 1
  <2>1. stay \in SUBSET Players /\ players' = stay
    BY <1>2 DEF RoomInv, PeopleSide, KeepInRoom
  <2>2. /\ TypeOK' /\ TurnInv' /\ ActivePlayers' = stay /\ roundPhase' = "CALLING"
    BY <1>2, <2>1, NewGameFacts DEF RoomInv, EngineSide
  <2>3. gamePhase' = "PLAYING" /\ ScheduleBotTurn
    BY <1>2 DEF BeginPlaying
  <2>4. PlayersAreInRoom'
    BY <2>1, <2>2 DEF PlayersAreInRoom
  <2>5. eliminationOrder' \in Seq(Players) /\ OnlyTheOutAreRanked'
    <3>1. << >> \in Seq(Players) /\ DOMAIN << >> = {}
      OBVIOUS
    <3> QED
      BY <1>2, <3>1 DEF OnlyTheOutAreRanked, IsInjective
  <2>6. EngineSide'
    BY <2>2, <2>3, <2>4, <2>5 DEF EngineSide, MatchFollowsEngine, ResultIsRevealed
  <2>7. TurnIsTimed' /\ roomTurnTimer' \in players' \union {NoPlayer}
    BY <2>3, <2>4, ScheduledForTurn
  <2>8. ResultScreen'
    BY <1>0, <1>2, <2>3 DEF ResultScreen, CancelRoundContinueWindow
  <2>9. MatchType'
    <3>1. gamesStarted' \in Nat
      BY <1>2 DEF RoomInv, TimerSide, MatchType
    <3>2. /\ seriesState' \in SeriesStates /\ gamesRecorded' \in Nat
          /\ tail' \subseteq {"startNextRound", "closeIfEmpty"}
      BY <1>0 DEF RoomInv, TimerSide, MatchType
    <3>3. /\ roundContinueTimer' \in BOOLEAN /\ roundContinueReady' \subseteq Players
          /\ gamePhase' \in GamePhases
      BY <1>2, <2>3 DEF CancelRoundContinueWindow, GamePhases
    <3> QED
      BY <1>0, <2>5, <2>7, <3>1, <3>2, <3>3 DEF MatchType
  <2>10. PeopleSide'
    BY <1>0, <1>2, <2>1 DEF RoomInv, PeopleSide, AbsenceIsTimed, KeepInRoom
  <2> QED
    BY <2>6, <2>7, <2>8, <2>9, <2>10 DEF RoomInv, TimerSide
<1> QED
  BY <1>1, <1>2 DEF StartNextSet

\* The people stay who they are while the engine moves.
LEMMA PeopleStay ==
    ASSUME PeopleSide, UNCHANGED peopleVars,
           gamePhase' # "DELETED" => gamePhase # "DELETED",
           \A q \in Players : isEliminated[q] => isEliminated'[q]
    PROVE  PeopleSide'
BY DEF PeopleSide, AbsenceIsTimed, peopleVars

\* A step of the room alone, which leaves the engine, the match and its order be.
LEMMA RoomAlone ==
    ASSUME RoomInv, UNCHANGED <<vars, players, eliminationOrder>>,
           gamePhase' \in {gamePhase, "DELETED"}
    PROVE  /\ EngineSide'
           /\ GameOver' = GameOver /\ CurrentPlayerId' = CurrentPlayerId
           /\ \A q \in Players : isEliminated[q] => isEliminated'[q]
<1>1. OnlyTheOutAreRanked'
  BY DEF RoomInv, EngineSide, OnlyTheOutAreRanked, IsInjective, vars
<1>2. EngineSide'
  BY <1>1, EngineSideStays DEF RoomInv
<1>3. GameOver' = GameOver /\ CurrentPlayerId' = CurrentPlayerId /\ isEliminated' = isEliminated
  BY DEF vars, ActivePlayers, StillIn, CurrentPlayerId, GameOver
<1> QED
  BY <1>2, <1>3

\* The room is closed.
LEMMA RoomDeleted ==
    ASSUME RoomInv, DeleteRoom, tail' = {}
    PROVE  RoomInv'
<1>1. EngineSide'
  BY RoomAlone DEF DeleteRoom
<1>2. TimerSide'
  BY DEF DeleteRoom, RoomInv, TimerSide, ResultScreen, TurnIsTimed, MatchType, GamePhases,
         ClearTurnTimer, CancelRoundContinueWindow, matchVars
<1>3. PeopleSide'
  BY DEF DeleteRoom, RoomInv, PeopleSide, AbsenceIsTimed
<1> QED
  BY <1>1, <1>2, <1>3 DEF RoomInv

-----------------------------------------------------------------------------
(* The handlers and the timers.                                            *)

\* game:call and the other turns
LEMMA PlayerActsKeeps ==
    ASSUME RoomInv, NEW p \in Players, PlayerActs(p)
    PROVE  RoomInv'
<1>1. /\ Idle /\ UNCHANGED peopleVars /\ TurnAction(p) /\ HandleResult /\ players' = players
  BY DEF PlayerActs, peopleVars
<1>2. Moved({}) /\ roundPhase # "RESOLVING"
  BY <1>1, TurnMoves DEF RoomInv, EngineSide
<1>3. EngineSide' /\ TimerSide'
  BY <1>1, <1>2, ResultHandled DEF RoomInv
<1>4. PeopleSide'
  BY <1>1, <1>2, PeopleStay DEF RoomInv, Moved, Idle
<1> QED
  BY <1>3, <1>4 DEF RoomInv

\* A turn that the engine rejects
LEMMA PlayerMisclicksKeeps ==
    ASSUME RoomInv, NEW p \in Players, PlayerMisclicks(p)
    PROVE  RoomInv'
<1>1. /\ roomTurnTimer' = Stopped
      /\ UNCHANGED <<vars, gamePhase, peopleVars, windowVars, eliminationOrder, matchVars, tail>>
      /\ UNCHANGED players
  BY DEF PlayerMisclicks, peopleVars
<1>2. EngineSide' /\ \A q \in Players : isEliminated[q] => isEliminated'[q]
  BY <1>1, RoomAlone
<1>3. TimerSide'
  BY <1>1 DEF RoomInv, TimerSide, ResultScreen, TurnIsTimed, MatchType, windowVars, matchVars
<1>4. PeopleSide'
  BY <1>1, <1>2, PeopleStay DEF RoomInv
<1> QED
  BY <1>2, <1>3, <1>4 DEF RoomInv

\* The automatic move is a turn.
LEMMA AutoActionIsTurn ==
    ASSUME NEW p \in Players, AutoAction(p)
    PROVE  TurnAction(p)
<1>1. 1 \in Hands
  BY MaxHandAssumption DEF Hands
<1>2. HandleLastChancePass(p) \/ HandleBull(p) \/ HandleCall(p, 1)
  BY DEF AutoAction
<1> QED
  BY <1>1, <1>2 DEF TurnAction

\* On the last chance it is the caller's turn or nobody's.
LEMMA LastChanceTurn ==
    ASSUME EngineSide, roundPhase = "LAST_CHANCE", ~GameOver
    PROVE  CurrentPlayerId \in {lastCallerId, NoPlayer}
<1>1. currentPlayerIndex = IndexIn(ActivePlayers, lastCallerId) /\ ActivePlayers \in SUBSET Players
  BY ActiveArePlayers DEF EngineSide, TurnInv, LastChanceIsLast
<1>2. CASE lastCallerId \in ActivePlayers
  BY <1>1, <1>2, PlayerAtIndex DEF CurrentPlayerId
<1>3. CASE lastCallerId \notin ActivePlayers
  <2>1. currentPlayerIndex = -1
    BY <1>1, <1>3 DEF IndexIn
  <2>2. \A q \in ActivePlayers : IndexIn(ActivePlayers, q) # -1
    <3> SUFFICES ASSUME NEW S \in SUBSET Players, NEW q \in S PROVE IndexIn(S, q) # -1
      BY <1>1
    <3>1. IndexIn(S, q) \in 0 .. Cardinality(S) - 1 /\ Cardinality(S) \in Nat
      BY IndexInRange, PlayersFinite
    <3> QED
      BY <3>1
  <2> QED
    BY <2>1, <2>2 DEF CurrentPlayerId, PlayerAt
<1> QED
  BY <1>2, <1>3

\* executeAutoAction and executeBotTurn: the timer makes a move for the player on turn, is set
\* anew, or had nothing left to do.
LEMMA TurnTimerFiresKeeps ==
    ASSUME RoomInv, TurnTimerFires
    PROVE  RoomInv'
<1> DEFINE p == roomTurnTimer
           mayAct == gamePhase = "PLAYING" /\ CurrentPlayerId = p
<1>1. Idle /\ p \in Players /\ UNCHANGED peopleVars /\ players' = players
  BY DEF TurnTimerFires, peopleVars
<1>2. CASE /\ mayAct /\ ~AutoActionFails(p)
           /\ IF p \in bots THEN TurnAction(p) ELSE AutoAction(p)
           /\ HandleResult
  <2>1. TurnAction(p)
    BY <1>1, <1>2, AutoActionIsTurn
  <2>2. Moved({}) /\ roundPhase # "RESOLVING"
    BY <1>1, <2>1, TurnMoves DEF RoomInv, EngineSide
  <2>3. EngineSide' /\ TimerSide'
    BY <1>1, <1>2, <2>2, ResultHandled DEF RoomInv
  <2>4. PeopleSide'
    BY <1>1, <2>2, PeopleStay DEF RoomInv, Moved, Idle
  <2> QED
    BY <2>3, <2>4 DEF RoomInv
<1>3. ASSUME UNCHANGED <<vars, gamePhase, windowVars, eliminationOrder, matchVars, tail>>
      PROVE  /\ EngineSide' /\ PeopleSide' /\ ResultScreen'
             /\ GameOver' = GameOver /\ CurrentPlayerId' = CurrentPlayerId
             /\ roomTurnTimer' \in players \union {NoPlayer} => MatchType'
  <2>1. /\ EngineSide' /\ GameOver' = GameOver /\ CurrentPlayerId' = CurrentPlayerId
        /\ \A q \in Players : isEliminated[q] => isEliminated'[q]
    BY <1>1, <1>3, RoomAlone
  <2>2. PeopleSide'
    BY <1>1, <1>3, <2>1, PeopleStay DEF RoomInv
  <2>3. ResultScreen' /\ (roomTurnTimer' \in players \union {NoPlayer} => MatchType')
    BY <1>1, <1>3 DEF RoomInv, TimerSide, ResultScreen, MatchType, windowVars, matchVars
  <2> QED
    BY <2>1, <2>2, <2>3
<1>4. CASE /\ \/ gamePhase # "PLAYING"
              \/ mayAct /\ AutoActionFails(p)
              \/ p \in bots /\ CurrentPlayerId # p
           /\ ClearTurnTimer
           /\ UNCHANGED <<vars, gamePhase, windowVars, eliminationOrder, matchVars, tail>>
  <2>1. p # NoPlayer /\ p # Stopped
    BY <1>1, NumPlayersAssumption DEF Players, NoPlayer, Stopped
  <2>2. gamePhase = "PLAYING" => GameOver \/ CurrentPlayerId = NoPlayer
    <3> SUFFICES ASSUME gamePhase = "PLAYING", ~GameOver, CurrentPlayerId # NoPlayer PROVE FALSE
      OBVIOUS
    <3>1. p = CurrentPlayerId
      BY <2>1 DEF RoomInv, TimerSide, TurnIsTimed
    <3>2. AutoActionFails(p)
      BY <1>4, <3>1
    <3>3. roundPhase = "LAST_CHANCE" /\ p # lastCallerId
      BY <3>2 DEF AutoActionFails, RoomInv, EngineSide, MatchFollowsEngine
    <3> QED
      BY <2>1, <3>1, <3>3, LastChanceTurn DEF RoomInv
  <2>3. TurnIsTimed'
    BY <1>3, <1>4, <2>2 DEF TurnIsTimed
  <2> QED
    BY <1>3, <1>4, <2>3 DEF RoomInv, TimerSide, ClearTurnTimer
<1>5. CASE /\ ScheduleBotTurn
           /\ UNCHANGED <<vars, gamePhase, windowVars, eliminationOrder, matchVars, tail>>
  <2>1. TurnIsTimed' /\ roomTurnTimer' \in players' \union {NoPlayer}
    BY <1>3, <1>5, ScheduledForTurn DEF EngineSide
  <2> QED
    BY <1>1, <1>3, <1>5, <2>1 DEF RoomInv, TimerSide
<1> QED
  <2> HIDE DEF p, mayAct
  <2> QED
    BY <1>2, <1>4, <1>5 DEF TurnTimerFires, p, mayAct

\* game:continue
LEMMA PlayerContinuesKeeps ==
    ASSUME RoomInv, NEW p \in Players, PlayerContinues(p)
    PROVE  RoomInv'
<1>1. /\ gamePhase = "ROUND_RESULT" /\ tail = {}
      /\ UNCHANGED <<vars, gamePhase, peopleVars, roomTurnTimer, roundContinueTimer,
                     eliminationOrder, matchVars>>
      /\ players' = players /\ roundContinueReady' = roundContinueReady \union {p}
      /\ tail' \subseteq {"startNextRound"}
  BY DEF PlayerContinues, Idle, peopleVars
<1>2. EngineSide' /\ \A q \in Players : isEliminated[q] => isEliminated'[q]
  BY <1>1, RoomAlone
<1>3. TimerSide'
  BY <1>1 DEF RoomInv, TimerSide, ResultScreen, TurnIsTimed, MatchType, matchVars
<1>4. PeopleSide'
  BY <1>1, <1>2, PeopleStay DEF RoomInv
<1> QED
  BY <1>2, <1>3, <1>4 DEF RoomInv

\* The result window runs out.
LEMMA RoundContinueTimeoutKeeps ==
    ASSUME RoomInv, RoundContinueTimeout
    PROVE  RoomInv'
<1>1. /\ roundContinueTimer /\ roundContinueTimer' = FALSE /\ tail' = {"startNextRound"}
      /\ UNCHANGED <<vars, gamePhase, peopleVars, roomTurnTimer, roundContinueReady,
                     eliminationOrder, matchVars>>
      /\ players' = players
  BY DEF RoundContinueTimeout, peopleVars
<1>2. EngineSide' /\ \A q \in Players : isEliminated[q] => isEliminated'[q]
  BY <1>1, RoomAlone
<1>3. gamePhase = "ROUND_RESULT"
  BY <1>1 DEF RoomInv, TimerSide, ResultScreen
<1>4. TimerSide'
  BY <1>1, <1>3 DEF RoomInv, TimerSide, ResultScreen, TurnIsTimed, MatchType, matchVars
<1>5. PeopleSide'
  BY <1>1, <1>2, PeopleStay DEF RoomInv
<1> QED
  BY <1>2, <1>4, <1>5 DEF RoomInv

\* Losing and regaining a connection
LEMMA ConnectionKeeps ==
    ASSUME RoomInv, NEW p \in Players, Disconnect(p) \/ Reconnect(p)
    PROVE  RoomInv'
<1>1. /\ gamePhase # "DELETED"
      /\ UNCHANGED <<vars, gamePhase, bots, players, reconnectTokens, roomTurnTimer, windowVars,
                     eliminationOrder, matchVars, tail>>
  BY DEF Disconnect, Reconnect, Idle
<1>2. /\ EngineSide' /\ isEliminated' = isEliminated
      /\ GameOver' = GameOver /\ CurrentPlayerId' = CurrentPlayerId
  BY <1>1, RoomAlone DEF vars
<1>3. TimerSide'
  BY <1>1, <1>2 DEF RoomInv, TimerSide, ResultScreen, TurnIsTimed, MatchType, windowVars, matchVars
<1>4. PeopleSide'
  BY <1>1, <1>2 DEF RoomInv, PeopleSide, AbsenceIsTimed, Disconnect, Reconnect
<1> QED
  BY <1>2, <1>3, <1>4 DEF RoomInv

\* The absence has lasted too long.
LEMMA DisconnectTimeoutKeeps ==
    ASSUME RoomInv, NEW p \in Players, DisconnectTimeout(p)
    PROVE  RoomInv'
<1>1. /\ Idle /\ disconnectTimers' = disconnectTimers \ {p}
      /\ UNCHANGED <<bots, players, isConnected, reconnectTokens>> /\ DropOut(p, {})
  BY DEF DisconnectTimeout
<1>2. /\ EngineSide' /\ TimerSide'
      /\ \A q \in Players : isEliminated[q] \/ q = p => isEliminated'[q]
  BY <1>1, DroppedOut DEF RoomInv
<1>3. PeopleSide'
  BY <1>1, <1>2 DEF RoomInv, PeopleSide, AbsenceIsTimed, Idle
<1> QED
  BY <1>2, <1>3 DEF RoomInv

\* room:leave
LEMMA RoomLeaveKeeps ==
    ASSUME RoomInv, NEW p \in Players, RoomLeave(p)
    PROVE  RoomInv'
<1>1. /\ Idle
      /\ isConnected' = isConnected \ {p}
      /\ reconnectTokens' = reconnectTokens \ {p}
      /\ disconnectTimers' = disconnectTimers \ {p}
      /\ UNCHANGED bots
  BY DEF RoomLeave
<1>2. CASE /\ gamePhase = "GAME_OVER"
           /\ players' = players \ {p}
           /\ tail' = {"closeIfEmpty"}
           /\ ClearTurnTimer
           /\ UNCHANGED <<vars, gamePhase, windowVars, eliminationOrder, matchVars>>
  <2>1. /\ isEliminated' = isEliminated /\ GameOver
        /\ ActivePlayers' = ActivePlayers /\ GameOver' = GameOver /\ UNCHANGED vars
    BY <1>2 DEF RoomInv, EngineSide, MatchFollowsEngine, vars, ActivePlayers, StillIn, GameOver
  <2>2. TypeOK' /\ TurnInv'
    <3>1. TypeOK'
      BY <2>1 DEF RoomInv, EngineSide, TypeOK, vars
    <3> QED
      BY <2>1, <3>1, TurnStep DEF RoomInv, EngineSide
  <2>3. EngineSide'
    BY <1>2, <2>1, <2>2 DEF RoomInv, EngineSide, MatchFollowsEngine, ResultIsRevealed,
        PlayersAreInRoom, OnlyTheOutAreRanked, IsInjective
  <2>4. TimerSide'
    BY <1>1, <1>2 DEF RoomInv, TimerSide, ResultScreen, TurnIsTimed, MatchType, windowVars,
        matchVars, ClearTurnTimer, Idle
  <2>5. PeopleSide'
    BY <1>1, <1>2, <2>1 DEF RoomInv, PeopleSide, AbsenceIsTimed
  <2> QED
    BY <2>3, <2>4, <2>5 DEF RoomInv
<1>3. CASE UNCHANGED players /\ DropOut(p, {"closeIfEmpty"})
  <2>1. /\ EngineSide' /\ TimerSide'
        /\ \A q \in Players : isEliminated[q] \/ q = p => isEliminated'[q]
    <3>1. {"closeIfEmpty"} \in SUBSET {"closeIfEmpty"}
      OBVIOUS
    <3> QED
      BY <1>1, <1>3, <3>1, DroppedOut DEF RoomInv
  <2>2. PeopleSide'
    BY <1>1, <1>3, <2>1 DEF RoomInv, PeopleSide, AbsenceIsTimed, Idle
  <2> QED
    BY <2>1, <2>2 DEF RoomInv
<1> QED
  BY <1>2, <1>3 DEF RoomLeave

\* The end of room:leave
LEMMA CloseIfEmptyKeeps ==
    ASSUME RoomInv, CloseIfEmpty
    PROVE  RoomInv'
<1>1. CASE DeleteRoom /\ tail' = {}
  BY <1>1, RoomDeleted
<1>2. CASE /\ tail = {"closeIfEmpty"} /\ tail' = {}
           /\ UNCHANGED <<vars, gamePhase, peopleVars, roomTurnTimer, windowVars,
                          eliminationOrder, matchVars>>
  <2>1. players' = players
    BY <1>2 DEF peopleVars
  <2>2. /\ EngineSide' /\ GameOver' = GameOver /\ CurrentPlayerId' = CurrentPlayerId
        /\ \A q \in Players : isEliminated[q] => isEliminated'[q]
    BY <1>2, <2>1, RoomAlone
  <2>3. TimerSide'
    BY <1>2, <2>1, <2>2 DEF RoomInv, TimerSide, ResultScreen, TurnIsTimed, MatchType, windowVars,
        matchVars
  <2>4. PeopleSide'
    BY <1>2, <2>2, PeopleStay DEF RoomInv
  <2> QED
    BY <2>2, <2>3, <2>4 DEF RoomInv
<1> QED
  BY <1>1, <1>2 DEF CloseIfEmpty

-----------------------------------------------------------------------------
(* The theorems.                                                           *)

\* A match that has just been started
LEMMA RoomInitKeeps ==
    ASSUME RoomInit
    PROVE  RoomInv
<1>1. players \in SUBSET Players /\ Cardinality(players) >= 2 /\ ActivePlayers = players
      /\ bots \subseteq Players
  BY BotsAssumption DEF RoomInit, ActivePlayers, StillIn
<1>2. PlayerAt(players, 0) \in players
  <2>1. Cardinality(players) \in Nat /\ 0 \in 0 .. Cardinality(players) - 1
    BY <1>1, PlayersFinite
  <2> QED
    BY <1>1, <2>1, PlayerAtIndex
<1>3. CurrentPlayerId = PlayerAt(players, 0) /\ roomTurnTimer = CurrentPlayerId
  BY <1>1 DEF RoomInit, CurrentPlayerId
<1>4. TypeOK
  <2>1. startingPlayerId \in Players /\ 0 \in -1 .. NumPlayers - 1
    BY <1>1, <1>2, NumPlayersAssumption DEF RoomInit
  <2>2. isEliminated \in [Players -> BOOLEAN] /\ cardCount \in [Players -> Nat]
    BY DEF RoomInit, STARTING_CARDS
  <2>3. lastCallIndexLength \in Nat \union {-1} /\ respondedPlayers \in SUBSET Players
    BY DEF RoomInit
  <2> QED
    BY <2>1, <2>2, <2>3, FreshRoundType DEF RoomInit, TypeOK, RoundPhases, TurnResults
<1>5. TurnInv
  BY <1>1, <1>2, <1>3 DEF RoomInit, TurnInv, HandHasCaller, AnswersNeedHand, TurnIsAskedUpTo,
      LastChanceIsLast
<1>6. eliminationOrder \in Seq(Players) /\ OnlyTheOutAreRanked
  <2>1. << >> \in Seq(Players) /\ DOMAIN << >> = {}
    OBVIOUS
  <2> QED
    BY <2>1 DEF RoomInit, OnlyTheOutAreRanked, IsInjective
<1>7. EngineSide
  BY <1>1, <1>4, <1>5, <1>6 DEF EngineSide, RoomInit, MatchFollowsEngine, ResultIsRevealed,
      PlayersAreInRoom
<1>8. seriesState \in SeriesStates
  <2>1. PICK b \in BestOfChoices \union {1} :
          seriesState = [bestOf |-> b, currentSet |-> 1,
                         wins |-> [p \in Players \union {NoPlayer} |-> 0]]
    BY DEF RoomInit
  <2> QED
    BY <2>1 DEF SeriesStates
<1>9. TimerSide
  BY <1>2, <1>3, <1>6, <1>8 DEF RoomInit, TimerSide, ResultScreen, TurnIsTimed, MatchType,
      GamePhases
<1>10. PeopleSide
  BY <1>1 DEF RoomInit, PeopleSide, AbsenceIsTimed
<1> QED
  BY <1>7, <1>9, <1>10 DEF RoomInv

\* No event breaks the invariant.
LEMMA RoomStepKeeps ==
    ASSUME RoomInv, [RoomNext]_allVars
    PROVE  RoomInv'
<1>1. ASSUME NEW p \in Players,
             \/ PlayerActs(p) \/ PlayerMisclicks(p) \/ PlayerContinues(p)
             \/ Disconnect(p) \/ Reconnect(p) \/ DisconnectTimeout(p) \/ RoomLeave(p)
      PROVE  RoomInv'
  BY <1>1, PlayerActsKeeps, PlayerMisclicksKeeps, PlayerContinuesKeeps, ConnectionKeeps,
     DisconnectTimeoutKeeps, RoomLeaveKeeps
<1>2. CASE TurnTimerFires \/ RoundContinueTimeout \/ CloseIfEmpty \/ StartNextSet
  BY <1>2, TurnTimerFiresKeeps, RoundContinueTimeoutKeeps, CloseIfEmptyKeeps, NextSetStarted
<1>3. CASE StartRound
  <2>1. EngineSide' /\ TimerSide' /\ isEliminated' = isEliminated
    BY <1>3, RoundStarted DEF RoomInv, PeopleSide
  <2>2. gamePhase # "DELETED"
    BY <1>3 DEF StartRound, RoomInv, TimerSide, ResultScreen
  <2>3. PeopleSide'
    BY <1>3, <2>1, <2>2, PeopleStay DEF RoomInv, StartRound
  <2> QED
    BY <2>1, <2>3 DEF RoomInv
<1>4. CASE RoomDelete \/ CleanupStaleRoom
  BY <1>4, RoomDeleted DEF RoomDelete, CleanupStaleRoom, Idle
<1>5. CASE UNCHANGED allVars
  <2>1. /\ UNCHANGED <<vars, players, eliminationOrder, gamePhase, peopleVars>>
        /\ UNCHANGED <<roomTurnTimer, windowVars, matchVars, tail>>
    BY <1>5 DEF allVars, roomVars, peopleVars, windowVars, matchVars
  <2>2. /\ EngineSide' /\ GameOver' = GameOver /\ CurrentPlayerId' = CurrentPlayerId
        /\ \A q \in Players : isEliminated[q] => isEliminated'[q]
    BY <2>1, RoomAlone
  <2>3. TimerSide'
    BY <2>1, <2>2 DEF RoomInv, TimerSide, ResultScreen, TurnIsTimed, MatchType, windowVars,
        matchVars
  <2>4. PeopleSide'
    BY <2>1, <2>2, PeopleStay DEF RoomInv
  <2> QED
    BY <2>2, <2>3, <2>4 DEF RoomInv
<1> QED
  BY <1>1, <1>2, <1>3, <1>4, <1>5 DEF RoomNext

\* The room and the engine stay in step.
THEOREM RoomInvKept == RoomSpec => []RoomInv
BY RoomInitKeeps, RoomStepKeeps, PTL DEF RoomSpec

\* Every field of a room keeps its type: in particular timers and tokens are those of people
\* who are in the room, also when the next set drops the players who are away.
THEOREM RoomTypeCorrect == RoomSpec => []RoomTypeOK
<1>1. RoomInv => RoomTypeOK
  BY DEF RoomInv, TimerSide, MatchType, SeriesStates, PeopleSide, RoomTypeOK
<1> QED
  BY <1>1, RoomInvKept, PTL

\* The window with the result is never open over a round that is being played, and the
\* engine is asked for the next round only when it has revealed the last.
THEOREM ResultScreenIsOfReveal == RoomSpec => []ResultIsRevealed
BY RoomInvKept, PTL DEF RoomInv, EngineSide

\* A result screen always has an end in sight.
THEOREM ResultScreenHasEnd == RoomSpec => []ResultScreenEnds
<1>1. RoomInv => ResultScreenEnds
  BY DEF RoomInv, TimerSide, ResultScreen, ResultScreenEnds
<1> QED
  BY <1>1, RoomInvKept, PTL

\* The turn timer that runs is that of the player on turn, whoever moved, left or was put out
\* meanwhile, and it runs unless a rejected message stopped it.
THEOREM TimerFollowsTurn == RoomSpec => []TurnTimerRuns
<1>1. RoomInv => TurnTimerRuns
  BY DEF RoomInv, TimerSide, TurnIsTimed, TurnTimerRuns, TurnAwaited
<1> QED
  BY <1>1, RoomInvKept, PTL

\* Nobody who is back is timed, and nobody who is away and may come back is not.
THEOREM AbsencesAreTimed == RoomSpec => []AbsenceIsTimed
BY RoomInvKept, PTL DEF RoomInv, PeopleSide

\* The order of finish holds nobody twice and nobody who is still playing, whichever of the
\* three ways of dropping out came first.
THEOREM RankedAreOut == RoomSpec => []OnlyTheOutAreRanked
BY RoomInvKept, PTL DEF RoomInv, EngineSide

\* The turn order of the engine holds in a room too, where anybody may drop out.
THEOREM TurnPendingInRoom == RoomSpec => []TurnIsPending
<1>1. RoomInv => TurnIsPending
  BY DEF RoomInv, EngineSide, TurnInv, TurnIsAskedUpTo, TurnIsPending, AskedUpTo
<1> QED
  BY <1>1, RoomInvKept, PTL

\* Nobody is put out of a running game but by a reveal, by leaving, or by an absence that
\* lasted until its timer fired.
THEOREM OutForCause == RoomSpec => PutOutForCause
<1> DEFINE Cause(p) == \/ roundPhase # "RESOLVING" /\ p \in lastRoundResult'.eliminated
                       \/ p \in isConnected /\ p \notin reconnectTokens'
                       \/ p \in disconnectTimers \ isConnected
<1>1. ASSUME RoomInv, [RoomNext]_allVars, NEW p \in Players,
             gamesStarted' = gamesStarted, isEliminated'[p], ~isEliminated[p]
      PROVE  Cause(p)
  <2>1. ASSUME Moved({}) PROVE Cause(p)
    BY <1>1, <2>1 DEF Moved
  <2>2. ASSUME NEW q \in Players, PlayerActs(q) PROVE Cause(p)
    BY <1>1, <2>1, <2>2, TurnMoves DEF PlayerActs, RoomInv, EngineSide
  <2>3. ASSUME TurnTimerFires PROVE Cause(p)
    <3>1. roomTurnTimer \in Players /\ (UNCHANGED vars \/ TurnAction(roomTurnTimer))
      BY <2>3, AutoActionIsTurn DEF TurnTimerFires
    <3>2. TurnAction(roomTurnTimer)
      BY <1>1, <3>1 DEF vars
    <3> QED
      BY <1>1, <2>1, <3>1, <3>2, TurnMoves DEF RoomInv, EngineSide
  <2>4. ASSUME NEW q \in Players, DisconnectTimeout(q) PROVE Cause(p)
    <3>1. p = q \/ (roundPhase # "RESOLVING" /\ p \in lastRoundResult'.eliminated)
      BY <1>1, <2>4, DroppedOut DEF DisconnectTimeout, RoomInv
    <3>2. q \in disconnectTimers /\ q \notin isConnected
      BY <1>1, <2>4 DEF DisconnectTimeout, RoomInv, PeopleSide, AbsenceIsTimed
    <3> QED
      BY <3>1, <3>2
  <2>5. ASSUME NEW q \in Players, RoomLeave(q) PROVE Cause(p)
    <3>1. q \in isConnected /\ q \notin reconnectTokens'
      BY <2>5 DEF RoomLeave
    <3>2. UNCHANGED players /\ DropOut(q, {"closeIfEmpty"}) /\ Idle
      BY <1>1, <2>5 DEF RoomLeave, vars
    <3>3. {"closeIfEmpty"} \in SUBSET {"closeIfEmpty"}
      OBVIOUS
    <3>4. p = q \/ (roundPhase # "RESOLVING" /\ p \in lastRoundResult'.eliminated)
      BY <1>1, <3>2, <3>3, DroppedOut DEF RoomInv
    <3> QED
      BY <3>1, <3>4
  <2>6. ASSUME StartRound PROVE Cause(p)
    BY <1>1, <2>6, RoundStarted DEF RoomInv, PeopleSide
  <2>7. ASSUME StartNextSet PROVE Cause(p)
    <3>1. UNCHANGED vars \/ gamesStarted' = gamesStarted + 1
      BY <2>7 DEF StartNextSet
    <3>2. gamesStarted \in Nat
      BY <1>1 DEF RoomInv, TimerSide, MatchType
    <3> QED
      BY <1>1, <3>1, <3>2 DEF vars
  <2>8. CASE UNCHANGED vars
    BY <1>1, <2>8 DEF vars
  <2>9. ASSUME NEW q \in Players,
               \/ PlayerMisclicks(q) \/ PlayerContinues(q) \/ Disconnect(q) \/ Reconnect(q)
        PROVE  UNCHANGED vars
    BY <2>9 DEF PlayerMisclicks, PlayerContinues, Disconnect, Reconnect
  <2>10. ASSUME \/ RoundContinueTimeout \/ CloseIfEmpty \/ RoomDelete \/ CleanupStaleRoom
                \/ UNCHANGED allVars
         PROVE  UNCHANGED vars
    BY <2>10 DEF RoundContinueTimeout, CloseIfEmpty, RoomDelete, CleanupStaleRoom, DeleteRoom, allVars
  <2> HIDE DEF Cause
  <2> QED
    BY <1>1, <2>2, <2>3, <2>4, <2>5, <2>6, <2>7, <2>8, <2>9, <2>10 DEF RoomNext
<1>2. RoomInv /\ [RoomNext]_allVars =>
        [ \A p \in Players : gamesStarted' = gamesStarted /\ isEliminated'[p] /\ ~isEliminated[p] =>
            \/ roundPhase # "RESOLVING" /\ p \in lastRoundResult'.eliminated
            \/ p \in isConnected /\ p \notin reconnectTokens'
            \/ p \in disconnectTimers \ isConnected ]_allVars
  BY <1>1
<1> QED
  BY <1>2, RoomInvKept, PTL DEF RoomSpec, PutOutForCause

=============================================================================
