----------------------------- MODULE GameRoom -----------------------------
(***************************************************************************)
(* A room of the server while a match is played: the engine, composed with *)
(* the timers and handlers that drive it (server/src/socket/gameHandlers,  *)
(* roundTransition, registerHandlers and lobbyHandlers, rooms/Room,        *)
(* game/BotManager).                                                       *)
(*                                                                         *)
(* A handler runs to completion before the next event is taken.  It is one *)
(* action here, except that a handler which ends by starting the next      *)
(* round or by closing an empty room leaves that call in `tail`: no event  *)
(* is taken until it is made.  clearTimeout removes a turn timer before    *)
(* its callback can run, so a room has one timer or none and the           *)
(* generation numbers BotManager also compares need no variable.           *)
(***************************************************************************)
EXTENDS GameEngine

CONSTANTS
    BotChoices,      \* sets of seats that may be played by bots
    BestOfChoices,   \* lengths of a series; only games of two are series
    Misclickers      \* players whose client may send an action the engine rejects

ASSUME BotsAssumption == BotChoices \subseteq SUBSET Players
ASSUME BestOfAssumption == BestOfChoices \subseteq {1, 3, 5}
ASSUME MisclickersAssumption == Misclickers \subseteq Players

VARIABLES
    bots,                \* the seats played by bots, fixed here
    gamePhase,
    players,             \* the players in the room, who are dealt in by the next game
    isConnected,         \* those with a socket, and the bots
    reconnectTokens,     \* those who may come back
    disconnectTimers,    \* those who will be eliminated unless they do
    roomTurnTimer,       \* the player the pending turn timer was set for, NoPlayer or Stopped
    roundContinueTimer,
    roundContinueReady,
    eliminationOrder,
    seriesState,
    nextSetTimers,       \* pending starts of the next set
    tail,                \* calls the running handler has still to make
    gamesStarted,        \* history: games (sets) started ...
    gamesRecorded        \* ... and matches written to the database

windowVars == <<roundContinueTimer, roundContinueReady>>
peopleVars == <<bots, players, isConnected, reconnectTokens, disconnectTimers>>
matchVars == <<seriesState, nextSetTimers, gamesStarted, gamesRecorded>>
roomVars == <<bots, gamePhase, players, isConnected, reconnectTokens, disconnectTimers, roomTurnTimer,
              roundContinueTimer, roundContinueReady, eliminationOrder, seriesState,
              nextSetTimers, tail, gamesStarted, gamesRecorded>>
allVars == <<vars, roomVars>>

\* No timer is pending either, since a message that was rejected cleared it.
Stopped == -1

GamePhases == {"PLAYING", "ROUND_RESULT", "GAME_OVER", "DELETED"}
Idle == tail = {} /\ gamePhase # "DELETED"

-----------------------------------------------------------------------------
(* Turn timers.                                                            *)

\* Mutant: a pending timer is left alone.
ScheduleUnlessPending ==
    roomTurnTimer' = IF roomTurnTimer \in Players THEN roomTurnTimer
                     ELSE IF gamePhase' = "PLAYING" /\ CurrentPlayerId' \in players'
                       THEN CurrentPlayerId' ELSE NoPlayer

\* scheduleBotTurn, after the engine has moved: the callers have cleared the
\* old timer, and a game that is not being played gets no new one.
ScheduleBotTurn ==
    roomTurnTimer' = IF gamePhase' = "PLAYING" /\ CurrentPlayerId' \in players'
                       THEN CurrentPlayerId' ELSE NoPlayer

ClearTurnTimer == roomTurnTimer' = NoPlayer

-----------------------------------------------------------------------------
(* Between rounds.                                                         *)

\* The engine lists those whom a reveal has put out by their seats.
InSeatOrder(S) == [i \in 1 .. Cardinality(S) |-> PlayerAt(S, i - 1)]

\* Mutant: whoever is recorded already is recorded again.
RecordAgain(order, gone) == order \o InSeatOrder(gone)

RecordEliminations(order, gone) == order \o InSeatOrder(gone \ Range(order))

CancelRoundContinueWindow == roundContinueTimer' = FALSE /\ roundContinueReady' = {}

\* isRoundContinueComplete, for the players in and the ready as they will be.
RoundContinueComplete(in, ready) ==
    /\ in # {}
    /\ \A p \in in \ bots : p \in isConnected' => p \in ready

FinalizeGameOver ==
    /\ gamePhase' = "GAME_OVER"
    /\ gamesRecorded' = gamesRecorded + 1

WinnerId(S) == PlayerAt(S, 0)

HandleSetOver ==
    LET winner == WinnerId(ActivePlayers')
        wins == [seriesState.wins EXCEPT ![winner] = @ + 1]
        decided == wins[winner] >= (seriesState.bestOf + 1) \div 2
    IN  /\ ClearTurnTimer
        /\ UNCHANGED <<gamesStarted>>
        /\ \/ /\ seriesState.bestOf = 1
              /\ FinalizeGameOver
              /\ UNCHANGED <<seriesState, nextSetTimers>>
           \/ /\ seriesState.bestOf > 1 /\ decided
              /\ seriesState' = [seriesState EXCEPT !.wins = wins]
              /\ FinalizeGameOver
              /\ UNCHANGED nextSetTimers
           \/ /\ seriesState.bestOf > 1 /\ ~decided
              /\ seriesState' = [seriesState EXCEPT !.wins = wins, !.currentSet = @ + 1]
              /\ nextSetTimers' = nextSetTimers + 1
              /\ UNCHANGED <<gamePhase, gamesRecorded>>

BeginRoundResultPhase(order) ==
    /\ gamePhase' = "ROUND_RESULT"
    /\ ClearTurnTimer
    /\ roundContinueTimer' = TRUE
    /\ roundContinueReady' = ActivePlayers' \intersect bots
    /\ eliminationOrder' = RecordEliminations(order, lastRoundResult'.eliminated)
    /\ UNCHANGED matchVars

\* The rounds go on at once only when every player left is a bot.
OnlyBotsLeft == ActivePlayers' \subseteq bots

\* handleResult and handleBotResult, for what the engine has just returned.
HandleResult ==
    \/ /\ turnResult' \in {"continue", "last_chance"}
       /\ UNCHANGED <<gamePhase, windowVars, eliminationOrder, matchVars, tail>>
       /\ ScheduleBotTurn
    \/ /\ turnResult' = "resolve"
       /\ BeginRoundResultPhase(eliminationOrder)
       /\ tail' = IF OnlyBotsLeft THEN {"startNextRound"} ELSE {}
    \/ /\ turnResult' = "game_over"
       /\ eliminationOrder' = RecordEliminations(eliminationOrder, lastRoundResult'.eliminated)
       /\ CancelRoundContinueWindow
       /\ HandleSetOver
       /\ UNCHANGED tail

\* Mutant: the room still shows the result.
BeginUnseen == UNCHANGED gamePhase /\ ScheduleBotTurn

\* The room goes on to the turns of a round that the engine has just started.
BeginPlaying == gamePhase' = "PLAYING" /\ ScheduleBotTurn

\* roundTransition's startNextRound, at the end of a handler.
StartRound ==
    /\ "startNextRound" \in tail
    /\ tail' = tail \ {"startNextRound"}
    /\ UNCHANGED <<peopleVars, eliminationOrder>>
    /\ IF gamePhase = "ROUND_RESULT"
         THEN /\ StartNextRound
              /\ CancelRoundContinueWindow
              /\ \/ /\ turnResult' = "new_round"
                    /\ BeginPlaying
                    /\ UNCHANGED matchVars
                 \/ /\ turnResult' = "game_over"
                    /\ HandleSetOver
         ELSE UNCHANGED <<vars, gamePhase, roomTurnTimer, windowVars, matchVars>>

-----------------------------------------------------------------------------
(* A player's message, and the turn timer.                                 *)

\* game:call, game:bull, game:true, game:lastChanceRaise, game:lastChancePass
PlayerActs(p) ==
    /\ Idle
    /\ p \in isConnected \ bots
    /\ UNCHANGED peopleVars
    /\ TurnAction(p)
    /\ HandleResult

\* The same messages, when the engine returns an error: the turn timer has been
\* cleared by then, and an error schedules no other.
PlayerMisclicks(p) ==
    /\ Idle
    /\ p \in (isConnected \intersect Misclickers) \ bots
    /\ roomTurnTimer' = Stopped
    /\ UNCHANGED <<vars, gamePhase, peopleVars, windowVars, eliminationOrder, matchVars, tail>>

\* Mutant: the last chance is not thought of.
AutoBullOrCall(p) == IF currentHand # NoHand THEN HandleBull(p) ELSE HandleCall(p, 1)

\* What executeAutoAction does for the player whose turn it is.
AutoAction(p) ==
    CASE roundPhase = "LAST_CHANCE" -> HandleLastChancePass(p)
      [] roundPhase # "LAST_CHANCE" /\ currentHand # NoHand -> HandleBull(p)
      [] OTHER -> HandleCall(p, 1)

AutoActionFails(p) ==
    \/ roundPhase = "RESOLVING"
    \/ roundPhase = "LAST_CHANCE" /\ p # lastCallerId

\* executeAutoAction and executeBotTurn.  A bot plays any move the engine takes:
\* when its choice is rejected, handleBotResult falls back on one that is not.
TurnTimerFires ==
    LET p == roomTurnTimer
        mayAct == gamePhase = "PLAYING" /\ CurrentPlayerId = p
        nothing == /\ ClearTurnTimer
                   /\ UNCHANGED <<vars, gamePhase, windowVars, eliminationOrder, matchVars, tail>>
    IN  /\ Idle
        /\ p \in Players
        /\ UNCHANGED peopleVars
        /\ \/ /\ mayAct /\ ~AutoActionFails(p)
              /\ IF p \in bots THEN TurnAction(p) ELSE AutoAction(p)
              /\ HandleResult
           \/ /\ \/ gamePhase # "PLAYING"
                 \/ mayAct /\ AutoActionFails(p)
                 \/ p \in bots /\ CurrentPlayerId # p
              /\ nothing
           \/ /\ gamePhase = "PLAYING" /\ p \notin bots /\ CurrentPlayerId # p
              /\ ScheduleBotTurn
              /\ UNCHANGED <<vars, gamePhase, windowVars, eliminationOrder, matchVars, tail>>

-----------------------------------------------------------------------------
(* The window in which the players look at the cards.                      *)

\* game:continue
PlayerContinues(p) ==
    /\ Idle
    /\ p \in isConnected \ bots
    /\ gamePhase = "ROUND_RESULT"
    /\ p \in ActivePlayers \ roundContinueReady
    /\ roundContinueReady' = roundContinueReady \union {p}
    /\ UNCHANGED <<vars, gamePhase, peopleVars, roomTurnTimer, roundContinueTimer,
                   eliminationOrder, matchVars>>
    /\ tail' = IF RoundContinueComplete(ActivePlayers, roundContinueReady')
                 THEN {"startNextRound"} ELSE {}

\* Mutant: the window closes and nothing follows.
WindowOnlyCloses ==
    /\ Idle
    /\ roundContinueTimer
    /\ roundContinueTimer' = FALSE
    /\ UNCHANGED <<vars, gamePhase, peopleVars, roomTurnTimer, roundContinueReady,
                   eliminationOrder, matchVars, tail>>

RoundContinueTimeout ==
    /\ Idle
    /\ roundContinueTimer
    /\ roundContinueTimer' = FALSE
    /\ tail' = {"startNextRound"}
    /\ UNCHANGED <<vars, gamePhase, peopleVars, roomTurnTimer, roundContinueReady,
                   eliminationOrder, matchVars>>

-----------------------------------------------------------------------------
(* Coming and going.                                                       *)

Disconnect(p) ==
    /\ Idle
    /\ p \in isConnected \ bots
    /\ isConnected' = isConnected \ {p}
    /\ disconnectTimers' = disconnectTimers \union {p}
    /\ UNCHANGED <<vars, gamePhase, bots, players, reconnectTokens, roomTurnTimer, windowVars,
                   eliminationOrder, matchVars, tail>>

\* Mutant: the timer of the absence goes on.
ReconnectUntimed(p) ==
    /\ Idle
    /\ p \in players \ isConnected
    /\ p \in reconnectTokens
    /\ isConnected' = isConnected \union {p}
    /\ UNCHANGED <<vars, gamePhase, bots, players, reconnectTokens, disconnectTimers,
                   roomTurnTimer, windowVars, eliminationOrder, matchVars, tail>>

\* room:join with the token of a player who is away
Reconnect(p) ==
    /\ Idle
    /\ p \in players \ isConnected
    /\ p \in reconnectTokens
    /\ isConnected' = isConnected \union {p}
    /\ disconnectTimers' = disconnectTimers \ {p}
    /\ UNCHANGED <<vars, gamePhase, bots, players, reconnectTokens, roomTurnTimer, windowVars,
                   eliminationOrder, matchVars, tail>>

\* What onDisconnectTimeout and room:leave share: p drops out of the game.  The
\* players a reveal puts out are recorded when its result is shown; a reveal
\* that ends the game here is not shown.  `then` is what the handler does last.
DropOut(p, then) ==
    LET order == RecordEliminations(eliminationOrder, {p})
        out == isEliminated[p]
        advance(go) == IF go THEN {"startNextRound"} ELSE {}
    IN  /\ IF out THEN UNCHANGED vars ELSE EliminatePlayer(p)
        /\ \/ /\ ~out /\ turnResult' = "game_over"
              /\ eliminationOrder' = order
              /\ tail' = then
              /\ IF gamePhase = "GAME_OVER"
                   THEN ClearTurnTimer /\ UNCHANGED <<gamePhase, windowVars, matchVars>>
                   ELSE CancelRoundContinueWindow /\ HandleSetOver
           \/ /\ ~out /\ turnResult' = "resolve"
              /\ BeginRoundResultPhase(order)
              /\ tail' = then \union advance(OnlyBotsLeft)
           \/ /\ out \/ turnResult' \in {"continue", "last_chance"}
              /\ eliminationOrder' = order
              /\ UNCHANGED <<gamePhase, windowVars, matchVars>>
              /\ ScheduleBotTurn
              /\ tail' = then \union
                         advance(/\ gamePhase = "ROUND_RESULT"
                                 /\ RoundContinueComplete(ActivePlayers', roundContinueReady))

DisconnectTimeout(p) ==
    /\ Idle
    /\ p \in disconnectTimers
    /\ disconnectTimers' = disconnectTimers \ {p}
    /\ UNCHANGED <<bots, players, isConnected, reconnectTokens>>
    /\ DropOut(p, {})

\* room:leave.  During a game the player is detached and stays listed.
RoomLeave(p) ==
    /\ Idle
    /\ p \in isConnected \ bots
    /\ isConnected' = isConnected \ {p}
    /\ reconnectTokens' = reconnectTokens \ {p}
    /\ disconnectTimers' = disconnectTimers \ {p}
    /\ UNCHANGED bots
    /\ \/ /\ gamePhase = "GAME_OVER"
          /\ players' = players \ {p}
          /\ tail' = {"closeIfEmpty"}
          /\ ClearTurnTimer
          /\ UNCHANGED <<vars, gamePhase, windowVars, eliminationOrder, matchVars>>
       \/ /\ gamePhase \in {"PLAYING", "ROUND_RESULT"}
          /\ UNCHANGED players
          /\ DropOut(p, {"closeIfEmpty"})

\* isEmpty: only bots, and people who are away for good
IsEmpty == \A p \in players \ bots : p \notin isConnected \union disconnectTimers

DeleteRoom ==
    /\ gamePhase' = "DELETED"
    /\ disconnectTimers' = {}
    /\ ClearTurnTimer
    /\ CancelRoundContinueWindow
    /\ UNCHANGED <<vars, bots, players, isConnected, reconnectTokens, eliminationOrder, matchVars>>

\* The end of room:leave
CloseIfEmpty ==
    /\ tail = {"closeIfEmpty"}
    /\ tail' = {}
    /\ IF IsEmpty THEN DeleteRoom
       ELSE UNCHANGED <<vars, gamePhase, peopleVars, roomTurnTimer, windowVars,
                        eliminationOrder, matchVars>>

\* room:delete, by the host; which of the connected people that is, is left open
RoomDelete ==
    /\ Idle
    /\ isConnected \ bots # {}
    /\ DeleteRoom
    /\ UNCHANGED tail

\* cleanupStaleRooms
CleanupStaleRoom ==
    /\ Idle
    /\ IsEmpty
    /\ DeleteRoom
    /\ UNCHANGED tail

-----------------------------------------------------------------------------
(* The next set of a series.                                               *)

\* A new GameEngine for the seats of S, and its startRound.  The seats are
\* shuffled; with the two of a series that decides who opens.
NewGame(S) ==
    /\ isEliminated' = [p \in Players |-> p \notin S]
    /\ cardCount' = [p \in Players |-> STARTING_CARDS]
    /\ roundPhase' = "CALLING"
    /\ IF S = {} THEN startingPlayerId' = startingPlayerId ELSE startingPlayerId' \in S
    /\ startingPlayerIndex' = IndexIn(S, startingPlayerId')
    /\ currentPlayerIndex' = IndexIn(S, startingPlayerId')
    /\ currentHand' = NoHand
    /\ lastCallerId' = NoPlayer
    /\ turnHistory' = << >>
    /\ respondedPlayers' = {}
    /\ lastChanceUsed' = FALSE
    /\ lastCallIndex' = 0
    /\ lastCallIndexLength' = -1
    /\ lastRoundResult' = NoResult
    /\ turnResult' = "new_round"
    /\ UNCHANGED settings

\* Mutant: the timers of the players who are dropped are forgotten.
KeepWithTimers(stay) ==
    /\ players' = stay
    /\ reconnectTokens' = reconnectTokens \intersect stay
    /\ UNCHANGED disconnectTimers

KeepInRoom(stay) ==
    /\ players' = stay
    /\ reconnectTokens' = reconnectTokens \intersect stay
    /\ disconnectTimers' = disconnectTimers \intersect stay

\* resetForRematch and scheduleBotTurn, when the transition delay is over.
\* Players who are away are dropped from the room.
StartNextSet ==
    LET stay == players \intersect isConnected
    IN  /\ Idle
        /\ nextSetTimers > 0
        /\ nextSetTimers' = nextSetTimers - 1
        /\ UNCHANGED <<bots, isConnected, seriesState, gamesRecorded, tail>>
        /\ \/ /\ gamePhase = "GAME_OVER"
              /\ UNCHANGED <<vars, gamePhase, players, reconnectTokens, disconnectTimers,
                             roomTurnTimer, windowVars, eliminationOrder, gamesStarted>>
           \/ /\ gamePhase # "GAME_OVER"
              /\ NewGame(stay)
              /\ KeepInRoom(stay)
              /\ BeginPlaying
              /\ CancelRoundContinueWindow
              /\ eliminationOrder' = << >>
              /\ gamesStarted' = gamesStarted + 1

-----------------------------------------------------------------------------
\* A match has just been started for two players or more, the first of them to
\* open; bots are "connected" as the code has them.
RoomInit ==
    /\ settings \in [maxCards : MaxCardsChoices, lastChanceMode : LastChanceModes]
    /\ bots \in BotChoices
    /\ players \in {S \in SUBSET Players : Cardinality(S) >= 2 /\ S \ bots # {}}
    /\ isEliminated = [p \in Players |-> p \notin players]
    /\ cardCount = [p \in Players |-> STARTING_CARDS]
    /\ roundPhase = "CALLING"
    /\ currentPlayerIndex = 0
    /\ startingPlayerId = PlayerAt(players, 0)
    /\ startingPlayerIndex = 0
    /\ currentHand = NoHand
    /\ lastCallerId = NoPlayer
    /\ turnHistory = << >>
    /\ respondedPlayers = {}
    /\ lastChanceUsed = FALSE
    /\ lastCallIndex = 0
    /\ lastCallIndexLength = -1
    /\ lastRoundResult = NoResult
    /\ turnResult = "new_round"
    /\ gamePhase = "PLAYING"
    /\ isConnected = players
    /\ reconnectTokens = players \ bots
    /\ disconnectTimers = {}
    /\ roomTurnTimer = CurrentPlayerId
    /\ roundContinueTimer = FALSE
    /\ roundContinueReady = {}
    /\ eliminationOrder = << >>
    /\ seriesState \in {[bestOf |-> b, currentSet |-> 1,
                         wins |-> [p \in Players \union {NoPlayer} |-> 0]] :
                        b \in IF Cardinality(players) = 2 THEN BestOfChoices ELSE {1}}
    /\ nextSetTimers = 0
    /\ tail = {}
    /\ gamesStarted = 1
    /\ gamesRecorded = 0

RoomNext ==
    \/ \E p \in Players :
        \/ PlayerActs(p)
        \/ PlayerMisclicks(p)
        \/ PlayerContinues(p)
        \/ Disconnect(p)
        \/ Reconnect(p)
        \/ DisconnectTimeout(p)
        \/ RoomLeave(p)
    \/ TurnTimerFires
    \/ RoundContinueTimeout
    \/ StartRound
    \/ CloseIfEmpty
    \/ RoomDelete
    \/ CleanupStaleRoom
    \/ StartNextSet

RoomSpec == RoomInit /\ [][RoomNext]_allVars

\* Timers fire, and a handler finishes what it has begun.  Nobody has to act.
TimersFire ==
    /\ WF_allVars(TurnTimerFires)
    /\ WF_allVars(RoundContinueTimeout)
    /\ WF_allVars(StartNextSet)
    /\ WF_allVars(StartRound)
    /\ WF_allVars(CloseIfEmpty)
    /\ WF_allVars(CleanupStaleRoom)

FairRoomSpec == RoomSpec /\ TimersFire

-----------------------------------------------------------------------------
(* Properties.                                                             *)

RoomTypeOK ==
    /\ gamePhase \in GamePhases
    /\ players \subseteq Players /\ bots \subseteq Players
    /\ isConnected \subseteq players
    /\ reconnectTokens \subseteq players \ bots
    /\ disconnectTimers \subseteq players \ bots
    /\ roomTurnTimer \in players \union {NoPlayer, Stopped}
    /\ roundContinueTimer \in BOOLEAN
    /\ roundContinueReady \subseteq Players
    /\ eliminationOrder \in Seq(Players)
    /\ seriesState \in [bestOf : BestOfChoices \union {1}, currentSet : Nat \ {0},
                        wins : [Players \union {NoPlayer} -> Nat]]
    /\ nextSetTimers \in Nat /\ gamesStarted \in Nat /\ gamesRecorded \in Nat
    /\ tail \subseteq {"startNextRound", "closeIfEmpty"}

\* The engine is asked for the next round, whoever asks and however late, only
\* when it has revealed the last: the window is never open over a live round.
ResultIsRevealed == gamePhase = "ROUND_RESULT" => roundPhase = "RESOLVING"

\* A result screen always has an end in sight, whoever leaves or loses their
\* connection while it is shown.
ResultScreenEnds ==
    gamePhase = "ROUND_RESULT" => roundContinueTimer \/ nextSetTimers > 0 \/ tail # {}

TurnAwaited == gamePhase = "PLAYING" /\ tail = {} /\ ~GameOver /\ CurrentPlayerId # NoPlayer

\* The timer that is running is that of the player whose turn it is, and there
\* is one unless a rejected message stopped it.  (Nobody is on turn when the
\* last chance has no caller.)
TurnTimerRuns == TurnAwaited => roomTurnTimer \in {CurrentPlayerId, Stopped}

\* The turn timer keeps ticking whatever the others do.
TurnTimerKeepsTicking == TurnAwaited => roomTurnTimer = CurrentPlayerId

\* Whoever is back will not be put out by the timer of an earlier absence, and
\* whoever is away and may come back has one: the room does not wait for ever.
AbsenceIsTimed ==
    /\ disconnectTimers \intersect isConnected = {}
    /\ gamePhase # "DELETED" =>
           reconnectTokens \ isConnected \subseteq disconnectTimers \union {p \in Players : isEliminated[p]}

\* A player is put out of a running game by a reveal, by leaving, or by an
\* absence that lasted until its timer fired.
PutOutForCause ==
    [][ \A p \in Players : gamesStarted' = gamesStarted /\ isEliminated'[p] /\ ~isEliminated[p] =>
            \/ roundPhase # "RESOLVING" /\ p \in lastRoundResult'.eliminated
            \/ p \in isConnected /\ p \notin reconnectTokens'
            \/ p \in disconnectTimers \ isConnected ]_allVars

\* The order of finish holds nobody twice and nobody who is still playing.
OnlyTheOutAreRanked ==
    /\ IsInjective(eliminationOrder)
    /\ \A i \in DOMAIN eliminationOrder : isEliminated[eliminationOrder[i]]

\* A set is won once: the players have no more wins than sets were started.
SetWonOnce ==
    SumFunctionOnSet(seriesState.wins, Players) <= gamesStarted

\* The last chance has lost its caller, and nobody can take the turn.
NobodyOnTurn == roundPhase = "LAST_CHANCE" /\ CurrentPlayerId = NoPlayer

\* However passive the players, the timers bring every round to its result.
RoundsComeToResults ==
    gamePhase = "PLAYING" ~> gamePhase # "PLAYING" \/ NobodyOnTurn \/ roomTurnTimer = Stopped

\* And every result screen gives way to a round, a set or the end of the match.
ResultsGiveWay == gamePhase = "ROUND_RESULT" ~> gamePhase # "ROUND_RESULT"
============================================================================
