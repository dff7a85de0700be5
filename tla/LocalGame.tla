----------------------------- MODULE LocalGame -----------------------------
(***************************************************************************)
(* The offline game against bots, in the browser                           *)
(* (client/src/context/LocalGameContext.tsx and the pages around it): the  *)
(* engine, driven by one provider's timers and its pages' buttons, with a  *)
(* save in localStorage that outlives them.                                *)
(*                                                                         *)
(* A callback runs to completion and is one action.  The pages may be      *)
(* closed or reloaded at any moment: what the provider kept in its refs is *)
(* lost, and the engine's variables mean nothing until a game is dealt or  *)
(* loaded.  While one walks between lobby, game and results, by buttons or *)
(* the browser's Back and Forward, it stays mounted and its refs survive.  *)
(* That a results page lies behind the game (one of an earlier game) is    *)
(* not modelled: Back may find it at any time but in the first countdown,  *)
(* when there is no game it could show.                                    *)
(* The visitor picks table and settings in the lobby, which is no more     *)
(* than the choice StartGame makes.                                        *)
(***************************************************************************)
EXTENDS GameEngine

CONSTANTS
    TurnTimers,     \* values of "is there a turn timer"
    BestOfChoices   \* lengths of a match; only games of two are matches of several sets

ASSUME TableAssumption == NumPlayers > 1
ASSUME TurnTimersAssumption == TurnTimers \subseteq BOOLEAN
ASSUME BestOfAssumption == BestOfChoices \subseteq {1, 3, 5}

VARIABLES
    page,            \* see Pages
    seated,          \* the players dealt in have the seats 1 .. seated
    human,           \* HUMAN_ID's seat, shuffled for each game; all others are bots
    gameSettings,
    seriesState,     \* bestOf 1 stands for null
    roundResult,     \* a reveal is on the screen
    pendingNextSet,
    pendingWinner,
    countdown,       \* "none", or what is to start: "game" or "set"
    isPaused,
    botTimer,        \* the bot whose timeout is pending
    turnTimer,       \* the human's is
    localSave,       \* what localStorage holds: no save or one
    revealLost,      \* history: a pause ended over a reveal, or over the countdown to a set
    stale            \* history: the game began with something of an earlier one pending

refVars == <<pendingNextSet, pendingWinner, countdown, isPaused>>
matchVars == <<seated, human, gameSettings, seriesState>>
localVars == <<vars, page, seated, human, gameSettings, seriesState, roundResult, pendingNextSet,
               pendingWinner, countdown, isPaused, botTimer, turnTimer, localSave, revealLost,
               stale>>

\* "away": no provider is mounted, or one that has just been, with no game; "lobby": the one
\* that was left for a new game; "results": a winner is declared; "peek": the results page
\* while none is, by the browser's Back or by its address.
Pages == {"away", "lobby", "game", "results", "peek"}

Sides == {"human", "bot"}

-----------------------------------------------------------------------------
(* The save.                                                               *)

\* GameEngineSnapshot.  Settings and seats are the same throughout a match.
Snapshot == [isEliminated |-> isEliminated, cardCount |-> cardCount, roundPhase |-> roundPhase,
             currentPlayerIndex |-> currentPlayerIndex, currentHand |-> currentHand,
             lastCallerId |-> lastCallerId, turnHistory |-> turnHistory,
             startingPlayerId |-> startingPlayerId, startingPlayerIndex |-> startingPlayerIndex,
             respondedPlayers |-> respondedPlayers, lastChanceUsed |-> lastChanceUsed]

\* persistGame, after the engine has moved.
PersistGame(rr) ==
    localSave' = {[engine |-> Snapshot', human |-> human', seriesState |-> seriesState',
                   roundResult |-> rr]}

\* SnapshotIsValid, of a snapshot.
ValidSnapshot(e) ==
    LET in == StillIn(e.isEliminated)
    IN  in # {} => {e.currentPlayerIndex, e.startingPlayerIndex} \subseteq 0 .. Cardinality(in) - 1

LoadEngine(e) ==
    /\ isEliminated' = e.isEliminated
    /\ cardCount' = e.cardCount
    /\ roundPhase' = e.roundPhase
    /\ currentPlayerIndex' = e.currentPlayerIndex
    /\ currentHand' = e.currentHand
    /\ lastCallerId' = e.lastCallerId
    /\ turnHistory' = e.turnHistory
    /\ startingPlayerId' = e.startingPlayerId
    /\ startingPlayerIndex' = e.startingPlayerIndex
    /\ respondedPlayers' = e.respondedPlayers
    /\ lastChanceUsed' = e.lastChanceUsed
    /\ lastCallIndex' = 0 /\ lastCallIndexLength' = -1
    /\ lastRoundResult' = NoResult
    /\ turnResult' = "restored"
    /\ UNCHANGED settings

-----------------------------------------------------------------------------
(* What callbacks share.                                                   *)

HumanIsTimed == ~isPaused /\ gameSettings.turnTimer /\ CurrentPlayerId = human

\* Mutant: a resumed or restored game waits for the human alone.
ScheduleHumanOnly(bot, own) ==
    /\ botTimer' = bot
    /\ turnTimer' = (HumanIsTimed' \/ own)

\* scheduleBotTurn and scheduleHumanTimer; `bot` and `own` are what remains of the timeouts
\* of a bot and of the human.
ScheduleTurns(bot, own) ==
    /\ botTimer' = IF ~isPaused' /\ CurrentPlayerId' \notin {human', NoPlayer}
                     THEN CurrentPlayerId' ELSE bot
    /\ turnTimer' = (HumanIsTimed' \/ own)

BroadcastState == roundResult' = FALSE /\ PersistGame(FALSE)

\* The shuffle gives the human a seat, and a new GameEngine starts its first round.
NewEngine ==
    /\ human' \in 1 .. seated'
    /\ isEliminated' = [p \in Players |-> p > seated']
    /\ cardCount' = [p \in Players |-> STARTING_CARDS]
    /\ roundPhase' = "CALLING"
    /\ currentPlayerIndex' = 0
    /\ startingPlayerId' = 1 /\ startingPlayerIndex' = 0
    /\ currentHand' = NoHand
    /\ lastCallerId' = NoPlayer
    /\ turnHistory' = << >>
    /\ respondedPlayers' = {}
    /\ lastChanceUsed' = FALSE
    /\ lastCallIndex' = 0 /\ lastCallIndexLength' = -1
    /\ lastRoundResult' = NoResult
    /\ turnResult' = "new_round"
    /\ revealLost' = FALSE

NewSeries(bestOf, n) ==
    [bestOf |-> IF n = 2 THEN bestOf ELSE 1, currentSet |-> 1,
     wins |-> [s \in Sides |-> 0], decided |-> FALSE]

WinsNeeded(series) == (series.bestOf + 1) \div 2

Decided(series, side) == series.wins[side] >= WinsNeeded(series)

\* Mutant: the set that was won is persisted, like any other reveal.
SetEndsAndIsSaved(series) ==
    /\ seriesState' = [series EXCEPT !.currentSet = @ + 1]
    /\ pendingNextSet' = TRUE
    /\ UNCHANGED pendingWinner
    /\ PersistGame(TRUE)

\* A set that leaves the match open: the save remains as it was before the last move.
SetEnds(series) ==
    /\ seriesState' = [series EXCEPT !.currentSet = @ + 1]
    /\ pendingNextSet' = TRUE
    /\ UNCHANGED <<pendingWinner, localSave>>

MatchEnds(series) ==
    /\ seriesState' = series
    /\ pendingWinner' = TRUE
    /\ localSave' = {}
    /\ UNCHANGED pendingNextSet

\* The end of a game, which without departures is always that of a reveal.
GameEnds ==
    LET side == IF PlayerAt(ActivePlayers', 0) = human THEN "human" ELSE "bot"
        series == [seriesState EXCEPT !.wins[side] = @ + 1]
        open == seriesState.bestOf > 1 /\ ~seriesState.decided
    IN  /\ roundResult' = TRUE
        /\ \/ open /\ ~Decided(series, side) /\ SetEnds(series)
           \/ open /\ Decided(series, side) /\ MatchEnds([series EXCEPT !.decided = TRUE])
           \/ ~open /\ MatchEnds(seriesState)

\* Mutant: a reveal is shown but not persisted.
ShowRevealOnly == roundResult' = TRUE /\ UNCHANGED localSave

ShowReveal == roundResult' = TRUE /\ PersistGame(TRUE)

\* handleTurnResult, for what the engine has just returned.
HandleTurnResult(bot) ==
    /\ UNCHANGED <<page, seated, human, gameSettings, countdown, isPaused, revealLost, stale>>
    /\ \/ /\ turnResult' \in {"continue", "last_chance"}
          /\ UNCHANGED <<seriesState, pendingNextSet, pendingWinner>>
          /\ ScheduleTurns(bot, FALSE)
          /\ BroadcastState
       \/ /\ turnResult' = "resolve"
          /\ botTimer' = bot /\ turnTimer' = FALSE
          /\ UNCHANGED <<seriesState, pendingNextSet, pendingWinner>>
          /\ ShowReveal
       \/ /\ turnResult' = "game_over"
          /\ botTimer' = bot /\ turnTimer' = FALSE
          /\ GameEnds

-----------------------------------------------------------------------------
(* Turns.                                                                  *)

\* The first countdown hides the table: there is no gameState yet.
AtTable == page = "game" /\ countdown # "game"

\* The page offers the moves the engine accepts; its keys work during a pause too.
HumanActs ==
    /\ AtTable
    /\ TurnAction(human)
    /\ HandleTurnResult(botTimer)

\* executeBotTurn: whatever the bot decides, the engine accepts it or the fallback.
BotActs ==
    /\ botTimer # NoPlayer
    /\ TurnAction(botTimer)
    /\ HandleTurnResult(NoPlayer)

AutoAction(p) ==
    IF roundPhase = "LAST_CHANCE" THEN HandleLastChancePass(p)
    ELSE IF currentHand # NoHand THEN HandleBull(p)
    ELSE HandleCall(p, 1)

TurnTimerFires ==
    /\ turnTimer
    /\ AutoAction(human)
    /\ HandleTurnResult(botTimer)

\* A timeout that finds somebody else on turn, or the reveal, changes nothing.  (A bot's
\* timeout that is set over another's is one with it here: both do the same.)
TimeoutInVain ==
    /\ UNCHANGED <<vars, page, matchVars, roundResult, refVars, localSave, revealLost, stale>>
    /\ \/ /\ botTimer # NoPlayer
          /\ roundPhase = "RESOLVING" \/ CurrentPlayerId # botTimer
          /\ botTimer' = NoPlayer
          /\ UNCHANGED turnTimer
       \/ /\ turnTimer
          /\ roundPhase = "RESOLVING" \/ CurrentPlayerId # human
          /\ turnTimer' = FALSE
          /\ UNCHANGED botTimer

-----------------------------------------------------------------------------
(* Between rounds, sets and games.                                         *)

\* A game begins behind a countdown; coming to the lobby has cleared any save, but not what
\* a game that was left had pending.  (A length that more than two would choose is nothing
\* to them: they have it at 1.)
StartGame ==
    /\ page \in {"away", "lobby"}
    /\ page' = "game"
    /\ seated' \in 2 .. NumPlayers
    /\ settings' \in [maxCards : MaxCardsChoices, lastChanceMode : LastChanceModes]
    /\ gameSettings' \in [turnTimer : TurnTimers, bestOf : BestOfChoices]
    /\ seated' > 2 => gameSettings'.bestOf = 1
    /\ NewEngine
    /\ seriesState' = NewSeries(gameSettings'.bestOf, seated')
    /\ countdown' = "game"
    /\ localSave' = {}
    /\ stale' = (pendingNextSet \/ pendingWinner)
    /\ UNCHANGED <<roundResult, pendingNextSet, pendingWinner, isPaused, botTimer, turnTimer>>

GameCountdownEnds ==
    /\ page = "game" /\ countdown = "game"
    /\ countdown' = "none"
    /\ UNCHANGED <<vars, page, matchVars, pendingNextSet, pendingWinner, isPaused, revealLost,
                   stale>>
    /\ ScheduleTurns(botTimer, turnTimer)
    /\ BroadcastState

\* startNextSetImmediate, on whatever page.  A bot's timeout left from the old set is as
\* good as the new one.
NextSetStarts ==
    /\ countdown = "set"
    /\ countdown' = "none"
    /\ UNCHANGED <<settings, page, seated, gameSettings, seriesState, pendingNextSet,
                   pendingWinner, isPaused, stale>>
    /\ NewEngine
    /\ ScheduleTurns(botTimer, turnTimer)
    /\ BroadcastState

\* Mutant: the next set stays pending.
AnnounceAgainAndAgain ==
    /\ pendingNextSet
    /\ countdown' = "set" /\ roundResult' = FALSE
    /\ UNCHANGED <<vars, page, pendingNextSet, pendingWinner, botTimer, turnTimer, localSave>>

AnnounceNextSet ==
    /\ pendingNextSet
    /\ pendingNextSet' = FALSE
    /\ countdown' = "set" /\ roundResult' = FALSE
    /\ UNCHANGED <<vars, page, pendingWinner, botTimer, turnTimer, localSave>>

DeclareWinner ==
    /\ ~pendingNextSet /\ pendingWinner
    /\ pendingWinner' = FALSE
    /\ page' = "results" /\ roundResult' = FALSE
    /\ UNCHANGED <<vars, pendingNextSet, countdown, botTimer, turnTimer, localSave>>

\* A game that is over has left a set or a winner pending.
PlayOn ==
    /\ ~pendingNextSet /\ ~pendingWinner /\ ~GameOver
    /\ StartNextRound
    /\ UNCHANGED <<page, pendingNextSet, pendingWinner, countdown>>
    /\ ScheduleTurns(botTimer, FALSE)
    /\ BroadcastState

\* clearRoundResult, by the button of the reveal or by Escape.
ClearRoundResult ==
    /\ page = "game" /\ roundResult
    /\ UNCHANGED <<matchVars, isPaused, revealLost, stale>>
    /\ AnnounceNextSet \/ DeclareWinner \/ PlayOn

\* requestRematch: neither what is pending nor a countdown is given up.
Rematch ==
    /\ page \in {"results", "peek"}
    /\ page' = "game"
    /\ stale' = (pendingNextSet \/ pendingWinner \/ countdown = "set")
    /\ UNCHANGED <<settings, seated, gameSettings, pendingNextSet, pendingWinner, countdown>>
    /\ NewEngine
    /\ seriesState' = NewSeries(gameSettings.bestOf, seated)
    /\ isPaused' = FALSE
    /\ ScheduleTurns(NoPlayer, FALSE)
    /\ BroadcastState

-----------------------------------------------------------------------------
(* Pausing, leaving, and coming back.                                      *)

\* The button lies above the landscape reveal, and keeps the focus under a countdown.
Pause ==
    /\ AtTable /\ ~isPaused
    /\ isPaused' = TRUE
    /\ botTimer' = NoPlayer /\ turnTimer' = FALSE
    /\ UNCHANGED <<vars, page, matchVars, roundResult, pendingNextSet, pendingWinner, countdown,
                   localSave, revealLost, stale>>

\* broadcastState takes a reveal off the screen, and the save forgets it.
Resume ==
    /\ AtTable /\ isPaused
    /\ isPaused' = FALSE
    /\ revealLost' = (revealLost \/ roundResult \/ countdown = "set")
    /\ UNCHANGED <<vars, page, matchVars, pendingNextSet, pendingWinner, countdown, stale>>
    /\ ScheduleTurns(NoPlayer, FALSE)
    /\ BroadcastState

\* The browser's Back finds the results page of an earlier game, which shows this one as if
\* it were over; timers go on.
BackToResults ==
    /\ AtTable
    /\ page' = "peek"
    /\ UNCHANGED <<vars, matchVars, roundResult, refVars, botTimer, turnTimer, localSave,
                   revealLost, stale>>

BackToGame ==
    /\ page = "peek"
    /\ page' = "game"
    /\ UNCHANGED <<vars, matchVars, roundResult, refVars, botTimer, turnTimer, localSave,
                   revealLost, stale>>

\* What leaveRoom clears while the provider stays, and what goes with it.
StopPlaying ==
    /\ roundResult' = FALSE
    /\ countdown' = "none"
    /\ isPaused' = FALSE
    /\ botTimer' = NoPlayer /\ turnTimer' = FALSE
    /\ UNCHANGED <<vars, matchVars, revealLost>>

\* leaveRoom, on the way to the lobby of the same provider: by New Game, or by the lobby
\* itself when Back or Forward leads there and it finds a game.
LeaveToLobby ==
    /\ page \in {"game", "peek", "results"} /\ countdown # "game"
    /\ page' = "lobby"
    /\ StopPlaying
    /\ localSave' = {}
    /\ UNCHANGED <<pendingNextSet, pendingWinner, stale>>

\* The provider is unmounted.
ForgetRefs ==
    /\ page' = "away"
    /\ StopPlaying
    /\ pendingNextSet' = FALSE /\ pendingWinner' = FALSE
    /\ stale' = FALSE

\* leaveRoom, on the way home; a lobby that was entered from there calls it for a save that
\* the provider has loaded.
LeaveRoom ==
    /\ ForgetRefs
    /\ localSave' = {}

\* The tab is closed, reloaded or left.
Close ==
    /\ page # "away"
    /\ ForgetRefs
    /\ UNCHANGED localSave

\* tryRestoreGame, at the address of the game or of the results, and, unless a reveal is to
\* be shown, the effect that sets the game going.
OpenGame ==
    \E save \in localSave :
        /\ page = "away" /\ ValidSnapshot(save.engine)
        /\ page' \in {"game", "peek"}
        /\ LoadEngine(save.engine)
        /\ human' = save.human /\ seriesState' = save.seriesState
        /\ UNCHANGED <<seated, gameSettings, refVars, revealLost, stale>>
        /\ IF save.roundResult
             THEN roundResult' = TRUE /\ UNCHANGED <<botTimer, turnTimer, localSave>>
             ELSE ScheduleTurns(NoPlayer, FALSE) /\ BroadcastState

\* restore throws, and the save is given up.
SaveIsRefused ==
    \E save \in localSave :
        /\ page = "away" /\ ~ValidSnapshot(save.engine)
        /\ localSave' = {}
        /\ UNCHANGED <<vars, page, matchVars, roundResult, refVars, botTimer, turnTimer,
                       revealLost, stale>>

-----------------------------------------------------------------------------

LocalInit ==
    /\ Init
    /\ page = "away"
    /\ seated = NumPlayers
    /\ human = 1
    /\ gameSettings \in [turnTimer : TurnTimers, bestOf : BestOfChoices]
    /\ seriesState = NewSeries(1, seated)
    /\ roundResult = FALSE
    /\ pendingNextSet = FALSE /\ pendingWinner = FALSE
    /\ countdown = "none"
    /\ isPaused = FALSE
    /\ botTimer = NoPlayer /\ turnTimer = FALSE
    /\ localSave = {}
    /\ revealLost = FALSE /\ stale = FALSE

LocalNext ==
    \/ HumanActs \/ BotActs \/ TurnTimerFires \/ TimeoutInVain
    \/ StartGame \/ GameCountdownEnds \/ NextSetStarts \/ ClearRoundResult \/ Rematch
    \/ Pause \/ Resume \/ BackToResults \/ BackToGame
    \/ LeaveToLobby \/ LeaveRoom \/ Close \/ OpenGame \/ SaveIsRefused

LocalSpec == LocalInit /\ [][LocalNext]_localVars

-----------------------------------------------------------------------------
(* Properties.                                                             *)

SeriesType == [bestOf : Nat, currentSet : Nat, wins : [Sides -> Nat], decided : BOOLEAN]
SnapshotType ==
    [isEliminated : [Players -> BOOLEAN], cardCount : [Players -> Nat], roundPhase : RoundPhases,
     currentPlayerIndex : -1 .. NumPlayers - 1, currentHand : Hands \union {NoHand},
     lastCallerId : Players \union {NoPlayer}, turnHistory : Seq(TurnEntry),
     startingPlayerId : Players, startingPlayerIndex : -1 .. NumPlayers - 1,
     respondedPlayers : SUBSET Players, lastChanceUsed : BOOLEAN]

\* What every callback finds and leaves, and every save holds.
LocalTypeOK ==
    /\ TypeOK
    /\ page \in Pages
    /\ seated \in 2 .. NumPlayers
    /\ human \in Players
    /\ gameSettings \in [turnTimer : TurnTimers, bestOf : BestOfChoices]
    /\ seriesState \in SeriesType
    /\ {roundResult, pendingNextSet, pendingWinner, isPaused, turnTimer, revealLost, stale}
          \subseteq BOOLEAN
    /\ countdown \in {"none", "game", "set"}
    /\ botTimer \in Players \union {NoPlayer}
    /\ \A save \in localSave :
          save \in [engine : SnapshotType, human : Players, seriesState : SeriesType,
                    roundResult : BOOLEAN]

\* The game is on, though the results page may be what is seen of it.
Playing == page \in {"game", "peek"}

TurnAwaited == Playing /\ roundPhase # "RESOLVING"

\* While the game awaits a turn and is not paused, the timeout that will take it is that
\* of the bot on turn, or of the human if there is a turn timer: after a pause in which
\* the human moved, a reveal dismissed during a pause, a reload, a new set and a rematch.
TurnIsScheduled ==
    TurnAwaited /\ countdown = "none" /\ ~isPaused =>
        IF CurrentPlayerId = human THEN turnTimer = gameSettings.turnTimer
        ELSE botTimer = CurrentPlayerId

\* A reveal can be dismissed, or the next set is announced: a game between rounds is never
\* without a way on, nor is a save.  (But for a pause that ends over it.)
GameCanGoOn ==
    ~revealLost =>
        /\ Playing /\ roundPhase = "RESOLVING" => roundResult \/ countdown = "set"
        /\ \A save \in localSave :
              save.engine.roundPhase = "RESOLVING" =>
                  save.roundResult /\ Cardinality(StillIn(save.engine.isEliminated)) > 1

\* A reload loses nothing of a game that is not over: the save is what the page shows, and
\* restore will take it, unless a reveal has put somebody out.  (But for a set that is
\* announced over it, because leaveRoom left pendingNextSetRef as it was: stale.)
ReloadKeepsTheGame ==
    Playing /\ countdown # "game" /\ ~GameOver /\ ~(stale /\ countdown = "set") =>
        \E save \in localSave :
            /\ save.engine = Snapshot
            /\ save.human = human /\ save.seriesState = seriesState
            /\ save.roundResult = roundResult
            /\ ValidSnapshot(save.engine) \/ roundPhase = "RESOLVING"

SetIsDealt == countdown = "set" /\ countdown' = "none" /\ page' \notin {"away", "lobby"}

\* In a game that began with nothing pending, the next set is dealt only when the last one
\* is over, has been counted for one side, and has not decided the match.
SetsAreWon ==
    [][ SetIsDealt /\ ~stale =>
            /\ GameOver
            /\ seriesState.wins["human"] + seriesState.wins["bot"] = seriesState.currentSet - 1
            /\ \A side \in Sides : seriesState.wins[side] < WinsNeeded(seriesState)
      ]_localVars
============================================================================
