-------------------------- MODULE LocalGameProofs --------------------------
(***************************************************************************)
(* The offline game's invariants, for every table, any settings, and       *)
(* whatever its visitor does.                                              *)
(***************************************************************************)
EXTENDS LocalGame, GameEngineProofs

-----------------------------------------------------------------------------
(* The inductive invariant.                                                *)

\* A round that is played has a player on turn, a place for who opened it, and a caller who
\* is still in: offline nobody leaves in the middle of one.
Playable(e) ==
    LET in == StillIn(e.isEliminated)
    IN  e.roundPhase # "RESOLVING" =>
            /\ in # {}
            /\ {e.currentPlayerIndex, e.startingPlayerIndex} \subseteq 0 .. Cardinality(in) - 1
            /\ e.currentHand # NoHand => e.lastCallerId \in in
            /\ e.roundPhase = "LAST_CHANCE" => e.currentHand # NoHand

\* As many sets were won as were played, and an open match is not decided.
Counted(series) ==
    ~series.decided =>
        /\ series.wins["human"] + series.wins["bot"] = series.currentSet - 1
        /\ \A side \in Sides : series.wins[side] < WinsNeeded(series)

SaveType == [engine : SnapshotType, human : Players, seriesState : SeriesType, roundResult : BOOLEAN]

GoodSave(save) ==
    /\ save \in SaveType
    /\ Playable(save.engine)
    /\ Counted(save.seriesState)
    /\ save.roundResult => save.engine.roundPhase = "RESOLVING"

NoTimers == botTimer = NoPlayer /\ ~turnTimer

\* What the provider shows and awaits agrees with the engine and with what is pending.
Screen ==
    /\ page \in {"away", "lobby"} => NoTimers /\ ~roundResult /\ countdown = "none"
    /\ page = "away" => ~pendingNextSet
    /\ turnTimer => gameSettings.turnTimer
    /\ roundResult => roundPhase = "RESOLVING"
    /\ countdown = "game" => page = "game" /\ roundPhase # "RESOLVING" /\ NoTimers
    /\ ~stale /\ (countdown = "set" \/ pendingNextSet) =>
           roundPhase = "RESOLVING" /\ GameOver /\ ~seriesState.decided
    /\ ~stale => ~(countdown = "set" /\ pendingNextSet)

LocalInv ==
    /\ LocalTypeOK
    /\ page # "away" => Playable(Snapshot)
    /\ Counted(seriesState)
    /\ Screen
    /\ \A save \in localSave : GoodSave(save)
    /\ TurnIsScheduled /\ GameCanGoOn /\ ReloadKeepsTheGame

-----------------------------------------------------------------------------
(* The engine's turns.                                                     *)

\* Playable, of the engine's own variables.
RoundIsPlayable ==
    roundPhase # "RESOLVING" =>
        /\ ActivePlayers # {}
        /\ currentPlayerIndex \in 0 .. Cardinality(ActivePlayers) - 1
        /\ startingPlayerIndex \in 0 .. Cardinality(ActivePlayers) - 1
        /\ currentHand # NoHand => lastCallerId \in ActivePlayers
        /\ roundPhase = "LAST_CHANCE" => currentHand # NoHand

LEMMA PlayableNow == Playable(Snapshot) <=> RoundIsPlayable
BY DEF Playable, Snapshot, RoundIsPlayable, ActivePlayers

LEMMA PlayableThen == Playable(Snapshot)' <=> RoundIsPlayable'
BY DEF Playable, Snapshot, RoundIsPlayable, ActivePlayers

LEMMA InAreSeated == ActivePlayers \in SUBSET Players /\ ActivePlayers' \in SUBSET Players
BY DEF ActivePlayers, StillIn

\* A reveal ends the game when at most one player is left by it.
LEMMA RevealOutcome ==
    ASSUME NEW hist, ResolveRound(isEliminated, hist)
    PROVE  /\ roundPhase' = "RESOLVING"
           /\ turnResult' = IF GameOver' THEN "game_over" ELSE "resolve"
<1>1. PICK out \in SUBSET Players :
        /\ roundPhase' = "RESOLVING"
        /\ isEliminated' = [p \in Players |-> isEliminated[p] \/ p \in out]
        /\ turnResult' = IF Cardinality(ActivePlayers \ out) <= 1 THEN "game_over" ELSE "resolve"
  <2>1. PICK handExists \in BOOLEAN :
          LET in == StillIn(isEliminated)
              out == Penalized(in, {p \in in : Incorrect(hist, handExists, p)}) \intersect AtLimit(in)
          IN  /\ roundPhase' = "RESOLVING"
              /\ isEliminated' = [p \in Players |-> isEliminated[p] \/ p \in out]
              /\ turnResult' = IF Cardinality(in \ out) <= 1 THEN "game_over" ELSE "resolve"
    BY DEF ResolveRound
  <2>2. \A S, T : S \intersect AtLimit(StillIn(isEliminated)) \in SUBSET Players
    BY DEF AtLimit, StillIn
  <2> QED
    BY <2>1, <2>2 DEF ActivePlayers
<1>2. ActivePlayers' = ActivePlayers \ out
  BY <1>1 DEF ActivePlayers, StillIn
<1> QED
  BY <1>1, <1>2 DEF GameOver

\* What a turn makes of the round, by the result that is returned.
RoundMoved ==
    \/ /\ turnResult' \in {"continue", "last_chance"}
       /\ roundPhase' # "RESOLVING"
    \/ /\ roundPhase' = "RESOLVING"
       /\ turnResult' = IF GameOver' THEN "game_over" ELSE "resolve"

\* A bid: its player is the caller, and the turn goes on.
LEMMA BidMoves ==
    ASSUME TypeOK, RoundIsPlayable, roundPhase # "RESOLVING",
           NEW p \in ActivePlayers, NEW h \in Hands, NEW a, AcceptCall(p, h, a),
           roundPhase' \in {"CALLING", "BULL_PHASE"}
    PROVE  RoundIsPlayable' /\ RoundMoved
<1>1. ActivePlayers' = ActivePlayers /\ startingPlayerIndex' = startingPlayerIndex
  BY DEF AcceptCall, scoreVars, fixedVars, ActivePlayers
<1>2. ActivePlayers # {} /\ AdvanceTurn(p)
  BY DEF AcceptCall
<1>3. currentPlayerIndex' \in 0 .. Cardinality(ActivePlayers) - 1
  BY <1>2, AdvanceTurnRange
<1>4. startingPlayerIndex \in 0 .. Cardinality(ActivePlayers) - 1
  BY DEF RoundIsPlayable
<1>5. RoundIsPlayable'
  BY <1>1, <1>2, <1>3, <1>4 DEF RoundIsPlayable, AcceptCall
<1> QED
  BY <1>5 DEF RoundMoved, AcceptCall

\* An answer that leaves the round open.
LEMMA AnswerMoves ==
    ASSUME TypeOK, RoundIsPlayable, roundPhase \in {"CALLING", "BULL_PHASE"},
           AdvanceTurn(lastCallerId), turnResult' = "continue",
           roundPhase' = "BULL_PHASE",
           UNCHANGED <<fixedVars, scoreVars, currentHand, lastCallerId>>
    PROVE  RoundIsPlayable' /\ RoundMoved
<1>1. ActivePlayers' = ActivePlayers /\ startingPlayerIndex' = startingPlayerIndex
  BY DEF scoreVars, fixedVars, ActivePlayers
<1>2. ActivePlayers # {} /\ startingPlayerIndex \in 0 .. Cardinality(ActivePlayers) - 1
  BY DEF RoundIsPlayable
<1>3. currentPlayerIndex' \in 0 .. Cardinality(ActivePlayers) - 1
  BY <1>2, AdvanceTurnRange
<1>4. RoundIsPlayable'
  BY <1>1, <1>2, <1>3 DEF RoundIsPlayable
<1> QED
  BY <1>4 DEF RoundMoved

\* A reveal.
LEMMA RevealMoves ==
    ASSUME NEW hist, ResolveRound(isEliminated, hist)
    PROVE  RoundIsPlayable' /\ RoundMoved
BY RevealOutcome DEF RoundIsPlayable, RoundMoved

\* The last chance goes to the caller, who is still in.
LEMMA OfferMoves ==
    ASSUME RoundIsPlayable, roundPhase # "RESOLVING", currentHand # NoHand,
           OfferLastChance(isEliminated), UNCHANGED <<fixedVars, currentHand, lastCallerId>>
    PROVE  RoundIsPlayable' /\ RoundMoved
<1>1. ActivePlayers' = ActivePlayers /\ startingPlayerIndex' = startingPlayerIndex
  BY DEF OfferLastChance, fixedVars, ActivePlayers
<1>2. lastCallerId \in ActivePlayers /\ startingPlayerIndex \in 0 .. Cardinality(ActivePlayers) - 1
  BY DEF RoundIsPlayable
<1>3. currentPlayerIndex' \in 0 .. Cardinality(ActivePlayers) - 1
  <2>1. currentPlayerIndex' = IndexIn(ActivePlayers, lastCallerId)
    BY DEF OfferLastChance, ActivePlayers
  <2> QED
    BY <1>2, <2>1, InAreSeated, IndexInRange
<1>4. RoundIsPlayable'
  BY <1>1, <1>2, <1>3 DEF RoundIsPlayable, OfferLastChance
<1> QED
  BY <1>4 DEF RoundMoved, OfferLastChance

\* Every turn keeps the round playable or reveals it.
LEMMA TurnGoesOn ==
    ASSUME TypeOK, RoundIsPlayable, NEW p \in Players, TurnAction(p)
    PROVE  TypeOK' /\ RoundIsPlayable' /\ RoundMoved /\ roundPhase # "RESOLVING"
<1>1. TypeOK'
  <2>1. ASSUME NEW h \in Hands, HandleCall(p, h) PROVE TypeOK'
    BY <2>1, AcceptCallType DEF HandleCall, CallActions, RoundPhases
  <2>2. ASSUME NEW h \in Hands, HandleLastChanceRaise(p, h) PROVE TypeOK'
    BY <2>2, AcceptCallType DEF HandleLastChanceRaise, CallActions, RoundPhases
  <2> QED
    BY <2>1, <2>2, BullType, TrueType, LastChancePassType DEF TurnAction
<1>2. roundPhase # "RESOLVING"
  BY DEF TurnAction, HandleCall, HandleBull, HandleTrue, HandleLastChanceRaise,
         HandleLastChancePass, MayTakeTurn
<1>3. ASSUME NEW h \in Hands, HandleCall(p, h)
      PROVE  RoundIsPlayable' /\ RoundMoved
  BY <1>2, <1>3, BidMoves DEF HandleCall, MayTakeTurn
<1>4. ASSUME NEW h \in Hands, HandleLastChanceRaise(p, h)
      PROVE  RoundIsPlayable' /\ RoundMoved
  <2>1. p \in ActivePlayers
    BY <1>4 DEF HandleLastChanceRaise, RoundIsPlayable
  <2> QED
    BY <1>2, <1>4, <2>1, BidMoves DEF HandleLastChanceRaise
<1>5. ASSUME HandleBull(p)
      PROVE  RoundIsPlayable' /\ RoundMoved
  <2> DEFINE hist == Append(turnHistory, Entry(p, "BULL", NoHand))
  <2>1. /\ roundPhase \in {"CALLING", "BULL_PHASE"} /\ currentHand # NoHand
        /\ UNCHANGED <<fixedVars, currentHand, lastCallerId>>
    BY <1>5 DEF HandleBull, MayTakeTurn
  <2>2. \/ /\ roundPhase' = "BULL_PHASE" /\ AdvanceTurn(lastCallerId)
           /\ turnResult' = "continue" /\ UNCHANGED scoreVars
        \/ OfferLastChance(isEliminated)
        \/ ResolveRound(isEliminated, hist)
    BY <1>5 DEF HandleBull
  <2> HIDE DEF hist
  <2> QED
    BY <2>1, <2>2, <1>2, AnswerMoves, OfferMoves, RevealMoves
<1>6. ASSUME HandleTrue(p)
      PROVE  RoundIsPlayable' /\ RoundMoved
  <2> DEFINE hist == Append(turnHistory, Entry(p, "TRUE", NoHand))
  <2>1. /\ roundPhase = "BULL_PHASE"
        /\ UNCHANGED <<fixedVars, currentHand, lastCallerId>>
    BY <1>6 DEF HandleTrue
  <2>2. \/ /\ AdvanceTurn(lastCallerId)
           /\ turnResult' = "continue" /\ UNCHANGED <<scoreVars, roundPhase>>
        \/ ResolveRound(isEliminated, hist)
    BY <1>6 DEF HandleTrue
  <2> HIDE DEF hist
  <2> QED
    BY <2>1, <2>2, AnswerMoves, RevealMoves
<1>7. ASSUME HandleLastChancePass(p)
      PROVE  RoundIsPlayable' /\ RoundMoved
  BY <1>7, RevealMoves DEF HandleLastChancePass
<1> QED
  BY <1>1, <1>2, <1>3, <1>4, <1>5, <1>6, <1>7 DEF TurnAction

\* The next round of a game that goes on.
LEMMA RoundBegins ==
    ASSUME TypeOK, StartNextRound, ~GameOver
    PROVE  TypeOK' /\ RoundIsPlayable' /\ roundPhase' # "RESOLVING"
<1>1. TypeOK'
  BY NextRoundType
<1>2. ActivePlayers' = ActivePlayers /\ ActivePlayers # {}
  BY FS_EmptySet DEF StartNextRound, GameOver, ActivePlayers
<1>3. NextSeatAfter(startingPlayerId, ActivePlayers) \in ActivePlayers
  BY <1>2, InAreSeated, NextSeatIsIn DEF TypeOK
<1>4. /\ startingPlayerIndex' = IndexIn(ActivePlayers, startingPlayerId')
      /\ currentPlayerIndex' = IndexIn(ActivePlayers, startingPlayerId')
      /\ startingPlayerId' \in ActivePlayers
      /\ roundPhase' = "CALLING" /\ currentHand' = NoHand
  BY <1>3 DEF StartNextRound
<1>5. currentPlayerIndex' \in 0 .. Cardinality(ActivePlayers) - 1
  BY <1>4, InAreSeated, IndexInRange
<1> QED
  BY <1>1, <1>2, <1>4, <1>5 DEF RoundIsPlayable

\* A new engine.
LEMMA EngineBegins ==
    ASSUME NewEngine, seated' \in 2 .. NumPlayers,
           settings' \in [maxCards : MaxCardsChoices, lastChanceMode : LastChanceModes]
    PROVE  /\ TypeOK' /\ RoundIsPlayable' /\ roundPhase' # "RESOLVING"
           /\ human' \in Players
<1>1. human' \in Players /\ 1 \in Players
  BY NumPlayersAssumption DEF NewEngine, Players
<1>2. 1 \in ActivePlayers'
  <2>1. ~(1 > seated') /\ isEliminated'[1] = (1 > seated')
    BY <1>1, NumPlayersAssumption DEF NewEngine
  <2> QED
    BY <1>1, <2>1 DEF ActivePlayers, StillIn
<1>3. 0 \in 0 .. Cardinality(ActivePlayers') - 1
  <2>1. IsFiniteSet(ActivePlayers') /\ Cardinality(ActivePlayers') \in Nat
    BY InAreSeated, PlayersFinite
  <2>2. Cardinality(ActivePlayers') # 0
    BY <1>2, <2>1, FS_EmptySet
  <2> QED
    BY <2>1, <2>2
<1>4. /\ isEliminated' \in [Players -> BOOLEAN] /\ cardCount' \in [Players -> Nat]
      /\ lastRoundResult' \in RoundResult /\ turnHistory' \in Seq(TurnEntry)
  <2>1. NumPlayers \in Nat /\ seated' \in Nat
    BY NumPlayersAssumption
  <2> QED
    BY <2>1, FreshRoundType DEF NewEngine, STARTING_CARDS, Players
<1>5. TypeOK'
  <2>1. 0 \in -1 .. NumPlayers - 1
    BY NumPlayersAssumption
  <2>2. /\ roundPhase' = "CALLING" /\ currentPlayerIndex' = 0 /\ startingPlayerIndex' = 0
        /\ startingPlayerId' = 1 /\ currentHand' = NoHand /\ lastCallerId' = NoPlayer
        /\ respondedPlayers' = {} /\ lastChanceUsed' = FALSE /\ lastCallIndex' = 0
        /\ lastCallIndexLength' = -1 /\ turnResult' = "new_round"
    BY DEF NewEngine
  <2> QED
    BY <1>1, <1>4, <2>1, <2>2 DEF TypeOK, RoundPhases, TurnResults
<1>6. RoundIsPlayable'
  BY <1>2, <1>3 DEF RoundIsPlayable, NewEngine
<1> QED
  BY <1>1, <1>5, <1>6 DEF NewEngine

\* The engine that is made of a save is the engine that was saved.
LEMMA EngineLoads ==
    ASSUME TypeOK, NEW e \in SnapshotType, LoadEngine(e)
    PROVE  TypeOK' /\ Snapshot' = e
<1>1. TypeOK'
  BY FreshRoundType DEF TypeOK, LoadEngine, SnapshotType, TurnResults
<1>2. Snapshot' = e
  BY DEF Snapshot, LoadEngine, SnapshotType
<1> QED
  BY <1>1, <1>2

-----------------------------------------------------------------------------
(* What callbacks share.                                                   *)

\* While a round is played somebody is on turn.
LEMMA SomebodyOnTurn ==
    RoundIsPlayable /\ roundPhase # "RESOLVING" => CurrentPlayerId \in Players /\ CurrentPlayerId # NoPlayer
<1> SUFFICES ASSUME RoundIsPlayable, roundPhase # "RESOLVING"
             PROVE  CurrentPlayerId \in Players /\ CurrentPlayerId # NoPlayer
  OBVIOUS
<1>1. CurrentPlayerId \in ActivePlayers
  BY InAreSeated, PlayerAtIndex DEF CurrentPlayerId, RoundIsPlayable
<1> QED
  BY <1>1, InAreSeated, NumPlayersAssumption DEF Players, NoPlayer

LEMMA SomebodyOnTurnThen ==
    ASSUME RoundIsPlayable', roundPhase' # "RESOLVING"
    PROVE  CurrentPlayerId' \in Players /\ CurrentPlayerId' # NoPlayer
<1>1. CurrentPlayerId' \in ActivePlayers'
  <2> SUFFICES ASSUME NEW S \in SUBSET Players, NEW i \in 0 .. Cardinality(S) - 1
               PROVE  PlayerAt(S, i) \in S
    BY InAreSeated DEF CurrentPlayerId, RoundIsPlayable
  <2> QED
    BY PlayerAtIndex
<1> QED
  BY <1>1, InAreSeated, NumPlayersAssumption DEF Players, NoPlayer

\* The human is timed only in a game that times its turns.
TimersOK ==
    /\ botTimer \in Players \union {NoPlayer}
    /\ turnTimer \in BOOLEAN
    /\ turnTimer => gameSettings.turnTimer

SettingsType == [turnTimer : TurnTimers, bestOf : BestOfChoices]

\* Scheduling serves whoever is on turn.
LEMMA TurnsScheduled ==
    ASSUME RoundIsPlayable', gameSettings' \in SettingsType,
           NEW bot \in Players \union {NoPlayer}, NEW own \in BOOLEAN,
           own => gameSettings'.turnTimer, ScheduleTurns(bot, own)
    PROVE  TurnIsScheduled' /\ TimersOK'
<1>1. CurrentPlayerId' \in Players \union {NoPlayer}
  <2> SUFFICES ASSUME NEW S \in SUBSET Players, NEW i
               PROVE  PlayerAt(S, i) \in Players \union {NoPlayer}
    BY InAreSeated DEF CurrentPlayerId
  <2> QED
    BY PlayerAtIndex
<1>2. gameSettings'.turnTimer \in BOOLEAN
  BY TurnTimersAssumption DEF SettingsType
<1>3. /\ botTimer' \in Players \union {NoPlayer}
      /\ turnTimer' = (HumanIsTimed' \/ own)
  BY <1>1 DEF ScheduleTurns
<1>4. ASSUME TurnAwaited', ~isPaused'
      PROVE  IF CurrentPlayerId' = human' THEN turnTimer' = gameSettings'.turnTimer
             ELSE botTimer' = CurrentPlayerId'
  <2>1. CurrentPlayerId' # NoPlayer
    BY <1>4, SomebodyOnTurnThen DEF TurnAwaited
  <2>2. CASE CurrentPlayerId' = human'
    BY <1>2, <1>3, <1>4, <2>2 DEF HumanIsTimed
  <2>3. CASE CurrentPlayerId' # human'
    BY <1>4, <2>1, <2>3 DEF ScheduleTurns
  <2> QED
    BY <2>2, <2>3
<1>5. TurnIsScheduled'
  BY <1>4 DEF TurnIsScheduled
<1>6. turnTimer' \in BOOLEAN /\ (turnTimer' => gameSettings'.turnTimer)
  BY <1>2, <1>3 DEF HumanIsTimed
<1> QED
  BY <1>3, <1>5, <1>6 DEF TimersOK

\* The save that is made is the game, and a good one.
LEMMA GamePersisted ==
    ASSUME TypeOK', RoundIsPlayable', human' \in Players, seriesState' \in SeriesType,
           Counted(seriesState'), NEW rr \in BOOLEAN, rr => roundPhase' = "RESOLVING",
           PersistGame(rr)
    PROVE  /\ \A save \in localSave' :
                 GoodSave(save) /\ save.roundResult = rr /\ save.engine = Snapshot'
           /\ roundResult' = rr => ReloadKeepsTheGame'
<1>1. Snapshot' \in SnapshotType /\ Playable(Snapshot')
  <2>1. Snapshot' \in SnapshotType
    BY DEF TypeOK, Snapshot, SnapshotType
  <2>2. Playable(Snapshot)'
    BY PlayableThen
  <2> QED
    BY <2>1, <2>2 DEF Playable
<1> DEFINE save == [engine |-> Snapshot', human |-> human', seriesState |-> seriesState',
                    roundResult |-> rr]
<1>2. localSave' = {save}
  BY DEF PersistGame
<1>3. GoodSave(save)
  <2>1. save.engine.roundPhase = roundPhase'
    BY DEF Snapshot
  <2> QED
    BY <1>1, <2>1 DEF GoodSave, SaveType
<1>4. ASSUME roundResult' = rr PROVE ReloadKeepsTheGame'
  <2>1. ValidSnapshot(Snapshot') \/ roundPhase' = "RESOLVING"
    <3>1. Snapshot'.roundPhase = roundPhase'
      BY DEF Snapshot
    <3> QED
      BY <1>1, <3>1 DEF Playable, ValidSnapshot
  <2>2. /\ save \in localSave' /\ save.engine = Snapshot' /\ save.human = human'
        /\ save.seriesState = seriesState' /\ save.roundResult = roundResult'
    BY <1>2, <1>4
  <2> HIDE DEF save
  <2> QED
    BY <2>1, <2>2 DEF ReloadKeepsTheGame
<1> QED
  BY <1>2, <1>3, <1>4

\* A game that is set going is scheduled, saved, and can go on.
LEMMA GameSetGoing ==
    ASSUME TypeOK', RoundIsPlayable', human' \in Players, gameSettings' \in SettingsType,
           seriesState' \in SeriesType, Counted(seriesState'),
           roundPhase' # "RESOLVING" \/ revealLost',
           NEW bot \in Players \union {NoPlayer}, NEW own \in BOOLEAN,
           own => gameSettings'.turnTimer, ScheduleTurns(bot, own), BroadcastState
    PROVE  /\ TurnIsScheduled' /\ GameCanGoOn' /\ ReloadKeepsTheGame'
           /\ \A save \in localSave' : GoodSave(save)
           /\ TimersOK' /\ roundResult' = FALSE
<1>1. TurnIsScheduled' /\ TimersOK'
  BY TurnsScheduled
<1>2. roundResult' = FALSE /\ PersistGame(FALSE)
  BY DEF BroadcastState
<1>3. /\ \A save \in localSave' : GoodSave(save) /\ save.engine = Snapshot'
      /\ ReloadKeepsTheGame'
  BY <1>2, GamePersisted
<1>4. Snapshot'.roundPhase = roundPhase'
  BY DEF Snapshot
<1>5. GameCanGoOn'
  BY <1>3, <1>4 DEF GameCanGoOn
<1> QED
  BY <1>1, <1>2, <1>3, <1>5

-----------------------------------------------------------------------------
(* The callbacks, one lemma each.                                          *)

\* LocalTypeOK without the engine's.
PageType ==
    /\ page \in Pages
    /\ seated \in 2 .. NumPlayers
    /\ human \in Players
    /\ gameSettings \in SettingsType
    /\ seriesState \in SeriesType
    /\ roundResult \in BOOLEAN /\ pendingNextSet \in BOOLEAN /\ pendingWinner \in BOOLEAN
    /\ isPaused \in BOOLEAN /\ turnTimer \in BOOLEAN /\ revealLost \in BOOLEAN
    /\ stale \in BOOLEAN
    /\ countdown \in {"none", "game", "set"}
    /\ botTimer \in Players \union {NoPlayer}

SavesGood == \A save \in localSave : GoodSave(save)

LEMMA InvParts ==
    LocalInv <=> /\ TypeOK /\ PageType /\ SavesGood
                 /\ page # "away" => RoundIsPlayable
                 /\ Counted(seriesState) /\ Screen
                 /\ TurnIsScheduled /\ GameCanGoOn /\ ReloadKeepsTheGame
BY PlayableNow DEF LocalInv, LocalTypeOK, PageType, SettingsType, SavesGood, GoodSave, SaveType

LEMMA InvPartsThen ==
    LocalInv' <=> /\ TypeOK' /\ PageType' /\ SavesGood'
                  /\ page' # "away" => RoundIsPlayable'
                  /\ Counted(seriesState') /\ Screen'
                  /\ TurnIsScheduled' /\ GameCanGoOn' /\ ReloadKeepsTheGame'
BY PlayableThen DEF LocalInv, LocalTypeOK, PageType, SettingsType, SavesGood, GoodSave, SaveType,
                    Counted

\* A set more for one side.
LEMMA SetCounted ==
    ASSUME NEW series \in SeriesType, Counted(series), ~series.decided, NEW side \in Sides
    PROVE  LET won == [series EXCEPT !.wins[side] = @ + 1]
           IN  /\ won \in SeriesType /\ ~won.decided
               /\ ~Decided(won, side) => /\ [won EXCEPT !.currentSet = @ + 1] \in SeriesType
                                         /\ Counted([won EXCEPT !.currentSet = @ + 1])
               /\ [won EXCEPT !.decided = TRUE] \in SeriesType
               /\ Counted([won EXCEPT !.decided = TRUE])
<1> DEFINE won == [series EXCEPT !.wins[side] = @ + 1]
<1> DEFINE counts == [series.wins EXCEPT ![side] = @ + 1]
<1>1. /\ series.wins \in [Sides -> Nat] /\ series.currentSet \in Nat /\ series.bestOf \in Nat
      /\ series = [bestOf |-> series.bestOf, currentSet |-> series.currentSet,
                   wins |-> series.wins, decided |-> series.decided]
  BY DEF SeriesType
<1>4. counts \in [Sides -> Nat] /\ \A s \in Sides :
        counts[s] = IF s = side THEN series.wins[s] + 1 ELSE series.wins[s]
  BY <1>1
<1>5. won = [series EXCEPT !.wins = counts]
  OBVIOUS
<1> HIDE DEF won, counts
<1>6. /\ won.wins = counts /\ won.currentSet = series.currentSet /\ won.bestOf = series.bestOf
      /\ won.decided = series.decided /\ won \in SeriesType
  BY <1>1, <1>4, <1>5 DEF SeriesType
<1>2. /\ [won EXCEPT !.decided = TRUE] \in SeriesType
      /\ [won EXCEPT !.decided = TRUE].decided
      /\ [won EXCEPT !.currentSet = @ + 1] \in SeriesType
  <2>1. /\ won.wins \in [Sides -> Nat] /\ won.currentSet + 1 \in Nat
        /\ won = [bestOf |-> won.bestOf, currentSet |-> won.currentSet,
                  wins |-> won.wins, decided |-> won.decided]
    BY <1>1, <1>6 DEF SeriesType
  <2> QED
    BY <1>1, <1>6, <2>1 DEF SeriesType
<1>3. ASSUME ~Decided(won, side)
      PROVE  Counted([won EXCEPT !.currentSet = @ + 1])
  <2> DEFINE next == [won EXCEPT !.currentSet = @ + 1]
  <2>1. next.wins = won.wins /\ next.currentSet = won.currentSet + 1 /\ next.bestOf = won.bestOf
    BY <1>6 DEF SeriesType
  <2>2. WinsNeeded(next) = WinsNeeded(series) /\ WinsNeeded(won) = WinsNeeded(series)
    BY <1>6, <2>1 DEF WinsNeeded
  <2>3. WinsNeeded(series) \in Nat
    BY <1>1 DEF WinsNeeded
  <2>4. won.wins["human"] + won.wins["bot"] = series.wins["human"] + series.wins["bot"] + 1
    <3>1. CASE side = "human"
      BY <1>1, <1>4, <1>6, <3>1 DEF Sides
    <3>2. CASE side = "bot"
      BY <1>1, <1>4, <1>6, <3>2 DEF Sides
    <3> QED
      BY <3>1, <3>2 DEF Sides
  <2>5. \A other \in Sides : next.wins[other] < WinsNeeded(next)
    BY <1>1, <1>3, <1>4, <1>6, <2>1, <2>2, <2>3 DEF Counted, Decided, Sides
  <2>6. next.wins["human"] + next.wins["bot"] = next.currentSet - 1
    BY <1>1, <1>6, <2>1, <2>4 DEF Counted, Sides
  <2>7. Counted(next)
    <3> HIDE DEF next
    <3> QED
      BY <2>5, <2>6 DEF Counted
  <2> QED
    BY <2>7
<1>7. ~won.decided /\ Counted([won EXCEPT !.decided = TRUE])
  BY <1>2, <1>6 DEF Counted
<1> QED
  BY <1>2, <1>3, <1>6, <1>7 DEF won

\* A match starts with nothing won.
LEMMA SeriesBegins ==
    ASSUME NEW bestOf \in {1, 3, 5}, NEW n
    PROVE  NewSeries(bestOf, n) \in SeriesType /\ Counted(NewSeries(bestOf, n))
<1> DEFINE series == NewSeries(bestOf, n)
<1>1. /\ series.bestOf \in {1, 3, 5} /\ series.currentSet = 1
      /\ series.wins = [side \in Sides |-> 0] /\ series \in SeriesType
  BY DEF NewSeries, SeriesType
<1>2. WinsNeeded(series) \in {1, 2, 3}
  BY <1>1 DEF WinsNeeded
<1> HIDE DEF series
<1> QED
  BY <1>1, <1>2 DEF Counted, Sides, series

\* handleTurnResult, after any turn.
LEMMA TurnResultHandled ==
    ASSUME LocalInv, page \notin {"away", "lobby"}, countdown # "game",
           NEW p \in Players, TurnAction(p),
           NEW bot \in {botTimer, NoPlayer}, HandleTurnResult(bot)
    PROVE  LocalInv'
<1>1. /\ TypeOK /\ PageType /\ SavesGood /\ RoundIsPlayable /\ Counted(seriesState) /\ Screen
      /\ GameCanGoOn
  BY InvParts
<1>2. /\ TypeOK' /\ RoundIsPlayable' /\ RoundMoved /\ roundPhase # "RESOLVING"
  BY <1>1, TurnGoesOn
<1>3. ~roundResult /\ (~stale => countdown = "none" /\ ~pendingNextSet)
  BY <1>1, <1>2 DEF Screen, PageType
<1>4. /\ UNCHANGED <<page, seated, human, gameSettings, countdown, isPaused, revealLost, stale>>
      /\ bot \in Players \union {NoPlayer}
  BY <1>1 DEF HandleTurnResult, PageType
<1>5. CASE /\ turnResult' \in {"continue", "last_chance"}
           /\ UNCHANGED <<seriesState, pendingNextSet, pendingWinner>>
           /\ ScheduleTurns(bot, FALSE) /\ BroadcastState
  <2>1. roundPhase' # "RESOLVING"
    BY <1>2, <1>5 DEF RoundMoved
  <2>2. /\ TurnIsScheduled' /\ GameCanGoOn' /\ ReloadKeepsTheGame' /\ SavesGood'
        /\ TimersOK' /\ roundResult' = FALSE
    BY <1>1, <1>2, <1>4, <1>5, <2>1, GameSetGoing DEF PageType, SavesGood
  <2>3. PageType' /\ Screen'
    BY <1>1, <1>3, <1>4, <1>5, <2>1, <2>2 DEF PageType, Screen, TimersOK
  <2> QED
    BY <1>1, <1>2, <1>5, <2>2, <2>3, InvPartsThen
<1>6. CASE /\ turnResult' = "resolve"
           /\ botTimer' = bot /\ turnTimer' = FALSE
           /\ UNCHANGED <<seriesState, pendingNextSet, pendingWinner>>
           /\ ShowReveal
  <2>1. roundPhase' = "RESOLVING" /\ ~GameOver'
    BY <1>2, <1>6 DEF RoundMoved
  <2>2. roundResult' = TRUE /\ PersistGame(TRUE)
    BY <1>6 DEF ShowReveal
  <2>3. /\ \A save \in localSave' :
              GoodSave(save) /\ save.roundResult = TRUE /\ save.engine = Snapshot'
        /\ ReloadKeepsTheGame'
    BY <1>1, <1>2, <1>4, <1>6, <2>1, <2>2, GamePersisted DEF PageType
  <2>4. GameCanGoOn'
    <3>1. Cardinality(StillIn(Snapshot'.isEliminated)) > 1
      <4>1. Snapshot'.isEliminated = isEliminated'
        BY DEF Snapshot
      <4>2. Cardinality(ActivePlayers') \in Nat
        BY InAreSeated, PlayersFinite
      <4> QED
        BY <2>1, <4>1, <4>2 DEF GameOver, ActivePlayers
    <3> QED
      BY <2>2, <2>3, <3>1 DEF GameCanGoOn
  <2>5. PageType' /\ Screen' /\ TurnIsScheduled'
    BY <1>1, <1>3, <1>4, <1>6, <2>1, <2>2 DEF PageType, Screen, TurnIsScheduled, TurnAwaited
  <2> QED
    BY <1>1, <1>2, <1>6, <2>3, <2>4, <2>5, InvPartsThen DEF SavesGood
<1>7. CASE /\ turnResult' = "game_over"
           /\ botTimer' = bot /\ turnTimer' = FALSE
           /\ GameEnds
  <2>1. roundPhase' = "RESOLVING" /\ GameOver'
    BY <1>2, <1>7 DEF RoundMoved
  <2> DEFINE side == IF PlayerAt(ActivePlayers', 0) = human THEN "human" ELSE "bot"
             series == [seriesState EXCEPT !.wins[side] = @ + 1]
             open == seriesState.bestOf > 1 /\ ~seriesState.decided
  <2>2. /\ roundResult' = TRUE
        /\ \/ open /\ ~Decided(series, side) /\ SetEnds(series)
           \/ open /\ Decided(series, side) /\ MatchEnds([series EXCEPT !.decided = TRUE])
           \/ ~open /\ MatchEnds(seriesState)
    BY <1>7 DEF GameEnds
  <2>3. side \in Sides
    BY DEF Sides
  <2>4. ASSUME open
        PROVE  /\ ~series.decided
               /\ ~Decided(series, side) => /\ [series EXCEPT !.currentSet = @ + 1] \in SeriesType
                                            /\ Counted([series EXCEPT !.currentSet = @ + 1])
               /\ [series EXCEPT !.decided = TRUE] \in SeriesType
               /\ Counted([series EXCEPT !.decided = TRUE])
               /\ series \in SeriesType
    <3>1. ~seriesState.decided /\ seriesState \in SeriesType
      BY <1>1, <2>4 DEF PageType
    <3> HIDE DEF side
    <3> QED
      BY <1>1, <2>3, <3>1, SetCounted
  <2> HIDE DEF series, side, open
  <2>5. CASE open /\ ~Decided(series, side) /\ SetEnds(series)
    <3>1. /\ seriesState' = [series EXCEPT !.currentSet = @ + 1]
          /\ pendingNextSet' = TRUE /\ UNCHANGED <<pendingWinner, localSave>>
      BY <2>5 DEF SetEnds
    <3>2. seriesState' \in SeriesType /\ Counted(seriesState') /\ ~seriesState'.decided
      BY <2>4, <2>5, <3>1 DEF SeriesType
    <3>3. PageType' /\ Screen' /\ TurnIsScheduled'
      BY <1>1, <1>3, <1>4, <1>7, <2>1, <2>2, <3>1, <3>2
         DEF PageType, Screen, TurnIsScheduled, TurnAwaited
    <3>4. GameCanGoOn' /\ ReloadKeepsTheGame' /\ SavesGood'
      BY <1>1, <1>4, <2>1, <2>2, <3>1 DEF GameCanGoOn, ReloadKeepsTheGame, SavesGood
    <3> QED
      BY <1>2, <3>2, <3>3, <3>4, InvPartsThen
  <2>6. ASSUME NEW now, now \in SeriesType, Counted(now), MatchEnds(now)
        PROVE  LocalInv'
    <3>1. /\ seriesState' = now /\ pendingWinner' = TRUE /\ localSave' = {}
          /\ pendingNextSet' = pendingNextSet
      BY <1>1, <1>3, <2>6 DEF MatchEnds, PageType
    <3>2. PageType' /\ Screen' /\ TurnIsScheduled'
      BY <1>1, <1>3, <1>4, <1>7, <2>1, <2>2, <2>6, <3>1
         DEF PageType, Screen, TurnIsScheduled, TurnAwaited
    <3>3. GameCanGoOn' /\ ReloadKeepsTheGame' /\ SavesGood'
      BY <2>1, <2>2, <3>1 DEF GameCanGoOn, ReloadKeepsTheGame, SavesGood
    <3> QED
      BY <1>2, <2>6, <3>1, <3>2, <3>3, InvPartsThen
  <2> QED
    BY <1>1, <2>2, <2>4, <2>5, <2>6 DEF PageType
<1> QED
  BY <1>5, <1>6, <1>7 DEF HandleTurnResult

LEMMA HumanActsKeeps == ASSUME LocalInv, HumanActs PROVE LocalInv'
<1>1. human \in Players /\ botTimer \in {botTimer, NoPlayer}
  BY InvParts DEF PageType
<1> QED
  BY <1>1, TurnResultHandled DEF HumanActs, AtTable

\* Neither without a game nor under the first countdown is a bot's timeout pending.
LEMMA BotActsKeeps == ASSUME LocalInv, BotActs PROVE LocalInv'
<1>1. PageType /\ Screen /\ TypeOK
  BY InvParts
<1>2. botTimer \in Players /\ TurnAction(botTimer)
  BY <1>1 DEF BotActs, PageType
<1>3. page \notin {"away", "lobby"} /\ countdown # "game"
  BY <1>1 DEF BotActs, Screen, NoTimers
<1> QED
  BY <1>2, <1>3, TurnResultHandled DEF BotActs

LEMMA TurnTimerFiresKeeps == ASSUME LocalInv, TurnTimerFires PROVE LocalInv'
<1>1. PageType /\ Screen /\ TypeOK
  BY InvParts
<1>2. human \in Players /\ TurnAction(human)
  <2>1. 1 \in Hands
    BY MaxHandAssumption DEF Hands
  <2> QED
    BY <1>1, <2>1 DEF TurnTimerFires, AutoAction, TurnAction, PageType
<1>3. page \notin {"away", "lobby"} /\ countdown # "game"
  BY <1>1 DEF TurnTimerFires, Screen, NoTimers
<1>4. botTimer \in {botTimer, NoPlayer}
  OBVIOUS
<1> QED
  BY <1>2, <1>3, <1>4, TurnResultHandled DEF TurnTimerFires

\* What is said of the engine remains true while the engine rests.
LEMMA EngineRests ==
    ASSUME UNCHANGED vars
    PROVE  /\ TypeOK => TypeOK'
           /\ RoundIsPlayable => RoundIsPlayable'
           /\ Snapshot' = Snapshot
           /\ CurrentPlayerId' = CurrentPlayerId
           /\ GameOver' <=> GameOver
           /\ roundPhase' = roundPhase
BY DEF vars, TypeOK, RoundIsPlayable, Snapshot, CurrentPlayerId, GameOver, ActivePlayers

\* The timeout of somebody who is not on turn is not the one that is awaited.
LEMMA TimeoutInVainKeeps == ASSUME LocalInv, TimeoutInVain PROVE LocalInv'
<1>1. /\ TypeOK /\ PageType /\ SavesGood /\ Counted(seriesState) /\ Screen
      /\ page # "away" => RoundIsPlayable
      /\ TurnIsScheduled /\ GameCanGoOn /\ ReloadKeepsTheGame
  BY InvParts
<1>2. UNCHANGED <<page, seated, human, gameSettings, seriesState, roundResult, pendingNextSet,
                  pendingWinner, countdown, isPaused, localSave, revealLost, stale>>
  BY DEF TimeoutInVain, matchVars, refVars
<1>3. UNCHANGED vars
  BY DEF TimeoutInVain
<1>4. TypeOK' /\ (page' # "away" => RoundIsPlayable')
  BY <1>1, <1>2, <1>3, EngineRests
<1>5. /\ botTimer' \in {botTimer, NoPlayer} /\ turnTimer' \in {turnTimer, FALSE}
      /\ botTimer' # botTimer => roundPhase = "RESOLVING" \/ CurrentPlayerId # botTimer
      /\ turnTimer' # turnTimer => roundPhase = "RESOLVING" \/ CurrentPlayerId # human
  BY DEF TimeoutInVain
<1>6. PageType' /\ Screen'
  <2>1. PageType'
    BY <1>1, <1>2, <1>5 DEF PageType
  <2>2. NoTimers => NoTimers'
    BY <1>1, <1>5 DEF NoTimers, PageType
  <2>3. turnTimer' => gameSettings'.turnTimer
    BY <1>1, <1>2, <1>5 DEF Screen, PageType
  <2>4. Screen'
    BY <1>1, <1>2, <1>3, <2>2, <2>3, EngineRests DEF Screen
  <2> QED
    BY <2>1, <2>4
<1>7. TurnIsScheduled'
  <2>1. CASE turnTimer' = turnTimer
    BY <1>1, <1>2, <1>3, <1>5, <2>1, EngineRests DEF TurnIsScheduled, TurnAwaited, Playing
  <2>2. CASE turnTimer' # turnTimer
    <3>1. CurrentPlayerId # human \/ ~TurnAwaited
      BY <1>5, <2>2 DEF TurnAwaited
    <3> QED
      BY <1>1, <1>2, <1>3, <1>5, <3>1, EngineRests DEF TurnIsScheduled, TurnAwaited, Playing
  <2> QED
    BY <2>1, <2>2
<1>8. GameCanGoOn' /\ ReloadKeepsTheGame' /\ SavesGood'
  BY <1>1, <1>2, <1>3, EngineRests DEF GameCanGoOn, ReloadKeepsTheGame, Playing, SavesGood
<1> QED
  BY <1>1, <1>2, <1>4, <1>6, <1>7, <1>8, InvPartsThen

\* A game begins behind a countdown, with nothing saved or scheduled; if something is
\* pending, it is stale.
LEMMA StartGameKeeps == ASSUME LocalInv, StartGame PROVE LocalInv'
<1>1. PageType /\ Screen /\ page \in {"away", "lobby"}
  BY InvParts DEF StartGame
<1>2. ~roundResult /\ countdown = "none" /\ NoTimers
  BY <1>1 DEF Screen, PageType
<1>3. /\ seated' \in 2 .. NumPlayers /\ gameSettings' \in SettingsType
      /\ TypeOK' /\ RoundIsPlayable' /\ roundPhase' # "RESOLVING" /\ human' \in Players
  BY EngineBegins DEF StartGame, SettingsType
<1>4. seriesState' \in SeriesType /\ Counted(seriesState')
  BY <1>3, BestOfAssumption, SeriesBegins DEF StartGame, SettingsType
<1>5. /\ page' = "game" /\ countdown' = "game" /\ localSave' = {} /\ revealLost' = FALSE
      /\ stale' = (pendingNextSet \/ pendingWinner)
      /\ UNCHANGED <<roundResult, pendingNextSet, pendingWinner, isPaused, botTimer, turnTimer>>
  BY DEF StartGame, NewEngine
<1>6. PageType'
  BY <1>1, <1>3, <1>4, <1>5 DEF PageType, Pages
<1>7. Screen'
  BY <1>1, <1>2, <1>3, <1>5 DEF Screen, NoTimers, PageType
<1>8. TurnIsScheduled' /\ GameCanGoOn' /\ ReloadKeepsTheGame' /\ SavesGood'
  BY <1>3, <1>5 DEF TurnIsScheduled, GameCanGoOn, ReloadKeepsTheGame, SavesGood
<1> QED
  BY <1>3, <1>4, <1>6, <1>7, <1>8, InvPartsThen

LEMMA GameCountdownEndsKeeps == ASSUME LocalInv, GameCountdownEnds PROVE LocalInv'
<1>1. /\ TypeOK /\ PageType /\ RoundIsPlayable /\ Counted(seriesState) /\ Screen
      /\ page = "game" /\ roundPhase # "RESOLVING"
  BY InvParts DEF GameCountdownEnds, Screen
<1>2. /\ UNCHANGED <<vars, page, seated, human, gameSettings, seriesState, pendingNextSet,
                     pendingWinner, isPaused, revealLost, stale>>
      /\ countdown' = "none" /\ ScheduleTurns(botTimer, turnTimer) /\ BroadcastState
  BY DEF GameCountdownEnds, matchVars
<1>3. /\ TypeOK' /\ RoundIsPlayable' /\ roundPhase' # "RESOLVING"
      /\ ~stale => ~pendingNextSet
  BY <1>1, <1>2, EngineRests DEF Screen, PageType
<1>4. /\ TurnIsScheduled' /\ GameCanGoOn' /\ ReloadKeepsTheGame' /\ SavesGood'
      /\ TimersOK' /\ roundResult' = FALSE
  <2>1. turnTimer \in BOOLEAN /\ (turnTimer => gameSettings'.turnTimer)
    BY <1>1, <1>2 DEF PageType, Screen
  <2> QED
    BY <1>1, <1>2, <1>3, <2>1, GameSetGoing DEF PageType, SavesGood
<1>5. PageType' /\ Screen'
  BY <1>1, <1>2, <1>3, <1>4 DEF PageType, Screen, TimersOK
<1> QED
  BY <1>1, <1>2, <1>3, <1>4, <1>5, InvPartsThen

\* The settings hold for the next engine, too.
LEMMA NextSetStartsKeeps == ASSUME LocalInv, NextSetStarts PROVE LocalInv'
<1>1. /\ TypeOK /\ PageType /\ Counted(seriesState) /\ Screen
      /\ page \notin {"away", "lobby"} /\ (~stale => ~pendingNextSet)
  BY InvParts DEF NextSetStarts, Screen, PageType
<1>2. /\ UNCHANGED <<settings, page, seated, gameSettings, seriesState, pendingNextSet,
                     pendingWinner, isPaused, stale>>
      /\ countdown' = "none" /\ revealLost' = FALSE
      /\ NewEngine /\ ScheduleTurns(botTimer, turnTimer) /\ BroadcastState
  BY DEF NextSetStarts, NewEngine
<1>3. TypeOK' /\ RoundIsPlayable' /\ roundPhase' # "RESOLVING" /\ human' \in Players
  BY <1>1, <1>2, EngineBegins DEF PageType, TypeOK
<1>4. /\ TurnIsScheduled' /\ GameCanGoOn' /\ ReloadKeepsTheGame' /\ SavesGood'
      /\ TimersOK' /\ roundResult' = FALSE
  <2>1. turnTimer \in BOOLEAN /\ (turnTimer => gameSettings'.turnTimer)
    BY <1>1, <1>2 DEF PageType, Screen
  <2> QED
    BY <1>1, <1>2, <1>3, <2>1, GameSetGoing DEF PageType, SavesGood
<1>5. PageType' /\ Screen'
  BY <1>1, <1>2, <1>3, <1>4 DEF PageType, Screen, TimersOK
<1> QED
  BY <1>1, <1>2, <1>3, <1>4, <1>5, InvPartsThen

LEMMA ClearRoundResultKeeps == ASSUME LocalInv, ClearRoundResult PROVE LocalInv'
<1>1. /\ TypeOK /\ PageType /\ RoundIsPlayable /\ Counted(seriesState) /\ Screen
      /\ SavesGood /\ GameCanGoOn
      /\ page = "game" /\ roundPhase = "RESOLVING" /\ countdown # "game"
  BY InvParts DEF ClearRoundResult, Screen
<1>2. UNCHANGED <<seated, human, gameSettings, seriesState, isPaused, revealLost, stale>>
  BY DEF ClearRoundResult, matchVars
<1>3. CASE AnnounceNextSet
  <2>1. /\ UNCHANGED <<vars, page, pendingWinner, botTimer, turnTimer, localSave>>
        /\ pendingNextSet /\ pendingNextSet' = FALSE /\ countdown' = "set"
        /\ roundResult' = FALSE
    BY <1>3 DEF AnnounceNextSet
  <2>2. /\ TypeOK' /\ RoundIsPlayable' /\ roundPhase' = "RESOLVING"
        /\ ~stale' => GameOver' /\ ~seriesState'.decided
    BY <1>1, <1>2, <2>1, EngineRests DEF Screen
  <2>3. PageType' /\ Screen'
    BY <1>1, <1>2, <2>1, <2>2 DEF PageType, Screen
  <2>4. TurnIsScheduled' /\ GameCanGoOn' /\ ReloadKeepsTheGame' /\ SavesGood'
    BY <1>1, <1>2, <2>1, <2>2 DEF TurnIsScheduled, GameCanGoOn, ReloadKeepsTheGame, SavesGood
  <2> QED
    BY <1>1, <1>2, <2>2, <2>3, <2>4, InvPartsThen
<1>4. CASE DeclareWinner
  <2>1. /\ UNCHANGED <<vars, pendingNextSet, countdown, botTimer, turnTimer, localSave>>
        /\ ~pendingNextSet /\ pendingWinner' = FALSE /\ page' = "results"
        /\ roundResult' = FALSE
    BY <1>4 DEF DeclareWinner
  <2>2. /\ TypeOK' /\ RoundIsPlayable' /\ roundPhase' = "RESOLVING"
        /\ GameOver' <=> GameOver
    BY <1>1, <2>1, EngineRests
  <2>3. PageType' /\ Screen'
    BY <1>1, <1>2, <2>1, <2>2 DEF PageType, Pages, Screen
  <2>4. TurnIsScheduled' /\ GameCanGoOn' /\ ReloadKeepsTheGame' /\ SavesGood'
    BY <1>1, <1>2, <2>1, <2>2
       DEF TurnIsScheduled, TurnAwaited, GameCanGoOn, ReloadKeepsTheGame, Playing, SavesGood
  <2> QED
    BY <1>1, <1>2, <2>2, <2>3, <2>4, InvPartsThen
<1>5. CASE PlayOn
  <2>1. /\ UNCHANGED <<page, pendingNextSet, pendingWinner, countdown>> /\ ~pendingNextSet
        /\ StartNextRound /\ ~GameOver /\ ScheduleTurns(botTimer, FALSE)
        /\ BroadcastState
    BY <1>5 DEF PlayOn
  <2>2. TypeOK' /\ RoundIsPlayable' /\ roundPhase' # "RESOLVING"
    BY <1>1, <2>1, RoundBegins
  <2>3. /\ TurnIsScheduled' /\ GameCanGoOn' /\ ReloadKeepsTheGame' /\ SavesGood'
        /\ TimersOK' /\ roundResult' = FALSE
    BY <1>1, <1>2, <2>1, <2>2, GameSetGoing DEF PageType, SavesGood
  <2>4. PageType' /\ Screen'
    BY <1>1, <1>2, <2>1, <2>2, <2>3 DEF PageType, Screen, TimersOK
  <2> QED
    BY <1>1, <1>2, <2>2, <2>3, <2>4, InvPartsThen
<1> QED
  BY <1>3, <1>4, <1>5 DEF ClearRoundResult

LEMMA RematchKeeps == ASSUME LocalInv, Rematch PROVE LocalInv'
<1>1. TypeOK /\ PageType /\ Screen /\ countdown # "game"
  BY InvParts DEF Rematch, Screen, PageType
<1>2. /\ UNCHANGED <<settings, seated, gameSettings, pendingNextSet, pendingWinner, countdown>>
      /\ page' = "game" /\ isPaused' = FALSE /\ revealLost' = FALSE
      /\ stale' = (pendingNextSet \/ pendingWinner \/ countdown = "set")
      /\ seriesState' = NewSeries(gameSettings.bestOf, seated)
      /\ NewEngine /\ ScheduleTurns(NoPlayer, FALSE) /\ BroadcastState
  BY DEF Rematch, NewEngine
<1>3. TypeOK' /\ RoundIsPlayable' /\ roundPhase' # "RESOLVING" /\ human' \in Players
  BY <1>1, <1>2, EngineBegins DEF PageType, TypeOK
<1>4. seriesState' \in SeriesType /\ Counted(seriesState')
  BY <1>1, <1>2, BestOfAssumption, SeriesBegins DEF PageType, SettingsType
<1>5. /\ TurnIsScheduled' /\ GameCanGoOn' /\ ReloadKeepsTheGame' /\ SavesGood'
      /\ TimersOK' /\ roundResult' = FALSE
  BY <1>1, <1>2, <1>3, <1>4, GameSetGoing DEF PageType, SavesGood
<1>6. PageType' /\ Screen'
  BY <1>1, <1>2, <1>3, <1>4, <1>5 DEF PageType, Pages, Screen, TimersOK
<1> QED
  BY <1>2, <1>3, <1>4, <1>5, <1>6, InvPartsThen

LEMMA PauseKeeps == ASSUME LocalInv, Pause PROVE LocalInv'
<1>1. /\ TypeOK /\ PageType /\ SavesGood /\ RoundIsPlayable /\ Counted(seriesState) /\ Screen
      /\ GameCanGoOn /\ ReloadKeepsTheGame /\ AtTable
  BY InvParts DEF Pause, AtTable
<1>2. /\ UNCHANGED <<page, seated, human, gameSettings, seriesState, roundResult, pendingNextSet,
                     pendingWinner, countdown, localSave, revealLost, stale>>
      /\ UNCHANGED vars
      /\ isPaused' = TRUE /\ botTimer' = NoPlayer /\ turnTimer' = FALSE
  BY DEF Pause, matchVars
<1>3. TypeOK' /\ RoundIsPlayable'
  BY <1>1, <1>2, EngineRests
<1>4. PageType' /\ Screen'
  BY <1>1, <1>2, EngineRests DEF PageType, Screen, NoTimers
<1>5. TurnIsScheduled' /\ GameCanGoOn' /\ ReloadKeepsTheGame' /\ SavesGood'
  BY <1>1, <1>2, EngineRests
     DEF TurnIsScheduled, GameCanGoOn, ReloadKeepsTheGame, Playing, SavesGood
<1> QED
  BY <1>1, <1>2, <1>3, <1>4, <1>5, InvPartsThen

\* Between rounds there is a reveal or a countdown to a set, which is then lost.
LEMMA ResumeKeeps == ASSUME LocalInv, Resume PROVE LocalInv'
<1>1. /\ TypeOK /\ PageType /\ RoundIsPlayable /\ Counted(seriesState) /\ Screen
      /\ GameCanGoOn /\ page = "game" /\ countdown # "game"
  BY InvParts DEF Resume, AtTable
<1>2. /\ UNCHANGED vars
      /\ UNCHANGED <<page, seated, human, gameSettings, seriesState, pendingNextSet,
                     pendingWinner, countdown, stale>>
      /\ isPaused' = FALSE /\ revealLost' = (revealLost \/ roundResult \/ countdown = "set")
      /\ ScheduleTurns(NoPlayer, FALSE) /\ BroadcastState
  BY DEF Resume, matchVars
<1>3. TypeOK' /\ RoundIsPlayable' /\ roundPhase' = roundPhase /\ (GameOver' <=> GameOver)
  BY <1>1, <1>2, EngineRests
<1>4. roundPhase' # "RESOLVING" \/ revealLost'
  BY <1>1, <1>2, <1>3 DEF GameCanGoOn, Playing
<1>5. /\ TurnIsScheduled' /\ GameCanGoOn' /\ ReloadKeepsTheGame' /\ SavesGood'
      /\ TimersOK' /\ roundResult' = FALSE
  BY <1>1, <1>2, <1>3, <1>4, GameSetGoing DEF PageType, SavesGood
<1>6. revealLost' \in BOOLEAN
  BY <1>1, <1>2 DEF PageType
<1>7. PageType' /\ Screen'
  BY <1>1, <1>2, <1>3, <1>5, <1>6 DEF PageType, Screen, TimersOK
<1> QED
  BY <1>1, <1>2, <1>3, <1>5, <1>7, InvPartsThen

\* Back and Forward show another page of the same game.
LEMMA WalkKeeps == ASSUME LocalInv, BackToResults \/ BackToGame PROVE LocalInv'
<1>1. /\ TypeOK /\ PageType /\ SavesGood /\ RoundIsPlayable /\ Counted(seriesState) /\ Screen
      /\ TurnIsScheduled /\ GameCanGoOn /\ ReloadKeepsTheGame
  BY InvParts DEF BackToResults, BackToGame, AtTable
<1>2. /\ UNCHANGED <<seated, human, gameSettings, seriesState, roundResult, pendingNextSet,
                     pendingWinner, countdown, isPaused, botTimer, turnTimer, localSave,
                     revealLost, stale>>
      /\ UNCHANGED vars
      /\ Playing /\ countdown # "game" /\ page' \in {"game", "peek"}
  BY <1>1 DEF BackToResults, BackToGame, AtTable, Playing, matchVars, refVars, Screen
<1>3. TypeOK' /\ RoundIsPlayable' /\ Playing'
  BY <1>1, <1>2, EngineRests DEF Playing
<1>4. PageType' /\ Screen'
  BY <1>1, <1>2, EngineRests DEF PageType, Pages, Screen, NoTimers
<1>5. TurnIsScheduled' /\ GameCanGoOn' /\ ReloadKeepsTheGame' /\ SavesGood'
  BY <1>1, <1>2, <1>3, EngineRests
     DEF TurnIsScheduled, TurnAwaited, GameCanGoOn, ReloadKeepsTheGame, SavesGood
<1> QED
  BY <1>1, <1>2, <1>3, <1>4, <1>5, InvPartsThen

\* Without a game nothing is shown or scheduled.
LEMMA StopKeeps ==
    ASSUME LocalInv, StopPlaying, localSave' \in {localSave, {}},
           pendingNextSet' \in BOOLEAN, pendingWinner' \in BOOLEAN, stale' \in BOOLEAN,
           \/ page' = "away" /\ ~pendingNextSet'
           \/ page' = "lobby" /\ page # "away" /\ UNCHANGED <<pendingNextSet, stale>>
    PROVE  LocalInv'
<1>1. /\ TypeOK /\ PageType /\ SavesGood /\ Counted(seriesState) /\ GameCanGoOn /\ Screen
      /\ page # "away" => RoundIsPlayable
  BY InvParts
<1>2. /\ UNCHANGED vars
      /\ UNCHANGED <<seated, human, gameSettings, seriesState, revealLost>>
      /\ roundResult' = FALSE /\ countdown' = "none" /\ isPaused' = FALSE
      /\ botTimer' = NoPlayer /\ turnTimer' = FALSE
  BY DEF StopPlaying, matchVars
<1>3. TypeOK' /\ (page' # "away" => RoundIsPlayable')
  BY <1>1, <1>2, EngineRests
<1>4. PageType' /\ Screen'
  BY <1>1, <1>2, EngineRests DEF PageType, Pages, Screen, NoTimers
<1>5. SavesGood'
  BY <1>1 DEF SavesGood
<1>6. TurnIsScheduled' /\ GameCanGoOn' /\ ReloadKeepsTheGame'
  BY <1>1, <1>2 DEF TurnIsScheduled, TurnAwaited, GameCanGoOn, ReloadKeepsTheGame, Playing
<1> QED
  BY <1>1, <1>2, <1>3, <1>4, <1>5, <1>6, InvPartsThen

LEMMA LeavingKeeps == ASSUME LocalInv, LeaveToLobby \/ LeaveRoom \/ Close PROVE LocalInv'
<1>1. CASE LeaveToLobby
  <2>1. pendingNextSet \in BOOLEAN /\ pendingWinner \in BOOLEAN /\ stale \in BOOLEAN
    BY InvParts DEF PageType
  <2> QED
    BY <1>1, <2>1, StopKeeps DEF LeaveToLobby
<1>2. CASE LeaveRoom \/ Close
  BY <1>2, StopKeeps DEF LeaveRoom, Close, ForgetRefs
<1> QED
  BY <1>1, <1>2

\* A game that is loaded shows the saved reveal, or is set going; a save between rounds
\* that has no reveal was made when one was lost.
LEMMA OpenGameKeeps == ASSUME LocalInv, OpenGame PROVE LocalInv'
<1>1. TypeOK /\ PageType /\ SavesGood /\ Screen /\ GameCanGoOn
  BY InvParts
<1>2. PICK save \in localSave :
        /\ page = "away" /\ page' \in {"game", "peek"}
        /\ LoadEngine(save.engine)
        /\ human' = save.human /\ seriesState' = save.seriesState
        /\ UNCHANGED <<seated, gameSettings, pendingNextSet, pendingWinner, countdown, isPaused,
                       revealLost, stale>>
        /\ IF save.roundResult
             THEN roundResult' = TRUE /\ UNCHANGED <<botTimer, turnTimer, localSave>>
             ELSE ScheduleTurns(NoPlayer, FALSE) /\ BroadcastState
  BY DEF OpenGame, refVars
<1>3. /\ GoodSave(save) /\ save.engine \in SnapshotType /\ save.human \in Players
      /\ save.seriesState \in SeriesType /\ save.roundResult \in BOOLEAN
      /\ Counted(save.seriesState) /\ Playable(save.engine)
  BY <1>1, <1>2 DEF SavesGood, GoodSave, SaveType
<1>4. TypeOK' /\ Snapshot' = save.engine
  BY <1>1, <1>2, <1>3, EngineLoads
<1>5. roundPhase' = save.engine.roundPhase
  BY <1>2 DEF LoadEngine
<1>6. RoundIsPlayable'
  <2>1. Playable(Snapshot')
    BY <1>3, <1>4
  <2> QED
    BY <2>1, PlayableThen DEF Playable
<1>7. countdown' = "none" /\ ~pendingNextSet'
  BY <1>1, <1>2 DEF Screen, PageType
<1>8. CASE save.roundResult
  <2>1. /\ roundResult' = TRUE /\ UNCHANGED <<botTimer, turnTimer, localSave>>
        /\ roundPhase' = "RESOLVING"
    BY <1>2, <1>3, <1>5, <1>8 DEF GoodSave
  <2>2. PageType' /\ Screen'
    BY <1>1, <1>2, <1>3, <1>7, <2>1 DEF PageType, Pages, Screen
  <2>3. TurnIsScheduled' /\ GameCanGoOn' /\ SavesGood'
    BY <1>1, <1>2, <2>1 DEF TurnIsScheduled, TurnAwaited, GameCanGoOn, SavesGood
  <2>4. ReloadKeepsTheGame'
    BY <1>2, <1>3, <1>4, <1>8, <2>1 DEF ReloadKeepsTheGame
  <2> QED
    BY <1>2, <1>3, <1>4, <1>6, <2>2, <2>3, <2>4, InvPartsThen
<1>9. CASE ~save.roundResult
  <2>1. roundPhase' # "RESOLVING" \/ revealLost'
    BY <1>1, <1>2, <1>5, <1>9 DEF GameCanGoOn
  <2>2. /\ TurnIsScheduled' /\ GameCanGoOn' /\ ReloadKeepsTheGame' /\ SavesGood'
        /\ TimersOK' /\ roundResult' = FALSE
    BY <1>1, <1>2, <1>3, <1>4, <1>6, <1>9, <2>1, GameSetGoing DEF PageType, SavesGood
  <2>3. PageType' /\ Screen'
    BY <1>1, <1>2, <1>3, <1>7, <2>2 DEF PageType, Pages, Screen, TimersOK
  <2> QED
    BY <1>2, <1>3, <1>4, <1>6, <2>2, <2>3, InvPartsThen
<1> QED
  BY <1>8, <1>9

LEMMA SaveIsRefusedKeeps == ASSUME LocalInv, SaveIsRefused PROVE LocalInv'
<1>1. TypeOK /\ PageType /\ Counted(seriesState) /\ Screen
  BY InvParts
<1>2. /\ UNCHANGED vars /\ page = "away" /\ localSave' = {}
      /\ UNCHANGED <<page, seated, human, gameSettings, seriesState, roundResult, pendingNextSet,
                     pendingWinner, countdown, isPaused, botTimer, turnTimer, revealLost, stale>>
  BY DEF SaveIsRefused, matchVars, refVars
<1>3. TypeOK' /\ (GameOver' <=> GameOver) /\ roundPhase' = roundPhase
  BY <1>1, <1>2, EngineRests
<1>4. PageType' /\ Screen'
  BY <1>1, <1>2, <1>3 DEF PageType, Screen, NoTimers
<1>5. TurnIsScheduled' /\ GameCanGoOn' /\ ReloadKeepsTheGame' /\ SavesGood'
  BY <1>2 DEF TurnIsScheduled, TurnAwaited, GameCanGoOn, ReloadKeepsTheGame, Playing, SavesGood
<1> QED
  BY <1>1, <1>2, <1>3, <1>4, <1>5, InvPartsThen

LEMMA NothingHappensKeeps == ASSUME LocalInv, UNCHANGED localVars PROVE LocalInv'
<1>1. /\ TypeOK /\ PageType /\ SavesGood /\ Counted(seriesState) /\ Screen
      /\ page # "away" => RoundIsPlayable
      /\ TurnIsScheduled /\ GameCanGoOn /\ ReloadKeepsTheGame
  BY InvParts
<1>2. /\ UNCHANGED vars
      /\ UNCHANGED <<page, seated, human, gameSettings, seriesState, roundResult, pendingNextSet,
                     pendingWinner, countdown, isPaused, botTimer, turnTimer, localSave, revealLost, stale>>
  BY DEF localVars
<1>3. TypeOK' /\ (page' # "away" => RoundIsPlayable')
  BY <1>1, <1>2, EngineRests
<1>4. PageType' /\ Screen'
  BY <1>1, <1>2, EngineRests DEF PageType, Screen, NoTimers
<1>5. TurnIsScheduled' /\ GameCanGoOn' /\ ReloadKeepsTheGame' /\ SavesGood'
  BY <1>1, <1>2, EngineRests
     DEF TurnIsScheduled, TurnAwaited, GameCanGoOn, ReloadKeepsTheGame, Playing, SavesGood
<1> QED
  BY <1>1, <1>2, <1>3, <1>4, <1>5, InvPartsThen

LEMMA LocalBegins == ASSUME LocalInit PROVE LocalInv
<1>1. TypeOK
  BY InitType DEF LocalInit
<1>2. seriesState \in SeriesType /\ Counted(seriesState)
  BY SeriesBegins DEF LocalInit
<1>3. PageType /\ Screen
  <2>1. 1 \in Players /\ seated \in 2 .. NumPlayers
    BY NumPlayersAssumption, TableAssumption DEF LocalInit, Players
  <2> QED
    BY <1>2, <2>1 DEF LocalInit, PageType, Pages, SettingsType, Screen, NoTimers
<1>4. TurnIsScheduled /\ GameCanGoOn /\ ReloadKeepsTheGame /\ SavesGood
  BY DEF LocalInit, TurnIsScheduled, TurnAwaited, GameCanGoOn, ReloadKeepsTheGame, Playing, SavesGood
<1> QED
  BY <1>1, <1>2, <1>3, <1>4, InvParts DEF LocalInit

-----------------------------------------------------------------------------
(* Theorems.                                                               *)

LEMMA LocalStepKeeps == ASSUME LocalInv, [LocalNext]_localVars PROVE LocalInv'
BY HumanActsKeeps, BotActsKeeps, TurnTimerFiresKeeps, TimeoutInVainKeeps, StartGameKeeps,
   GameCountdownEndsKeeps, NextSetStartsKeeps, ClearRoundResultKeeps, RematchKeeps, PauseKeeps,
   ResumeKeeps, WalkKeeps, LeavingKeeps, OpenGameKeeps, SaveIsRefusedKeeps,
   NothingHappensKeeps DEF LocalNext

\* The inductive invariant holds throughout.
THEOREM LocalInvKept == LocalSpec => []LocalInv
BY LocalBegins, LocalStepKeeps, PTL DEF LocalSpec

\* Every callback of LocalGameContext finds and leaves well-typed refs, timers and saves.
THEOREM LocalTypeCorrect == LocalSpec => []LocalTypeOK
<1>1. LocalInv => LocalTypeOK
  BY DEF LocalInv
<1> QED
  BY <1>1, LocalInvKept, PTL

\* scheduleBotTurn and scheduleHumanTimer leave no awaited turn without its timeout, however
\* the game got there.
THEOREM TurnStaysScheduled == LocalSpec => []TurnIsScheduled
<1>1. LocalInv => TurnIsScheduled
  BY DEF LocalInv
<1> QED
  BY <1>1, LocalInvKept, PTL

\* clearRoundResult has a way on from every reveal, and so has a restored one, unless
\* resumeGame took it off the screen.
THEOREM GameGoesOn == LocalSpec => []GameCanGoOn
<1>1. LocalInv => GameCanGoOn
  BY DEF LocalInv
<1> QED
  BY <1>1, LocalInvKept, PTL

\* persistGame and tryRestoreGame: a reload finds the game that was on the screen.
THEOREM ReloadIsSafe == LocalSpec => []ReloadKeepsTheGame
<1>1. LocalInv => ReloadKeepsTheGame
  BY DEF LocalInv
<1> QED
  BY <1>1, LocalInvKept, PTL

\* startNextSetImmediate deals a set only after one that was won and left the match open,
\* in a game that began with nothing pending.
THEOREM NextSetIsWon == LocalSpec => SetsAreWon
<1>1. ASSUME LocalInv, [LocalNext]_localVars, SetIsDealt, ~stale, ~UNCHANGED localVars
      PROVE  /\ GameOver
             /\ seriesState.wins["human"] + seriesState.wins["bot"] = seriesState.currentSet - 1
             /\ \A side \in Sides : seriesState.wins[side] < WinsNeeded(seriesState)
  BY <1>1, InvParts DEF SetIsDealt, Screen, Counted
<1> QED
  BY <1>1, LocalInvKept, PTL DEF LocalSpec, SetsAreWon

=============================================================================
