---------------------------- MODULE GameEngine ----------------------------
(***************************************************************************)
(* The turn and round state machine of shared/src/engine/GameEngine.ts.    *)
(*                                                                         *)
(* Seats are the numbers 1..NumPlayers in seating order (the array         *)
(* `players`, whose order never changes).  The engine keeps the current    *)
(* player as an index into the array of the players that are still in, so  *)
(* the index, and not the player, is the state here too: most of the care  *)
(* in the code goes into keeping that index right when players drop out.   *)
(*                                                                         *)
(* Hands are abstracted to their rank 1..MaxHand; MaxHand is the royal     *)
(* flush, the one hand getMinimumRaise cannot raise.  Cards are abstracted *)
(* to the number each player holds: whether the called hand is in them is  *)
(* consulted once a round, in resolveRound, and is chosen there.           *)
(***************************************************************************)
EXTENDS Integers, FiniteSets, Sequences, FiniteSetsExt

CONSTANTS
    NumPlayers,       \* seats at the table
    MaxHand,          \* the highest hand
    MaxCardsChoices,  \* values of the setting maxCards
    LastChanceModes,  \* values of the setting lastChanceMode
    Leavers           \* the players who may leave during the game

ASSUME NumPlayersAssumption == NumPlayers \in Nat \ {0}
ASSUME MaxHandAssumption == MaxHand \in Nat \ {0}
ASSUME MaxCardsAssumption == MaxCardsChoices \subseteq Nat \ {0}
ASSUME ModesAssumption == LastChanceModes \subseteq {"classic", "strict"}
ASSUME LeaversAssumption == Leavers \subseteq 1 .. NumPlayers

Players == 1 .. NumPlayers
Hands == 1 .. MaxHand
NoPlayer == 0        \* null, and the '' of currentPlayerId
NoHand == 0          \* null
STARTING_CARDS == 1

RoundPhases == {"CALLING", "BULL_PHASE", "LAST_CHANCE", "RESOLVING"}
CallActions == {"CALL", "LAST_CHANCE_RAISE"}
Responses == {"BULL", "TRUE"}
TurnActions == CallActions \union Responses \union {"LAST_CHANCE_PASS"}
TurnEntry == [player : Players, action : TurnActions, hand : Hands \union {NoHand}]
TurnResults == {"new_round", "continue", "last_chance", "resolve", "game_over", "restored"}

RoundResult == [handExists : BOOLEAN,
                penalized : SUBSET Players,
                eliminated : SUBSET Players]
NoResult == [handExists |-> FALSE, penalized |-> {}, eliminated |-> {}]

VARIABLES
    settings,            \* maxCards and lastChanceMode, fixed at creation
    isEliminated,
    cardCount,
    roundPhase,
    currentPlayerIndex,  \* 0-based, into the players still in; -1 is findIndex's "none"
    currentHand,
    lastCallerId,
    turnHistory,
    startingPlayerId,    \* who opened the round ...
    startingPlayerIndex, \* ... and their index then
    respondedPlayers,
    lastChanceUsed,
    lastCallIndex,       \* memo of getLastCallIndex: 1-based, 0 when there is no call ...
    lastCallIndexLength, \* ... and the history length it was computed for, -1 at first
    lastRoundResult,
    turnResult           \* what the last operation returned to its caller

turnVars == <<currentHand, lastCallerId, turnHistory, respondedPlayers, lastChanceUsed>>
scoreVars == <<isEliminated, cardCount, lastRoundResult>>
memoVars == <<lastCallIndex, lastCallIndexLength>>
fixedVars == <<settings, startingPlayerId, startingPlayerIndex>>
vars == <<settings, isEliminated, cardCount, roundPhase, currentPlayerIndex, currentHand,
          lastCallerId, turnHistory, startingPlayerId, startingPlayerIndex, respondedPlayers,
          lastChanceUsed, lastCallIndex, lastCallIndexLength, lastRoundResult, turnResult>>

-----------------------------------------------------------------------------
(* Players still in, and the index arithmetic over them.                   *)

StillIn(elim) == {p \in Players : ~elim[p]}
ActivePlayers == StillIn(isEliminated)

\* findIndex: the place of p among the players of S, in seating order.
IndexIn(S, p) == IF p \in S THEN Cardinality({q \in S : q < p}) ELSE -1

\* active[i]?.id ?? ''
PlayerAt(S, i) ==
    IF \E p \in S : IndexIn(S, p) = i
      THEN CHOOSE p \in S : IndexIn(S, p) = i
      ELSE NoPlayer

CurrentPlayerId == PlayerAt(ActivePlayers, currentPlayerIndex)

GameOver == Cardinality(ActivePlayers) <= 1

\* Index i, or the next one when i is the seat of the last caller.
SkipCaller(S, i, caller) ==
    IF PlayerAt(S, i) = caller THEN (i + 1) % Cardinality(S) ELSE i

\* Mutant: the last seat is followed by one that is not there.
AdvanceOffTheEnd(caller) ==
    currentPlayerIndex' = SkipCaller(ActivePlayers, currentPlayerIndex + 1, caller)

AdvanceTurn(caller) ==
    LET n == Cardinality(ActivePlayers)
    IN  currentPlayerIndex' =
            IF n = 0 THEN currentPlayerIndex
            ELSE SkipCaller(ActivePlayers, (currentPlayerIndex + 1) % n, caller)

\* Mutants: the last seat passes the turn on to nobody when it is left; a leaver
\* who was not on turn leaves the index as it was.
ReindexOffTheEnd(S, prev, gone) ==
    currentPlayerIndex' =
        IF prev = gone THEN SkipCaller(S, currentPlayerIndex, lastCallerId)
        ELSE IF prev = NoPlayer THEN currentPlayerIndex
        ELSE IndexIn(S, prev)
KeepIndex(S, prev, gone) ==
    currentPlayerIndex' = SkipCaller(S, currentPlayerIndex % Cardinality(S), lastCallerId)

\* The players of S are left after `gone` dropped out; prev was current before.
ReindexCurrentPlayer(S, prev, gone) ==
    currentPlayerIndex' =
        IF prev = gone THEN SkipCaller(S, currentPlayerIndex % Cardinality(S), lastCallerId)
        ELSE IF prev = NoPlayer THEN currentPlayerIndex
        ELSE IndexIn(S, prev)

-----------------------------------------------------------------------------
(* Reading the turn history.                                               *)

Entry(p, a, h) == [player |-> p, action |-> a, hand |-> h]

LastCallIndexOf(hist) ==
    Max({0} \union {i \in DOMAIN hist : hist[i].action \in CallActions})

\* getLastCallIndex: the scan is skipped when the memo is for a history as long.
RememberLastCall(hist) ==
    /\ lastCallIndexLength' = Len(hist)
    /\ lastCallIndex' = IF lastCallIndexLength = Len(hist)
                          THEN lastCallIndex ELSE LastCallIndexOf(hist)

\* Mutant: a TRUE anywhere in the round counts.
TrueInRound(hist, k) == \E i \in DOMAIN hist : hist[i].action = "TRUE"

TrueAfter(hist, k) ==
    k # 0 /\ \E i \in DOMAIN hist : i > k /\ hist[i].action = "TRUE"

\* lastActionByPlayer: over the whole round, not only since the last call.
LastAction(hist, p) ==
    LET own == {i \in DOMAIN hist : hist[i].player = p}
    IN  IF own = {} THEN "NONE" ELSE hist[Max(own)].action

\* Mutant: the answer is not noted.
AnswerForgotten(p) == respondedPlayers

WithAnswer(p) == respondedPlayers \union {p}

AllNonCallersResponded(S, responded) == S \subseteq responded \union {lastCallerId}

-----------------------------------------------------------------------------
(* resolveRound, called with the elimination flags and the history as the  *)
(* operation has left them.                                                *)

\* Mutant: a hand that is there proves its believers wrong.
IncorrectSwapped(hist, handExists, p) ==
    IF p = lastCallerId THEN ~handExists
    ELSE CASE LastAction(hist, p) = "BULL" -> ~handExists
           [] LastAction(hist, p) = "TRUE" -> handExists
           [] OTHER -> TRUE

Incorrect(hist, handExists, p) ==
    IF p = lastCallerId THEN ~handExists
    ELSE CASE LastAction(hist, p) = "BULL" -> handExists
           [] LastAction(hist, p) = "TRUE" -> ~handExists
           [] OTHER -> TRUE

\* Those whom another card puts out.
AtLimit(in) == {p \in in : cardCount[p] + 1 > settings.maxCards}

\* Mutant: penalties fall even when they end the game without a winner.
PenalizedRegardless(in, wrong) == wrong

\* allWouldEliminate: nobody draws when all are wrong and all would be out.
Penalized(in, wrong) == IF wrong = in /\ AtLimit(in) = in THEN {} ELSE wrong

ResolveRound(elim, hist) ==
    \E handExists \in BOOLEAN :
        LET in == StillIn(elim)
            atLimit == AtLimit(in)
            penalized == Penalized(in, {p \in in : Incorrect(hist, handExists, p)})
        IN  /\ roundPhase' = "RESOLVING"
            /\ cardCount' = [p \in Players |->
                                IF p \in penalized THEN cardCount[p] + 1 ELSE cardCount[p]]
            /\ isEliminated' = [p \in Players |-> elim[p] \/ p \in penalized \intersect atLimit]
            /\ lastRoundResult' = [handExists |-> handExists,
                                   penalized |-> penalized,
                                   eliminated |-> penalized \intersect atLimit]
            /\ turnResult' = IF Cardinality(in \ (penalized \intersect atLimit)) <= 1
                               THEN "game_over" ELSE "resolve"

\* Everybody has answered: the caller's last chance when nobody believed the
\* call and the chance is still open, otherwise the cards are revealed.  The
\* index the revealing leaves behind is whatever the operation had made it.
OfferLastChance(elim) ==
    /\ roundPhase' = "LAST_CHANCE"
    /\ currentPlayerIndex' = IndexIn(StillIn(elim), lastCallerId)
    /\ isEliminated' = elim
    /\ turnResult' = "last_chance"
    /\ UNCHANGED <<cardCount, lastRoundResult>>

-----------------------------------------------------------------------------
(* The operations.                                                         *)

\* Mutant: no turns in the bull phase.
MayTakeTurnToCall(p) == roundPhase = "CALLING" /\ CurrentPlayerId = p

\* validateTurn
MayTakeTurn(p) ==
    /\ roundPhase \in {"CALLING", "BULL_PHASE"}
    /\ p \in ActivePlayers
    /\ CurrentPlayerId = p

\* Mutant: answers to the last bid count for this one.
AcceptCallKeepingAnswers(p, h, action) ==
    /\ currentHand' = h
    /\ lastCallerId' = p
    /\ turnHistory' = Append(turnHistory, Entry(p, action, h))
    /\ respondedPlayers' = respondedPlayers \union {p}
    /\ AdvanceTurn(p)
    /\ turnResult' = "continue"
    /\ UNCHANGED <<fixedVars, scoreVars, memoVars>>

\* What a call and a last-chance raise have in common.
AcceptCall(p, h, action) ==
    /\ currentHand' = h
    /\ lastCallerId' = p
    /\ turnHistory' = Append(turnHistory, Entry(p, action, h))
    /\ respondedPlayers' = {p}
    /\ AdvanceTurn(p)
    /\ turnResult' = "continue"
    /\ UNCHANGED <<fixedVars, scoreVars, memoVars>>

HandleCall(p, h) ==
    /\ MayTakeTurn(p)
    /\ h > currentHand
    /\ roundPhase' = IF h = MaxHand THEN "BULL_PHASE" ELSE "CALLING"
    /\ lastChanceUsed' = FALSE
    /\ AcceptCall(p, h, "CALL")

HandleBull(p) ==
    LET hist == Append(turnHistory, Entry(p, "BULL", NoHand))
        responded == WithAnswer(p)
    IN  /\ MayTakeTurn(p)
        /\ currentHand # NoHand
        /\ turnHistory' = hist
        /\ respondedPlayers' = responded
        /\ UNCHANGED <<fixedVars, currentHand, lastCallerId, lastChanceUsed>>
        /\ \/ /\ ~AllNonCallersResponded(ActivePlayers, responded)
              /\ roundPhase' = "BULL_PHASE"
              /\ AdvanceTurn(lastCallerId)
              /\ turnResult' = "continue"
              /\ UNCHANGED <<scoreVars, memoVars>>
           \/ /\ AllNonCallersResponded(ActivePlayers, responded)
              /\ RememberLastCall(hist)
              /\ IF ~TrueAfter(hist, lastCallIndex') /\ ~lastChanceUsed
                   THEN OfferLastChance(isEliminated)
                   ELSE /\ ResolveRound(isEliminated, hist)
                        /\ UNCHANGED currentPlayerIndex

HandleTrue(p) ==
    LET hist == Append(turnHistory, Entry(p, "TRUE", NoHand))
        responded == WithAnswer(p)
    IN  /\ MayTakeTurn(p)
        /\ roundPhase = "BULL_PHASE"
        /\ turnHistory' = hist
        /\ respondedPlayers' = responded
        /\ UNCHANGED <<fixedVars, memoVars, currentHand, lastCallerId, lastChanceUsed>>
        /\ \/ /\ ~AllNonCallersResponded(ActivePlayers, responded)
              /\ AdvanceTurn(lastCallerId)
              /\ turnResult' = "continue"
              /\ UNCHANGED <<scoreVars, roundPhase>>
           \/ /\ AllNonCallersResponded(ActivePlayers, responded)
              /\ ResolveRound(isEliminated, hist)
              /\ UNCHANGED currentPlayerIndex

\* Mutant: the chance is not used up.
RaiseAndKeepChance(p, h) ==
    /\ roundPhase = "LAST_CHANCE"
    /\ p = lastCallerId
    /\ h > currentHand
    /\ lastChanceUsed' = FALSE
    /\ roundPhase' = IF settings.lastChanceMode = "strict" /\ h # MaxHand
                       THEN "CALLING" ELSE "BULL_PHASE"
    /\ AcceptCall(p, h, "LAST_CHANCE_RAISE")

HandleLastChanceRaise(p, h) ==
    /\ roundPhase = "LAST_CHANCE"
    /\ p = lastCallerId
    /\ h > currentHand
    /\ lastChanceUsed' = TRUE
    /\ roundPhase' = IF settings.lastChanceMode = "strict" /\ h # MaxHand
                       THEN "CALLING" ELSE "BULL_PHASE"
    /\ AcceptCall(p, h, "LAST_CHANCE_RAISE")

HandleLastChancePass(p) ==
    LET hist == Append(turnHistory, Entry(p, "LAST_CHANCE_PASS", NoHand))
    IN  /\ roundPhase = "LAST_CHANCE"
        /\ p = lastCallerId
        /\ turnHistory' = hist
        /\ ResolveRound(isEliminated, hist)
        /\ UNCHANGED <<fixedVars, memoVars, currentPlayerIndex, currentHand, lastCallerId,
                       respondedPlayers, lastChanceUsed>>

\* The branches of eliminatePlayer once the flag is set, in the order of the code.
EliminatePlayer(p) ==
    LET elim == [isEliminated EXCEPT ![p] = TRUE]
        in == StillIn(elim)
        autoPass == roundPhase = "LAST_CHANCE" /\ p = lastCallerId
        answered == /\ roundPhase # "RESOLVING"
                    /\ currentHand # NoHand
                    /\ AllNonCallersResponded(in, respondedPlayers)
    IN  /\ ~isEliminated[p]
        /\ UNCHANGED <<fixedVars, turnVars>>
        /\ \/ /\ Cardinality(in) <= 1
              /\ isEliminated' = elim
              /\ turnResult' = "game_over"
              /\ UNCHANGED <<cardCount, lastRoundResult, roundPhase, currentPlayerIndex, memoVars>>
           \/ /\ Cardinality(in) > 1
              /\ autoPass
              /\ ResolveRound(elim, turnHistory)
              /\ UNCHANGED <<currentPlayerIndex, memoVars>>
           \/ /\ Cardinality(in) > 1
              /\ ~autoPass /\ ~answered
              /\ isEliminated' = elim
              /\ ReindexCurrentPlayer(in, CurrentPlayerId, p)
              /\ turnResult' = "continue"
              /\ UNCHANGED <<cardCount, lastRoundResult, roundPhase, memoVars>>
           \/ /\ Cardinality(in) > 1
              /\ ~autoPass /\ answered
              /\ RememberLastCall(turnHistory)
              /\ IF /\ ~TrueAfter(turnHistory, lastCallIndex')
                    /\ ~lastChanceUsed
                    /\ lastCallerId \in in
                   THEN OfferLastChance(elim)
                   ELSE /\ ReindexCurrentPlayer(in, CurrentPlayerId, p)
                        /\ ResolveRound(elim, turnHistory)

\* Mutant: going round starts at s itself.
NextSeatFrom(s, S) ==
    LET steps(p) == (p + NumPlayers - s) % NumPlayers
    IN  CHOOSE p \in S : \A q \in S : steps(p) <= steps(q)

\* The first player still in after seat s, going round the table.
NextSeatAfter(s, S) ==
    LET steps(p) == (p + NumPlayers - s - 1) % NumPlayers
    IN  CHOOSE p \in S : \A q \in S : steps(p) <= steps(q)

\* Its callers ask for the next round only once the last one is resolved.
StartNextRound ==
    /\ roundPhase = "RESOLVING"
    /\ UNCHANGED <<settings, isEliminated, cardCount, memoVars>>
    /\ \/ /\ GameOver
          /\ turnResult' = "game_over"
          /\ UNCHANGED <<roundPhase, currentPlayerIndex, turnVars, startingPlayerId,
                         startingPlayerIndex, lastRoundResult>>
       \/ /\ ~GameOver
          /\ startingPlayerId' = NextSeatAfter(startingPlayerId, ActivePlayers)
          /\ startingPlayerIndex' = IndexIn(ActivePlayers, startingPlayerId')
          /\ currentPlayerIndex' = IndexIn(ActivePlayers, startingPlayerId')
          /\ roundPhase' = "CALLING"
          /\ currentHand' = NoHand
          /\ lastCallerId' = NoPlayer
          /\ turnHistory' = << >>
          /\ respondedPlayers' = {}
          /\ lastChanceUsed' = FALSE
          /\ lastRoundResult' = NoResult
          /\ turnResult' = "new_round"

\* What restore asks of a snapshot.  That its players, phase and names are known goes
\* without saying here.
SnapshotIsValid ==
    ActivePlayers # {} =>
        {currentPlayerIndex, startingPlayerIndex} \subseteq 0 .. Cardinality(ActivePlayers) - 1

\* serialize, and restore in a server that has been started again: the result of the last
\* round and the memo are not in the snapshot.  When restore throws, the game is lost.
Restore ==
    /\ SnapshotIsValid
    /\ lastRoundResult' = NoResult
    /\ lastCallIndex' = 0
    /\ lastCallIndexLength' = -1
    /\ turnResult' = "restored"
    /\ UNCHANGED <<fixedVars, turnVars, isEliminated, cardCount, roundPhase, currentPlayerIndex>>

\* The constructor followed by startRound.
Init ==
    /\ settings \in [maxCards : MaxCardsChoices, lastChanceMode : LastChanceModes]
    /\ isEliminated = [p \in Players |-> FALSE]
    /\ cardCount = [p \in Players |-> STARTING_CARDS]
    /\ roundPhase = "CALLING"
    /\ currentPlayerIndex = 0
    /\ startingPlayerId = 1
    /\ startingPlayerIndex = 0
    /\ currentHand = NoHand
    /\ lastCallerId = NoPlayer
    /\ turnHistory = << >>
    /\ respondedPlayers = {}
    /\ lastChanceUsed = FALSE
    /\ lastCallIndex = 0
    /\ lastCallIndexLength = -1
    /\ lastRoundResult = NoResult
    /\ turnResult = "new_round"

TurnAction(p) ==
    \/ \E h \in Hands : HandleCall(p, h)
    \/ HandleBull(p)
    \/ HandleTrue(p)
    \/ \E h \in Hands : HandleLastChanceRaise(p, h)
    \/ HandleLastChancePass(p)

Next ==
    \/ \E p \in Players : TurnAction(p)
    \/ \E p \in Leavers : EliminatePlayer(p)
    \/ StartNextRound
    \/ Restore

Spec == Init /\ [][Next]_vars

\* A player whose turn it is acts, or the server's turn timer acts for them
\* (executeAutoAction, executeBotTurn); the next round starts when the result
\* window closes.
FairSpec ==
    /\ Spec
    /\ WF_vars(\E p \in Players : TurnAction(p))
    /\ WF_vars(StartNextRound)

-----------------------------------------------------------------------------
(* Properties.                                                             *)

\* The state every operation expects and leaves behind.
TypeOK ==
    /\ settings \in [maxCards : MaxCardsChoices, lastChanceMode : LastChanceModes]
    /\ isEliminated \in [Players -> BOOLEAN]
    /\ cardCount \in [Players -> Nat]
    /\ roundPhase \in RoundPhases
    /\ currentPlayerIndex \in -1 .. NumPlayers - 1
    /\ currentHand \in Hands \union {NoHand}
    /\ lastCallerId \in Players \union {NoPlayer}
    /\ turnHistory \in Seq(TurnEntry)
    /\ startingPlayerId \in Players
    /\ startingPlayerIndex \in -1 .. NumPlayers - 1
    /\ respondedPlayers \in SUBSET Players
    /\ lastChanceUsed \in BOOLEAN
    /\ lastCallIndex \in Nat
    /\ lastCallIndexLength \in Nat \union {-1}
    /\ lastRoundResult \in RoundResult
    /\ turnResult \in TurnResults

AwaitsTurn == roundPhase \in {"CALLING", "BULL_PHASE"}

\* While a turn is awaited in a game that is not over, the index names a player
\* who is still in and who owes an answer: not the caller, and nobody who has
\* already responded.  Players dropping out anywhere must not break this.
TurnIsPending ==
    AwaitsTurn /\ ~GameOver =>
        /\ CurrentPlayerId \in ActivePlayers
        /\ currentHand # NoHand => CurrentPlayerId \notin respondedPlayers \union {lastCallerId}

\* Everybody asked so far was asked in turn: a player is asked only when all
\* who sit between the caller and them have answered or left.  (A caller who is
\* out and still raises on the last chance has no seat to go on from.)
AnsweredInTurn ==
    /\ AwaitsTurn /\ ~GameOver /\ currentHand # NoHand
    /\ lastChanceUsed => lastCallerId \in ActivePlayers
    =>
        \A p \in ActivePlayers \ {lastCallerId} :
            LET steps(q) == (q + NumPlayers - lastCallerId) % NumPlayers
            IN  p \in respondedPlayers <=> steps(p) < steps(CurrentPlayerId)

\* The entries since the last call are the answers to it.
CallAt == LastCallIndexOf(turnHistory)
AnswersOf(p) == {i \in DOMAIN turnHistory :
                    /\ i > CallAt
                    /\ turnHistory[i].player = p
                    /\ turnHistory[i].action \in Responses}

\* Nobody answers the same call twice, and the caller never answers it.
OneAnswerPerCall ==
    ~GameOver /\ currentHand # NoHand =>
        \A p \in Players : Cardinality(AnswersOf(p)) <= IF p = lastCallerId THEN 0 ELSE 1

\* In a resolved round the penalties are those of the rules: the caller for a
\* hand that is not there, the others for a wrong answer to the LAST call
\* (resolveRound looks at the last action of the whole round instead, and has
\* a branch for players who never answered).  Nobody is penalised when all
\* players are wrong and all would be eliminated by it.
InTheReveal == ActivePlayers \union lastRoundResult.eliminated
Believed(p) == \E i \in AnswersOf(p) : turnHistory[i].action = "TRUE"
PenaltiesFollowAnswers ==
    roundPhase = "RESOLVING" /\ turnResult = "resolve" =>
        LET wrong == {p \in InTheReveal :
                        IF p = lastCallerId THEN ~lastRoundResult.handExists
                        ELSE Believed(p) # lastRoundResult.handExists}
        IN  /\ \A p \in InTheReveal \ {lastCallerId} : AnswersOf(p) # {}
            /\ lastRoundResult.penalized \in {wrong, {}}
            /\ lastRoundResult.penalized # wrong => wrong = InTheReveal

\* A player still in holds at least one card and at most maxCards.
CardsWithinLimit ==
    \A p \in ActivePlayers : cardCount[p] \in STARTING_CARDS .. settings.maxCards

\* The caller's last chance comes at most once for a chain of bids: between
\* two last-chance raises somebody made a fresh call.
OneLastChancePerCall ==
    \A i, j \in DOMAIN turnHistory :
        /\ i < j
        /\ turnHistory[i].action = "LAST_CHANCE_RAISE"
        /\ turnHistory[j].action = "LAST_CHANCE_RAISE"
        => \E k \in i .. j : turnHistory[k].action = "CALL"

\* Somebody can answer in the last chance: the player it was offered to.
LastChanceHasCaller ==
    roundPhase = "LAST_CHANCE" /\ ~GameOver => CurrentPlayerId = lastCallerId

\* Revealing the cards never eliminates everybody who was still in.
Reveals == ~GameOver /\ roundPhase # "RESOLVING" /\ roundPhase' = "RESOLVING"
SomeoneSurvivesReveal == [][Reveals => ActivePlayers' # {}]_vars

\* Nobody believed the last call.
EveryoneCalledBull(hist) ==
    \A i \in DOMAIN hist : i > LastCallIndexOf(hist) => hist[i].action # "TRUE"

\* A round that nobody believed is revealed only after its caller, if still
\* in, had the last chance or had used it.
LastChanceIsOffered ==
    [][ Reveals /\ EveryoneCalledBull(turnHistory') =>
            \/ roundPhase = "LAST_CHANCE"
            \/ lastChanceUsed
            \/ lastCallerId \notin InTheReveal'
      ]_vars

\* Within a round the bid only ever rises.
BidRises == [][currentHand' # currentHand => currentHand' > currentHand \/ turnResult' = "new_round"]_vars

\* The first turn passes on: whoever opened a round does not open the next
\* one, and nobody still in who sits in between is passed over.
OpenerRotates ==
    [][ turnResult' = "new_round" /\ roundPhase = "RESOLVING" =>
            /\ startingPlayerId' # startingPlayerId
            /\ CurrentPlayerId' = startingPlayerId'
            /\ LET steps(q) == (q + NumPlayers - startingPlayerId) % NumPlayers
               IN  \A q \in ActivePlayers \ {startingPlayerId} :
                       steps(q) >= steps(startingPlayerId') ]_vars

\* A snapshot is refused only for the departure of a player: every round begins with one
\* that can be restored, and while nobody is put out it stays so.  (The exception is the
\* last chance that goes to a caller who has left.)
RestorableUntilSomeoneGoes ==
    [][ /\ turnResult' = "new_round" => SnapshotIsValid'
        /\ SnapshotIsValid /\ UNCHANGED isEliminated =>
              \/ SnapshotIsValid'
              \/ roundPhase' = "LAST_CHANCE" /\ lastCallerId \notin ActivePlayers
      ]_vars

\* Every round comes to its reveal, or the game is over.
RoundIsRevealed == AwaitsTurn ~> roundPhase = "RESOLVING" \/ GameOver
============================================================================
