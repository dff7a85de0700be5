--------------------------- MODULE MCGameEngine ---------------------------
(* GameEngine for TLC, and the rules of BluffRound as it implements them.  *)
EXTENDS GameEngine

\* No seat owes the opening bid in particular: the rules let anyone open.
Owing ==
    IF roundPhase \notin {"CALLING", "BULL_PHASE"} THEN {}
    ELSE IF currentHand = NoHand THEN ActivePlayers
    ELSE ActivePlayers \ (respondedPlayers \union {lastCallerId})

Stage ==
    CASE roundPhase = "LAST_CHANCE" -> "lastChance"
      [] roundPhase = "RESOLVING" -> "revealed"
      [] OTHER -> "bidding"

Believers == {p \in Players : Believed(p)}

Rules == INSTANCE BluffRound WITH
    Seats <- Players,
    TopHand <- MaxHand,
    limit <- settings.maxCards,
    hold <- cardCount,
    out <- Players \ ActivePlayers,
    stage <- Stage,
    bid <- currentHand,
    bidder <- lastCallerId,
    owing <- Owing,
    believers <- Believers,
    chanceUsed <- lastChanceUsed

\* While nobody leaves, every operation of the engine is a move of the rules:
\* the index, the set of responders, the memo and the scan of the history
\* together pick the same moves, penalties and eliminations.  (With six players
\* or more the memo of a round before may be wrong, as EngineStaleMemo.cfg shows.)
ImplementsRules == Rules!RoundSpec
============================================================================
