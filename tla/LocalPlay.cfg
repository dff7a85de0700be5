SPECIFICATION LocalSpec
CONSTANTS
  NumPlayers = 3
  MaxHand = 2
  MaxCardsChoices = {2}
  LastChanceModes = {"classic"}
  Leavers = {}
  TurnTimers = {TRUE}
  BestOfChoices = {1, 3}
CHECK_DEADLOCK FALSE
INVARIANTS
  LocalTypeOK
  TurnIsScheduled
  GameCanGoOn
  ReloadKeepsTheGame
PROPERTY SetsAreWon
