SPECIFICATION FairSpec
CONSTANTS
  NumPlayers = 3
  MaxHand = 3
  MaxCardsChoices = {1, 2}
  LastChanceModes = {"classic", "strict"}
  Leavers = {}
CHECK_DEADLOCK FALSE
PROPERTIES ImplementsRules RoundIsRevealed
