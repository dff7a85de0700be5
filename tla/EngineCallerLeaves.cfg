SPECIFICATION Spec
CONSTANTS
  NumPlayers = 3
  MaxHand = 2
  MaxCardsChoices = {2}
  LastChanceModes = {"classic"}
  Leavers = {1}
CHECK_DEADLOCK FALSE
INVARIANT LastChanceHasCaller
