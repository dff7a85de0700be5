SPECIFICATION Spec
CONSTANTS
  NumPlayers = 6
  MaxHand = 2
  MaxCardsChoices = {1}
  LastChanceModes = {"classic"}
  Leavers = {}
CHECK_DEADLOCK FALSE
PROPERTY LastChanceIsOffered
