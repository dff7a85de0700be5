SPECIFICATION FairRoomSpec
CONSTANTS
  NumPlayers = 3
  MaxHand = 2
  MaxCardsChoices = {1}
  LastChanceModes = {"classic"}
  Leavers = {}
  BotChoices = {{3}, {1, 2}}
  BestOfChoices = {1, 3}
  Misclickers = {1, 3}
CHECK_DEADLOCK FALSE
INVARIANTS
  RoomTypeOK
  ResultIsRevealed
  TurnTimerRuns
  AbsenceIsTimed
  OnlyTheOutAreRanked
PROPERTIES
  PutOutForCause
  RoundsComeToResults
  ResultsGiveWay
