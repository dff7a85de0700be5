SPECIFICATION Spec
CONSTANTS
  NumPlayers = 3
  MaxHand = 3
  MaxCardsChoices = {1, 2}
  LastChanceModes = {"classic", "strict"}
  Leavers = {1, 2, 3}
CHECK_DEADLOCK FALSE
INVARIANTS
  TypeOK
  TurnIsPending
  AnsweredInTurn
  OneAnswerPerCall
  PenaltiesFollowAnswers
  OneLastChancePerCall
PROPERTIES
  SomeoneSurvivesReveal
  LastChanceIsOffered
  OpenerRotates
  RestorableUntilSomeoneGoes
