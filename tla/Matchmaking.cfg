SPECIFICATION EndlessSpec
CONSTANTS
  Sockets = {1, 2, 3, 4}
  UserOf <- Owners
  Rating <- Ratings
  Plays <- Wishes
  MaxJoins = 2
  MaxOverlap = 1
  MaxLine = 2
  MaxTroubles = 1
  ELO_WINDOW = 2
  MULTIPLAYER_ELO_SPREAD = 4
  MULTIPLAYER_MIN = 2
  MULTIPLAYER_TARGET = 2
  MULTIPLAYER_MAX = 2
CHECK_DEADLOCK FALSE
INVARIANTS
  MatchTypeOK
  IndexFollowsQueue
  SeatedOnce
  MatchedWereWaiting
  MatchHasOpponents
PROPERTIES
  WaitersAreServed
