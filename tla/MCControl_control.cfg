SPECIFICATION MCSpec
CONSTANTS
  Null = Null
  Exchanges = {"kraken", "binance"}
INVARIANTS
  RunAsAnnounced
  OwnPositions
  StoppedForGood
  SelectedAsConfigured
  MessagesHandled
  NeverDeaf
  ExitsWithWorkDone
  GoodbyeBeforeExit
  EventsTold
PROPERTIES
  EventuallySettled
  EventuallyConsuming
  GoodbyeIsLast
\* The parts come to their ends.
CHECK_DEADLOCK FALSE
