SPECIFICATION Spec
CONSTANTS
  Files = 2
  MaxPublished = 4
  MaxLosses = 2
INVARIANTS ArriveInOrder
PROPERTIES SilentAfterDisconnect DeafAfterALoss PublishedArrives AnswersAreHeard
