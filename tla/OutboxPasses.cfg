CONSTANTS
  NumTxs = 3
  Entries <- MCEntries
  TxOf <- MCTxOf
  TopicOf <- MCTopicOf
  Compact = {3}
  Hinted = {3}
  Poison = {1}
  Dispatchers <- Both
  AnyTopic = AnyTopic
  NoLimit = NoLimit
  PageSize = 2
  MaxDepth = 1
  MaxFaults = 3
SPECIFICATION FairSpec
INVARIANTS
  UndeliveredMeansRefreshPending
  DeliveredNotPublishedAgain
PROPERTIES
  PassReturns
  EveryEntryTried
  EveryRefreshAsked
