CONSTANTS
  NumTxs = 3
  Entries <- MCEntries
  TxOf <- MCTxOf
  TopicOf <- MCTopicOf
  Compact = {3}
  Hinted = {3}
  Poison = {}
  Dispatchers <- Both
  AnyTopic = AnyTopic
  NoLimit = NoLimit
  PageSize = 2
  MaxDepth = 2
  MaxFaults = 2
SPECIFICATION Spec
INVARIANTS
  DoneWasPublishedAndRefreshed
