CONSTANTS
  Files = {"a.js", "b.js"}
  Defs = {"night", "noon", "listen", "lamp", "press"}
  FileOf <- MCFileOf
  KindOf <- MCKindOf
  TopicOf <- MCTopicOf
  Topics = {"topic"}
  NoTopic = "no topic"
  NoItem = NoItem
  MaxLoads = 2
  MaxEntries = 3
  MaxThunks = 1
  MaxDepth = 2
SPECIFICATION Spec
INVARIANTS CalledItemsAreLive NothingOutlivesItsScript CronKnowsItsRules SubscribedWhileTracked
CHECK_DEADLOCK FALSE
