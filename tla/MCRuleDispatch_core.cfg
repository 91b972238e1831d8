CONSTANTS
  Controls = {"a", "b"}
  Metas = {"a#error"}
  MetaOf <- MCMetaOf
  Buttons = {}
  Retained = {"a", "b"}
  Values = {"0", "1"}
  NoValue = "none"
  InitValues <- AllReceived
  Timers = {"t"}
  NoTimer = "no timer"
  Rules = {"func", "meta"}
  NoRule = "no rule"
  NoEvent = NoEvent
  Files = {"f1.js", "f2.js"}
  FileOf <- MCFileOf
  NameOf <- MCNameOf
  NoName = ""
  Conds <- UsedConds
  Kind <- MCKind
  SpecOf <- MCSpecOf
  CondsOf <- MCCondsOf
  Results = {"true", "false", "nil", "0", "1"}
  Eval <- MCEval
  Reads <- MCReads
  Calls = {"setState", "define", "reload"}
  MaxQueue = 2
  MaxDepth = 2
SPECIFICATION FairSpec
INVARIANTS TypeOK CallsOwnTheirModes CellChangesFire NoMissedFunctionChange
PROPERTY ConditionsSettle
