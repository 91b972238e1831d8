CONSTANTS
  Controls = {"a", "b"}
  Metas = {}
  MetaOf <- MCMetaOf
  Buttons = {}
  Retained = {"a", "b"}
  Values = {"0", "1"}
  NoValue = "none"
  InitValues <- AllReceived
  Timers = {"t"}
  NoTimer = "no timer"
  Rules = {"edge", "cell"}
  NoRule = "no rule"
  NoEvent = NoEvent
  Files = {"f1.js", "f2.js"}
  FileOf <- MCFileOf
  NameOf <- MCNameOf
  NoName = ""
  Conds <- UsedConds
  Kind <- MCKind
  SpecOf <- MCSpecOf
  CondsOf <- MCCondsOf
  Results = {"true", "false", "nil", "0", "1"}
  Eval <- MCEval
  Reads <- MCReads
  Calls = {"runRules"}
  MaxQueue = 2
  MaxDepth = 2
SPECIFICATION Spec
INVARIANT CellChangesFire
