CONSTANTS
  block = block
  channel = channel
  Doc = {block, channel}
  DocOrder <- MCDocOrder
  Scenarios <- MCScenarios
  Call = {c1, c2}
SPECIFICATION Spec
CHECK_DEADLOCK FALSE
PROPERTY JobsEnd
PROPERTY KeepsJournal
PROPERTY NothingUnsaved
PROPERTY EveryoneEnds
